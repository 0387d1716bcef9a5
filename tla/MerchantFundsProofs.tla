------------------------- MODULE MerchantFundsProofs -------------------------
(***************************************************************************)
(* The balance of a merchant account is right for any sessions, captures,  *)
(* refunds, payouts and amounts: settlements and commits keep FundsInv,    *)
(* and FundsInv implies what the balances promise.                         *)
(***************************************************************************)
EXTENDS MerchantFundsSteps

-----------------------------------------------------------------------------
(* Settlement.                                                             *)

\* A settlement moves what its captures have left from pending to available.
LEMMA RunSettlementStep ==
  ASSUME FundsInv, NEW skipped \in SUBSET Captures, RunSettlement(skipped)
  PROVE  FundsInv'
  <1> USE ConstantsAssumption
  <1> DEFINE items == {x \in Captures : /\ capture[x] # None /\ settlement[x] = None
                                        /\ x \notin skipped /\ Unsettled(x) > 0}
             h == [x \in Captures |-> IF x \in items THEN Unsettled(x) ELSE 0]
             total == SumFunction(h)
             offset == Smaller(Larger(Owed("receivable"), 0), total)
             e == [NoEntries EXCEPT !["pending"] = -total, !["receivable"] = offset,
                                    !["available"] = total - offset]
  <1>0. /\ TypeOK /\ LocksExclude /\ AdvisoryInv /\ OneInsert /\ RowsInv
        /\ ReservationsCovered /\ PayoutsAccounted /\ MerchantIsOwed /\ PendingBacked
        /\ \A d \in Clients : PlaceInv(d)
    BY Zenon DEF FundsInv
  <1>1. /\ \A d \in Clients : lock[d] = "none"
        /\ settlement' = [x \in Captures |-> IF x \in items THEN Unsettled(x) ELSE settlement[x]]
        /\ ledger' = Posted(e)
        /\ capture' = capture /\ refund' = refund /\ payout' = payout /\ held' = held
        /\ reserved' = reserved /\ version' = version /\ paid' = paid
        /\ lock' = lock /\ payoutLock' = payoutLock /\ advisory' = advisory
        /\ pc' = pc /\ job' = job /\ seen' = seen /\ writes' = writes /\ rejected' = rejected
    BY Zenon DEF RunSettlement, lockVars, txVars
  <1>2. \A x \in items : /\ x \in Captures /\ capture[x] # None /\ settlement[x] = None
                         /\ Unsettled(x) \in Nat /\ Unsettled(x) > 0 /\ Left(x) = Unsettled(x)
    <2> SUFFICES ASSUME NEW x \in items
                 PROVE  /\ x \in Captures /\ capture[x] # None /\ settlement[x] = None
                        /\ Unsettled(x) \in Nat /\ Unsettled(x) > 0 /\ Left(x) = Unsettled(x)
      BY Zenon
    <2>1. x \in Captures /\ capture[x] # None /\ settlement[x] = None /\ Unsettled(x) > 0
      BY Zenon
    <2>2. PendingRefunds(x) \in Nat /\ Settled(x) = 0 /\ capture[x].net \in Nat
      BY Zenon, <1>0, <2>1, SumTypes DEF Settled, TypeOK, CaptureRow
    <2> QED BY <2>1, <2>2 DEF Unsettled, Left
  <1>3. items \subseteq Captures
    BY Zenon
  <1> HIDE DEF items
  <1>4. \A x \in Captures : h[x] \in Nat
    BY Zenon, <1>2
  <1>5. \A x \in Captures : /\ Left(x)' \in Int /\ Left(x) = Left(x)' + h[x]
                            /\ PendingRefunds(x)' = PendingRefunds(x)
                            /\ Settled(x)' = IF x \in items THEN Unsettled(x) ELSE Settled(x)
    <2> SUFFICES ASSUME NEW x \in Captures
                 PROVE  /\ Left(x)' \in Int /\ Left(x) = Left(x)' + h[x]
                        /\ PendingRefunds(x)' = PendingRefunds(x)
                        /\ Settled(x)' = IF x \in items THEN Unsettled(x) ELSE Settled(x)
      BY Zenon
    <2>1. PendingRefunds(x)' = PendingRefunds(x)
      BY Zenon, <1>1 DEF PendingRefunds, RefundOf
    <2>2. PendingRefunds(x) \in Nat /\ Left(x) \in Int
      BY Zenon, <1>0, SumTypes
    <2>3. CASE x \in items
      <3>1. Unsettled(x) \in Nat /\ Unsettled(x) = capture[x].net - PendingRefunds(x)
            /\ capture[x].net \in Nat /\ Left(x) = Unsettled(x) /\ capture[x] # None
        BY Zenon, <1>0, <1>2, <2>3 DEF Unsettled, TypeOK, CaptureRow
      <3>2. settlement'[x] = Unsettled(x)
        BY Zenon, <1>1, <2>3
      <3>3. Settled(x)' = Unsettled(x)
        BY Zenon, <3>1, <3>2 DEF Settled
      <3>4. Left(x)' = 0
        BY <1>1, <2>1, <2>2, <3>1, <3>3 DEF Left
      <3> QED BY <2>1, <2>3, <3>1, <3>3, <3>4
    <2>4. CASE x \notin items
      <3>1. settlement'[x] = settlement[x]
        BY Zenon, <1>1, <2>4
      <3>2. Settled(x)' = Settled(x) /\ Left(x)' = Left(x)
        BY Zenon, <1>1, <2>1, <3>1 DEF Settled, Left
      <3> QED BY <2>1, <2>2, <2>4, <3>2
    <2> QED BY Zenon, <2>3, <2>4
  <1>6. total = SumFunctionOnSet(h, Captures)
    BY Zenon DEF SumFunction
  <1> HIDE DEF h
  <1>7. total \in Nat
    <2>1. IsFiniteSet(Captures)
      BY Zenon
    <2>2. SumFunctionOnSet(h, Captures) \in Nat
      BY ONLY Zenon, <1>4, <2>1, SumNat
    <2> QED BY Zenon, <1>6, <2>2
  <1> HIDE DEF total
  <1>8. /\ Owed("receivable") \in Nat /\ Owed("available") \in Int /\ reserved \in Nat
        /\ reserved <= Owed("available")
    BY <1>0, OwedInt DEF PendingBacked, ReservationsCovered, TypeOK, Accounts
  <1>9. /\ offset \in Nat /\ offset <= total /\ offset <= Owed("receivable")
    BY <1>7, <1>8 DEF Smaller, Larger
  <1> HIDE DEF offset
  <1>10. /\ e \in [Accounts -> Int] /\ e["pending"] = -total /\ e["available"] = total - offset
         /\ e["clearing"] = 0 /\ e["receivable"] = offset
    <2>1. /\ NoEntries \in [Accounts -> Int] /\ \A a \in Accounts : NoEntries[a] = 0
      BY DEF NoEntries
    <2> QED BY <1>7, <1>9, <2>1 DEF Accounts
  <1> HIDE DEF e
  <1>11. /\ ledger' \in [Accounts -> Int]
         /\ Owed("pending")' = Owed("pending") - total
         /\ Owed("available")' = Owed("available") + total - offset
         /\ Owed("clearing")' = Owed("clearing")
         /\ Owed("receivable")' = Owed("receivable") - offset
         /\ Owed("pending") \in Int /\ Owed("clearing") \in Int
    BY <1>0, <1>1, <1>7, <1>9, <1>10, PostedOwed
  <1>12. TypeOK'
    <2>1. settlement' \in [Captures -> Nat \cup {None}]
      BY Zenon, <1>0, <1>1, <1>2 DEF TypeOK
    <2> QED BY Zenon, <1>0, <1>1, <1>11, <2>1 DEF TypeOK
  <1>13. LocksExclude' /\ OneInsert' /\ RowsInv'
    <2>1. LocksExclude' /\ OneInsert'
      BY Zenon, <1>0, <1>1 DEF LocksExclude, OneInsert, Entered
    <2>2. \A x \in Captures : capture'[x] = None => settlement'[x] = None
      BY Zenon, <1>0, <1>1, <1>2 DEF RowsInv
    <2> QED BY Zenon, <1>0, <1>1, <2>1, <2>2 DEF RowsInv
  <1>14. ReservationsCovered'
    BY <1>1, <1>7, <1>8, <1>9, <1>11 DEF ReservationsCovered
  <1>15. AdvisoryInv'
    <2>1. \A d \in Clients : pc[d] # "commit"
      BY Zenon, <1>0, <1>1 DEF PlaceInv
    <2>2. advisory = None
      BY Zenon, <1>0, <2>1 DEF AdvisoryInv, TypeOK
    <2> QED BY Zenon, <1>1, <2>1, <2>2 DEF AdvisoryInv
  <1>16. ASSUME NEW d \in Clients PROVE PlaceInv(d)'
    <2>1. PlaceInv(d) /\ lock[d] # "update"
      BY Zenon, <1>0, <1>1
    <2>2. /\ pc'[d] = pc[d] /\ job'[d] = job[d] /\ seen'[d] = seen[d] /\ writes'[d] = writes[d]
          /\ lock'[d] = lock[d]
          /\ \A q \in Payouts : payoutLock[q] = d => payoutLock'[q] = d /\ payout'[q] = payout[q]
          /\ payout'[job[d].target] = payout[job[d].target]
          /\ job[d].target \in paid' <=> job[d].target \in paid
      BY Zenon, <1>1
    <2> QED BY Zenon, <1>0, <2>1, <2>2, PlaceFrame
  <1>17. PayoutsAccounted'
    BY Zenon, <1>0, <1>1, <1>11 DEF PayoutsAccounted
  <1>18. MerchantIsOwed'
    <2> DEFINE f == [x \in Captures |-> IF capture[x] = None THEN 0 ELSE capture[x].net]
               k == [r \in Refunds |-> IF refund[r] = None THEN 0 ELSE refund[r].amount]
    <2>1. Owed("pending") + Owed("available") + Owed("clearing") - Owed("receivable")
            = SumFunction(f) - SumFunction(k)
      BY Zenon, <1>0 DEF MerchantIsOwed
    <2>2. Owed("pending")' + Owed("available")' + Owed("clearing")' - Owed("receivable")'
            = SumFunction(f) - SumFunction(k)
          => MerchantIsOwed'
      BY Zenon, <1>1 DEF MerchantIsOwed
    <2> HIDE DEF f, k
    <2>3. Owed("pending")' + Owed("available")' + Owed("clearing")' - Owed("receivable")'
          = Owed("pending") + Owed("available") + Owed("clearing") - Owed("receivable")
      BY ONLY <1>7, <1>8, <1>9, <1>11
    <2> QED BY Zenon, <2>1, <2>2, <2>3
  <1>19. PendingBacked'
    <2> DEFINE f == [x \in Captures |-> Left(x)]
               g == [x \in Captures |-> Left(x)']
    <2>1. \A x \in Captures : g[x] \in Int /\ h[x] \in Int /\ f[x] = g[x] + h[x]
      BY <1>4, <1>5
    <2>2. /\ SumFunction(f) = SumFunctionOnSet(f, Captures)
          /\ SumFunction(g) = SumFunctionOnSet(g, Captures)
      BY Zenon DEF SumFunction
    <2>3. IsFiniteSet(Captures)
      BY Zenon
    <2>4. \A x \in Captured' : Settled(x)' + PendingRefunds(x)' <= capture'[x].net
      <3> SUFFICES ASSUME NEW x \in Captures, capture[x] # None
                   PROVE  Settled(x)' + PendingRefunds(x)' <= capture[x].net
        BY Zenon, <1>1 DEF Captured
      <3>1. PendingRefunds(x) \in Nat /\ capture[x].net \in Nat
        BY Zenon, <1>0, SumTypes DEF TypeOK, CaptureRow
      <3>2. CASE x \in items
        BY <1>5, <3>1, <3>2 DEF Unsettled
      <3>3. CASE x \notin items
        BY Zenon, <1>0, <1>5, <3>3 DEF PendingBacked, Captured
      <3> QED BY Zenon, <3>2, <3>3
    <2>5. Owed("pending") = SumFunction(f)
      BY Zenon, <1>0 DEF PendingBacked
    <2>6. /\ Owed("receivable")' >= 0 /\ Owed("pending")' = SumFunction(g) => PendingBacked'
      BY Zenon, <2>4 DEF PendingBacked
    <2> HIDE DEF f, g
    <2>7. SumFunctionOnSet(f, Captures) = SumFunctionOnSet(g, Captures) + SumFunctionOnSet(h, Captures)
      BY ONLY <2>1, <2>3, SumPlus
    <2>8. SumFunctionOnSet(g, Captures) \in Int
      <3>1. \A x \in Captures : g[x] \in Int
        BY Zenon, <2>1
      <3> QED BY ONLY Zenon, <2>3, <3>1, SumInt
    <2>9. Owed("pending")' = SumFunction(g)
      BY ONLY <1>6, <1>7, <1>11, <2>2, <2>5, <2>7, <2>8
    <2>10. Owed("receivable")' >= 0
      BY <1>8, <1>9, <1>11
    <2> QED BY Zenon, <2>6, <2>9, <2>10
  <1> QED BY Zenon, <1>12, <1>13, <1>14, <1>15, <1>16, <1>17, <1>18, <1>19 DEF FundsInv

-----------------------------------------------------------------------------
(* A commit.                                                               *)

\* The types of what a session keeps.
SessionTypes ==
    /\ lock' \in [Clients -> LockModes]
    /\ payoutLock' \in [Payouts -> Clients \cup {None}]
    /\ advisory' \in Clients \cup {None}
    /\ pc' \in [Clients -> Places]
    /\ job' \in [Clients -> Jobs]
    /\ seen' \in [Clients -> [available : Int, version : Nat]]
    /\ writes' \in [Clients -> [entries : [Accounts -> Int], reserved : Int, pendingUse : Nat]]

\* What the end of a transaction, committed or not, does to the sessions.
LEMMA RollbackEffect ==
  ASSUME TypeOK, LocksExclude, OneInsert, NEW c \in Clients, Rollback(c)
  PROVE  /\ SessionTypes /\ Elsewhere(c) /\ LocksExclude' /\ OneInsert' /\ PlaceInv(c)'
         /\ pc'[c] = "idle"
         /\ advisory' = IF advisory = c THEN None ELSE advisory
  <1>1. /\ lock' \in [Clients -> LockModes]
        /\ lock'[c] = "none" /\ \A d \in Clients \ {c} : lock'[d] = lock[d]
        /\ payoutLock' \in [Payouts -> Clients \cup {None}]
        /\ \A p \in Payouts : payoutLock[p] \in Clients \ {c} => payoutLock'[p] = payoutLock[p]
        /\ advisory' = IF advisory = c THEN None ELSE advisory
        /\ advisory' \in Clients \cup {None}
    BY Zenon, ReleaseEffect DEF Rollback
  <1>2. /\ pc' = [pc EXCEPT ![c] = "idle"] /\ job' = [job EXCEPT ![c] = NoJob]
        /\ seen' = [seen EXCEPT ![c] = NoRead] /\ writes' = [writes EXCEPT ![c] = NoWrites]
    BY Zenon DEF Rollback, Goto, Forget
  <1>3. /\ pc' \in [Clients -> Places] /\ job' \in [Clients -> Jobs]
        /\ seen' \in [Clients -> [available : Int, version : Nat]]
        /\ writes' \in [Clients -> [entries : [Accounts -> Int], reserved : Int, pendingUse : Nat]]
    BY Zenon, <1>2, Blanks DEF TypeOK, Places
  <1>4. SessionTypes
    BY Zenon, <1>1, <1>3 DEF SessionTypes
  <1>5. Elsewhere(c)
    BY Zenon, <1>1, <1>2 DEF Elsewhere, TypeOK
  <1>6. pc'[c] = "idle" /\ job'[c] = NoJob
    BY Zenon, <1>2 DEF TypeOK
  <1>7. PlaceInv(c)'
    BY Zenon, <1>1, <1>6 DEF PlaceInv
  <1>8. OneInsert'
    BY Zenon, <1>5, <1>6, OneInsertStep DEF Elsewhere
  <1>9. LocksExclude'
    BY Zenon, <1>1, LocksStep
  <1> QED BY Zenon, <1>1, <1>4, <1>5, <1>6, <1>7, <1>8, <1>9

\* The rows of a commit that another session may rely on stay.
RowsOfOthersStay(c) ==
    /\ \A p \in Payouts : payout[p] # None /\ payoutLock[p] # c => payout'[p] = payout[p]
    /\ \A d \in Clients \ {c} : Entered(d) => payout'[job[d].target] = payout[job[d].target]

\* What is left to show of a commit.
Committed ==
    /\ RowsInv' /\ PayoutsAccounted' /\ MerchantIsOwed' /\ PendingBacked'
    /\ refund' \in [Refunds -> RefundRow \cup {None}]
    /\ payout' \in [Payouts -> PayoutRow \cup {None}]
    /\ held' \in [Payouts -> Nat]
    /\ reserved' \in Nat /\ version' \in Nat

\* A commit keeps the invariant if the rows it writes keep the accounts right.
LEMMA CommitFrame ==
  ASSUME FundsInv, NEW c \in Clients, Commit(c), RowsOfOthersStay(c)
  PROVE  Committed => FundsInv'
  <1> USE ConstantsAssumption
  <1> SUFFICES ASSUME Committed PROVE FundsInv'
    BY Zenon
  <1>0. /\ TypeOK /\ LocksExclude /\ AdvisoryInv /\ OneInsert /\ ReservationsCovered
        /\ \A d \in Clients : PlaceInv(d)
    BY Zenon DEF FundsInv
  <1>1. /\ pc[c] = "commit" /\ ledger' = Posted(writes[c].entries)
        /\ reserved' = reserved + writes[c].reserved
        /\ Rollback(c) /\ capture' = capture /\ settlement' = settlement /\ paid' = paid
    BY Zenon DEF Commit, Rollback
  <1>2. /\ SessionTypes /\ Elsewhere(c) /\ LocksExclude' /\ OneInsert' /\ PlaceInv(c)'
        /\ pc'[c] = "idle"
        /\ advisory' = IF advisory = c THEN None ELSE advisory
    BY Zenon, <1>0, <1>1, RollbackEffect
  <1>3. writes[c].entries \in [Accounts -> Int] /\ writes[c].reserved \in Int
    BY Zenon, <1>0 DEF TypeOK
  <1>4. /\ ledger' \in [Accounts -> Int]
        /\ Owed("available")' = Owed("available") + writes[c].entries["available"]
        /\ Owed("available") \in Int /\ writes[c].entries["available"] \in Int
    <2> HIDE DEF Commit
    <2>1. TypeOK /\ ledger' = Posted(writes[c].entries)
      BY Zenon, <1>0, <1>1
    <2> QED BY ONLY Zenon, <2>1, <1>3, PostedOwed
  <1>5. TypeOK'
    BY Zenon, <1>0, <1>1, <1>2, <1>4 DEF TypeOK, SessionTypes, Committed
  <1>6. \/ advisory = c /\ Covered(c)
        \/ advisory # c /\ writes[c].reserved = 0 /\ writes[c].entries["available"] = 0
    BY Zenon, <1>0, <1>1 DEF AdvisoryInv
  <1>7. ReservationsCovered'
    <2>1. reserved \in Nat /\ reserved' \in Nat /\ reserved <= Owed("available")
      BY Zenon, <1>0 DEF TypeOK, ReservationsCovered, Committed
    <2>2. CASE Covered(c)
      BY <1>1, <1>3, <1>4, <2>1, <2>2 DEF Covered, ReservationsCovered
    <2>3. CASE writes[c].reserved = 0 /\ writes[c].entries["available"] = 0
      BY <1>1, <1>4, <2>1, <2>3 DEF ReservationsCovered
    <2> QED BY Zenon, <1>6, <2>2, <2>3
  <1>8. AdvisoryInv'
    <2>1. \A d \in Clients \ {c} : pc'[d] = pc[d] /\ writes'[d] = writes[d]
      BY Zenon, <1>2 DEF Elsewhere
    <2>2. CASE advisory = c
      BY Zenon, <1>0, <1>2, <2>1, <2>2 DEF AdvisoryInv
    <2>3. CASE advisory # c
      <3>1. reserved' = reserved /\ Owed("available")' = Owed("available") /\ advisory' = advisory
        BY <1>0, <1>1, <1>2, <1>4, <1>6, <2>3 DEF TypeOK
      <3>2. \A d \in Clients : pc'[d] = "commit" => d # c /\ pc[d] = "commit" /\ writes'[d] = writes[d]
        BY Zenon, <1>2, <2>1
      <3>3. advisory # None => advisory \in Clients \ {c}
        BY Zenon, <1>0, <2>3 DEF TypeOK
      <3>4. advisory # None => pc'[advisory] = "commit" /\ Covered(advisory)'
        BY Zenon, <1>0, <2>1, <3>1, <3>3 DEF AdvisoryInv, Covered
      <3> QED BY Zenon, <1>0, <3>1, <3>2, <3>4 DEF AdvisoryInv
    <2> QED BY Zenon, <2>2, <2>3
  <1>9. ASSUME NEW d \in Clients \ {c} PROVE PlaceInv(d)'
    <2>1. PlaceInv(d) /\ lock[d] # "update"
      BY Zenon, <1>0, <1>1 DEF PlaceInv, LocksExclude
    <2>2. /\ pc'[d] = pc[d] /\ job'[d] = job[d] /\ seen'[d] = seen[d] /\ writes'[d] = writes[d]
          /\ lock'[d] = lock[d]
      BY Zenon, <1>2 DEF Elsewhere
    <2>3. \A p \in Payouts : payoutLock[p] = d /\ payout[p] # None
                             => payoutLock'[p] = d /\ payout'[p] = payout[p]
      BY Zenon, <1>2 DEF Elsewhere, RowsOfOthersStay
    <2>4. /\ job[d].kind = "observe" => (job[d].target \in paid' <=> job[d].target \in paid)
          /\ Entered(d) => payout'[job[d].target] = payout[job[d].target]
      BY Zenon, <1>1 DEF RowsOfOthersStay
    <2> QED BY Zenon, <1>0, <2>1, <2>2, <2>3, <2>4, PlaceFrame
  <1> QED BY Zenon, <1>2, <1>5, <1>7, <1>8, <1>9 DEF FundsInv, Committed

-----------------------------------------------------------------------------
(* Commits that change a payout.                                           *)

\* One payout row and its reservation change together.
LEMMA PayoutRowStep ==
  ASSUME TypeOK, RowsInv, PayoutsAccounted, NEW t \in Payouts,
         payout' \in [Payouts -> PayoutRow \cup {None}], payout'[t] # None,
         \A p \in Payouts \ {t} : payout'[p] = payout[p],
         held' \in [Payouts -> Nat],
         \A p \in Payouts \ {t} : held'[p] = held[p],
         held'[t] = IF payout'[t].status = "OPEN" THEN payout'[t].amount ELSE 0,
         reserved' = reserved + held'[t] - held[t], paid' = paid,
         Owed("clearing")' = Owed("clearing")
                             + (IF payout'[t].status = "SUCCEEDED" THEN payout'[t].amount ELSE 0),
         Owed("clearing") \in Int,
         payout[t] # None => payout[t].status # "SUCCEEDED",
         payout'[t].status = "SUCCEEDED" => t \in paid,
         payout'[t].status = "FAILED" => t \notin paid
  PROVE  /\ PayoutsAccounted' /\ reserved' \in Nat
         /\ \A p \in Payouts : payout'[p] = None => held'[p] = 0 /\ p \notin paid'
         /\ \A p \in Payouts : payout'[p] # None =>
               /\ p \in paid' => payout'[p].status # "FAILED"
               /\ payout'[p].status = "SUCCEEDED" => p \in paid'
  <1> USE ConstantsAssumption
  <1> DEFINE f == [p \in Payouts |-> held[p]]
             g == [p \in Payouts |-> held'[p]]
             u == [p \in Payouts |-> IF p \in paid /\ payout[p].status = "SUCCEEDED"
                                     THEN payout[p].amount ELSE 0]
             v == [p \in Payouts |-> IF p \in paid /\ payout'[p].status = "SUCCEEDED"
                                     THEN payout'[p].amount ELSE 0]
  <1>0. IsFiniteSet(Payouts) /\ t \in Payouts
    BY Zenon
  <1>1. /\ SumFunction(f) = SumFunctionOnSet(f, Payouts) /\ SumFunction(g) = SumFunctionOnSet(g, Payouts)
        /\ SumFunction(u) = SumFunctionOnSet(u, Payouts) /\ SumFunction(v) = SumFunctionOnSet(v, Payouts)
    BY Zenon DEF SumFunction
  <1>2. \A p \in Payouts : g[p] \in Nat
    BY Zenon DEF TypeOK
  <1>3. \A p \in Payouts : g[p] \in Int /\ f[p] \in Int
    BY DEF TypeOK
  <1>4. \A p \in Payouts \ {t} : g[p] = f[p]
    BY Zenon
  <1>5. \A p \in Payouts : v[p] \in Int /\ u[p] \in Int
    <2>1. \A p \in Payouts : p \in paid => payout[p] # None /\ payout'[p] # None
      BY Zenon DEF RowsInv
    <2>2. \A p \in Payouts : /\ payout[p] # None => payout[p].amount \in Int
                             /\ payout'[p] # None => payout'[p].amount \in Int
      <3>1. payout \in [Payouts -> PayoutRow \cup {None}]
        BY Zenon DEF TypeOK
      <3>2. \A row \in PayoutRow : row.amount \in Int
        <4>1. Amounts \subseteq Int
          OBVIOUS
        <4> QED BY ONLY Zenon, <4>1 DEF PayoutRow
      <3>3. \A p \in Payouts : payout[p] # None => payout[p] \in PayoutRow
        BY Zenon, <3>1
      <3>4. \A p \in Payouts : payout'[p] # None => payout'[p] \in PayoutRow
        BY Zenon
      <3> QED BY Zenon, <3>2, <3>3, <3>4
    <2> QED BY <2>1, <2>2
  <1>6. \A p \in Payouts \ {t} : v[p] = u[p]
    BY Zenon
  <1>7. /\ g[t] = held'[t] /\ f[t] = held[t] /\ u[t] = 0
        /\ v[t] = IF payout'[t].status = "SUCCEEDED" THEN payout'[t].amount ELSE 0
    <2>1. t \in paid => payout[t].status # "SUCCEEDED"
      BY Zenon DEF RowsInv
    <2> QED BY Zenon, <2>1
  <1>8. reserved = SumFunction(f) /\ Owed("clearing") = SumFunction(u)
    BY Zenon DEF PayoutsAccounted
  <1>9. /\ \A p \in Payouts : payout'[p] # None =>
             held'[p] = IF payout'[p].status = "OPEN" THEN payout'[p].amount ELSE 0
    BY Zenon DEF PayoutsAccounted
  <1>10. reserved' = SumFunction(g) /\ Owed("clearing")' = SumFunction(v) => PayoutsAccounted'
    BY Zenon, <1>9 DEF PayoutsAccounted
  <1>11. /\ \A p \in Payouts : payout'[p] = None => held'[p] = 0 /\ p \notin paid'
         /\ \A p \in Payouts : payout'[p] # None =>
               /\ p \in paid' => payout'[p].status # "FAILED"
               /\ payout'[p].status = "SUCCEEDED" => p \in paid'
    BY Zenon DEF RowsInv
  <1> HIDE DEF f, g, u, v
  <1>12. SumFunctionOnSet(g, Payouts) = SumFunctionOnSet(f, Payouts) + g[t] - f[t]
    BY ONLY <1>0, <1>3, <1>4, SumChange
  <1>13. SumFunctionOnSet(v, Payouts) = SumFunctionOnSet(u, Payouts) + v[t] - u[t]
    BY ONLY <1>0, <1>5, <1>6, SumChange
  <1>14. SumFunctionOnSet(g, Payouts) \in Nat
    BY ONLY Zenon, <1>0, <1>2, SumNat
  <1>15. v[t] \in Int
    BY Zenon, <1>5
  <1>16. reserved' = SumFunction(g)
    BY Zenon, <1>1, <1>7, <1>8, <1>12
  <1>17. Owed("clearing")' = SumFunction(v)
    BY <1>1, <1>7, <1>8, <1>13, <1>15
  <1> QED BY Zenon, <1>1, <1>10, <1>11, <1>14, <1>16, <1>17

\* A commit that touches no capture, refund, pending or receivable.
LEMMA PayoutMoney ==
  ASSUME TypeOK, MerchantIsOwed, PendingBacked, UNCHANGED <<capture, settlement, refund>>,
         Owed("pending")' = Owed("pending"), Owed("receivable")' = Owed("receivable"),
         Owed("available")' + Owed("clearing")' = Owed("available") + Owed("clearing"),
         Owed("available")' \in Int, Owed("clearing")' \in Int
  PROVE  MerchantIsOwed' /\ PendingBacked'
  <1>1. /\ Owed("pending") \in Int /\ Owed("available") \in Int /\ Owed("clearing") \in Int
        /\ Owed("receivable") \in Int
    BY Zenon, OwedInt DEF Accounts
  <1>2. MerchantIsOwed'
    <2> DEFINE f == [x \in Captures |-> IF capture[x] = None THEN 0 ELSE capture[x].net]
               k == [r \in Refunds |-> IF refund[r] = None THEN 0 ELSE refund[r].amount]
    <2>1. Owed("pending") + Owed("available") + Owed("clearing") - Owed("receivable")
            = SumFunction(f) - SumFunction(k)
      BY Zenon DEF MerchantIsOwed
    <2>2. Owed("pending")' + Owed("available")' + Owed("clearing")' - Owed("receivable")'
            = SumFunction(f) - SumFunction(k)
          => MerchantIsOwed'
      BY Zenon DEF MerchantIsOwed
    <2> HIDE DEF f, k
    <2>3. Owed("pending")' + Owed("available")' + Owed("clearing")' - Owed("receivable")'
          = Owed("pending") + Owed("available") + Owed("clearing") - Owed("receivable")
      BY <1>1
    <2> QED BY Zenon, <2>1, <2>2, <2>3
  <1>3. PendingBacked'
    BY Zenon DEF PendingBacked, Left, PendingRefunds, RefundOf, Settled, Captured
  <1> QED BY Zenon, <1>2, <1>3

\* What every commit starts from.
LEMMA CommitFacts ==
  ASSUME FundsInv, NEW c \in Clients, Commit(c)
  PROVE  /\ TypeOK /\ RowsInv /\ PayoutsAccounted /\ MerchantIsOwed /\ PendingBacked
         /\ PlaceInv(c) /\ pc[c] = "commit"
         /\ reserved' = reserved + writes[c].reserved
         /\ capture' = capture /\ settlement' = settlement /\ paid' = paid /\ rejected' = rejected
         /\ ledger' \in [Accounts -> Int]
         /\ Owed("pending")' = Owed("pending") + writes[c].entries["pending"]
         /\ Owed("available")' = Owed("available") + writes[c].entries["available"]
         /\ Owed("clearing")' = Owed("clearing") + writes[c].entries["clearing"]
         /\ Owed("receivable")' = Owed("receivable") - writes[c].entries["receivable"]
         /\ Owed("pending") \in Int /\ Owed("available") \in Int /\ Owed("clearing") \in Int
         /\ Owed("receivable") \in Int
         /\ writes[c].entries["pending"] \in Int /\ writes[c].entries["available"] \in Int
         /\ writes[c].entries["clearing"] \in Int /\ writes[c].entries["receivable"] \in Int
  <1>1. TypeOK /\ writes[c].entries \in [Accounts -> Int] /\ ledger' = Posted(writes[c].entries)
    BY Zenon DEF FundsInv, TypeOK, Commit
  <1>2. /\ ledger' \in [Accounts -> Int]
        /\ Owed("pending")' = Owed("pending") + writes[c].entries["pending"]
        /\ Owed("available")' = Owed("available") + writes[c].entries["available"]
        /\ Owed("clearing")' = Owed("clearing") + writes[c].entries["clearing"]
        /\ Owed("receivable")' = Owed("receivable") - writes[c].entries["receivable"]
        /\ Owed("pending") \in Int /\ Owed("available") \in Int /\ Owed("clearing") \in Int
        /\ Owed("receivable") \in Int
        /\ writes[c].entries["pending"] \in Int /\ writes[c].entries["available"] \in Int
        /\ writes[c].entries["clearing"] \in Int /\ writes[c].entries["receivable"] \in Int
    BY ONLY Zenon, <1>1, PostedOwed
  <1> QED BY Zenon, <1>2 DEF FundsInv, Commit

\* The reservation of a payout created or retried posts nothing.
LEMMA NothingPosted ==
  ASSUME NEW c \in Clients, writes[c] = [NoWrites EXCEPT !.reserved = job[c].amount]
  PROVE  /\ writes[c].reserved = job[c].amount
         /\ writes[c].entries["pending"] = 0 /\ writes[c].entries["available"] = 0
         /\ writes[c].entries["clearing"] = 0 /\ writes[c].entries["receivable"] = 0
  <1>1. writes[c].reserved = job[c].amount /\ writes[c].entries = NoEntries
    BY Zenon DEF NoWrites
  <1> QED BY Zenon, <1>1 DEF NoEntries, Accounts

\* A commit that changes one payout row and its reservation.
LEMMA PayoutCommit ==
  ASSUME FundsInv, NEW c \in Clients, Commit(c), NEW t \in Payouts,
         payout' \in [Payouts -> PayoutRow \cup {None}], payout'[t] # None,
         \A p \in Payouts \ {t} : payout'[p] = payout[p],
         held' \in [Payouts -> Nat],
         \A p \in Payouts \ {t} : held'[p] = held[p],
         held'[t] = held[t] + writes[c].reserved,
         held'[t] = IF payout'[t].status = "OPEN" THEN payout'[t].amount ELSE 0,
         refund' = refund, version' \in Nat,
         writes[c].entries["clearing"]
           = IF payout'[t].status = "SUCCEEDED" THEN payout'[t].amount ELSE 0,
         writes[c].entries["available"] = -writes[c].entries["clearing"],
         writes[c].entries["pending"] = 0, writes[c].entries["receivable"] = 0,
         payout[t] # None => payout[t].status # "SUCCEEDED",
         payout'[t].status = "SUCCEEDED" => t \in paid,
         payout'[t].status = "FAILED" => t \notin paid
  PROVE  RowsOfOthersStay(c) => FundsInv'
  <1>1. /\ TypeOK /\ RowsInv /\ PayoutsAccounted /\ MerchantIsOwed /\ PendingBacked
        /\ reserved' = reserved + writes[c].reserved
        /\ capture' = capture /\ settlement' = settlement /\ paid' = paid /\ rejected' = rejected
        /\ Owed("pending")' = Owed("pending") + writes[c].entries["pending"]
        /\ Owed("available")' = Owed("available") + writes[c].entries["available"]
        /\ Owed("clearing")' = Owed("clearing") + writes[c].entries["clearing"]
        /\ Owed("receivable")' = Owed("receivable") - writes[c].entries["receivable"]
        /\ Owed("pending") \in Int /\ Owed("available") \in Int /\ Owed("clearing") \in Int
        /\ Owed("receivable") \in Int
        /\ writes[c].entries["clearing"] \in Int
    BY Zenon, CommitFacts
  <1>2. reserved' = reserved + held'[t] - held[t]
    <2>1. held[t] \in Int /\ reserved \in Int /\ writes[c].reserved \in Int
      BY <1>1 DEF TypeOK
    <2>2. reserved' = reserved + writes[c].reserved /\ held'[t] = held[t] + writes[c].reserved
      BY Zenon, <1>1
    <2> QED BY ONLY <2>1, <2>2
  <1>3. Owed("clearing")' = Owed("clearing")
                            + (IF payout'[t].status = "SUCCEEDED" THEN payout'[t].amount ELSE 0)
    BY Zenon, <1>1
  <1>4. /\ PayoutsAccounted' /\ reserved' \in Nat
        /\ \A p \in Payouts : payout'[p] = None => held'[p] = 0 /\ p \notin paid'
        /\ \A p \in Payouts : payout'[p] # None =>
              /\ p \in paid' => payout'[p].status # "FAILED"
              /\ payout'[p].status = "SUCCEEDED" => p \in paid'
    BY Zenon, <1>1, <1>2, <1>3, PayoutRowStep
  <1>5. MerchantIsOwed' /\ PendingBacked'
    <2>1. /\ Owed("pending")' = Owed("pending") /\ Owed("receivable")' = Owed("receivable")
          /\ Owed("available")' + Owed("clearing")' = Owed("available") + Owed("clearing")
          /\ Owed("available")' \in Int /\ Owed("clearing")' \in Int
      <3>1. /\ writes[c].entries["available"] = -writes[c].entries["clearing"]
            /\ writes[c].entries["pending"] = 0 /\ writes[c].entries["receivable"] = 0
        BY Zenon
      <3> QED BY ONLY <1>1, <3>1
    <2> QED BY Zenon, <1>1, <2>1, PayoutMoney
  <1>6. RowsInv'
    BY Zenon, <1>1, <1>4 DEF RowsInv
  <1>7. Committed
    BY Zenon, <1>1, <1>4, <1>5, <1>6 DEF Committed, TypeOK
  <1> QED BY Zenon, <1>7, CommitFrame

\* A payout creation commits: the payout is open and its amount held once.
LEMMA CommitCreate ==
  ASSUME FundsInv, NEW c \in Clients, Commit(c), CreateInHand(c), payout[job[c].target] = None,
         writes[c] = [NoWrites EXCEPT !.reserved = job[c].amount]
  PROVE  FundsInv'
  <1> USE ConstantsAssumption
  <1> DEFINE t == job[c].target
             row == [status |-> "OPEN", amount |-> job[c].amount]
  <1>1. /\ TypeOK /\ RowsInv /\ OneInsert /\ \A d \in Clients : PlaceInv(d)
        /\ pc[c] = "commit"
    BY Zenon DEF FundsInv, Commit
  <1>2. /\ t \in Payouts /\ job[c].kind = "create" /\ job[c].amount \in Amounts
        /\ job[c].amount \in Nat
    BY Zenon DEF CreateInHand, HasJob
  <1>3. /\ payout' = [payout EXCEPT ![t] = row]
        /\ held' = [held EXCEPT ![t] = @ + writes[c].reserved]
        /\ version' = IF job[c].guard = "VERSION" THEN version + 1 ELSE version
        /\ refund' = refund
    BY Zenon, <1>2 DEF Commit, CommitRows
  <1>4. row \in PayoutRow /\ row.status = "OPEN" /\ row.amount = job[c].amount
    BY Zenon, <1>2 DEF PayoutRow
  <1> HIDE DEF row
  <1>5. /\ payout' \in [Payouts -> PayoutRow \cup {None}] /\ payout'[t] = row /\ row # None
        /\ \A p \in Payouts \ {t} : payout'[p] = payout[p]
    BY Zenon, <1>1, <1>2, <1>3, <1>4 DEF TypeOK
  <1>6. /\ writes[c].reserved = job[c].amount
        /\ writes[c].entries["pending"] = 0 /\ writes[c].entries["available"] = 0
        /\ writes[c].entries["clearing"] = 0 /\ writes[c].entries["receivable"] = 0
    BY Zenon, NothingPosted
  <1>7. /\ held' \in [Payouts -> Nat] /\ held[t] = 0
        /\ held'[t] = held[t] + writes[c].reserved /\ held'[t] = job[c].amount
        /\ \A p \in Payouts \ {t} : held'[p] = held[p]
    BY <1>1, <1>2, <1>3, <1>6 DEF TypeOK, RowsInv
  <1>8. RowsOfOthersStay(c)
    <2>1. \A p \in Payouts : payout[p] # None => payout'[p] = payout[p]
      BY Zenon, <1>5
    <2>2. ASSUME NEW d \in Clients \ {c}, Entered(d)
          PROVE  payout'[job[d].target] = payout[job[d].target]
      <3>1. job[d].target # t
        BY Zenon, <1>1, <1>2, <2>2 DEF OneInsert, Entered
      <3>2. job[d].target \in Payouts
        BY Zenon, <1>1, <2>2 DEF PlaceInv, RefundInHand, CreateInHand, RetryInHand, ObserveInHand, HasJob, Entered
      <3> QED BY Zenon, <1>5, <3>1, <3>2
    <2> QED BY Zenon, <2>1, <2>2 DEF RowsOfOthersStay
  <1>9. version' \in Nat
    BY <1>1, <1>3 DEF TypeOK
  <1>10. payout'[t].status = "OPEN" /\ payout'[t].amount = job[c].amount
    BY Zenon, <1>4, <1>5
  <1>11. RowsOfOthersStay(c) => FundsInv'
    <2>1. /\ payout'[t] # None /\ payout[t] = None
          /\ held'[t] = IF payout'[t].status = "OPEN" THEN payout'[t].amount ELSE 0
          /\ writes[c].entries["clearing"]
               = IF payout'[t].status = "SUCCEEDED" THEN payout'[t].amount ELSE 0
          /\ writes[c].entries["available"] = -writes[c].entries["clearing"]
      BY <1>5, <1>6, <1>7, <1>10
    <2> QED BY Zenon, <1>2, <1>3, <1>5, <1>6, <1>7, <1>9, <1>10, <2>1, PayoutCommit
  <1> QED BY Zenon, <1>8, <1>11

\* A retry and a recorded bank result change the status of a payout they hold.
LEMMA CommitHeld ==
  ASSUME FundsInv, NEW c \in Clients, Commit(c), NEW status, HoldsPayout(c, status),
         job[c].kind \in {"retry", "observe"}, job[c].amount \in Amounts,
         job[c].kind = "observe" => job[c].end \in {"SUCCEEDED", "FAILED"}
  PROVE  /\ payout' \in [Payouts -> PayoutRow \cup {None}]
         /\ payout'[job[c].target] # None
         /\ payout'[job[c].target].amount = job[c].amount
         /\ payout'[job[c].target].status = IF job[c].kind = "retry" THEN "OPEN" ELSE job[c].end
         /\ \A p \in Payouts \ {job[c].target} : payout'[p] = payout[p] /\ held'[p] = held[p]
         /\ held' \in [Payouts -> Int]
         /\ held'[job[c].target] = held[job[c].target] + writes[c].reserved
         /\ held[job[c].target] = IF status = "OPEN" THEN job[c].amount ELSE 0
         /\ refund' = refund /\ version' \in Nat
         /\ RowsOfOthersStay(c)
  <1> USE ConstantsAssumption
  <1> DEFINE t == job[c].target
             new == IF job[c].kind = "retry" THEN "OPEN" ELSE job[c].end
             row == [status |-> new, amount |-> job[c].amount]
  <1>1. TypeOK /\ PayoutsAccounted /\ \A d \in Clients : PlaceInv(d)
    BY Zenon DEF FundsInv
  <1>2. /\ t \in Payouts /\ payoutLock[t] = c /\ payout[t] # None /\ payout[t].status = status
        /\ payout[t].amount = job[c].amount
    BY Zenon DEF HoldsPayout
  <1>3. /\ payout' = [payout EXCEPT ![t].status = new]
        /\ held' = [held EXCEPT ![t] = @ + writes[c].reserved]
        /\ refund' = refund /\ version' = version
    BY Zenon DEF Commit, CommitRows
  <1>4. new \in {"OPEN", "SUCCEEDED", "FAILED"}
    BY Zenon
  <1> HIDE DEF new
  <1>5. /\ payout[t] \in PayoutRow
        /\ payout'[t] = [payout[t] EXCEPT !.status = new]
        /\ \A p \in Payouts \ {t} : payout'[p] = payout[p]
        /\ DOMAIN payout' = Payouts /\ payout' = [p \in Payouts |-> payout'[p]]
    BY Zenon, <1>1, <1>2, <1>3 DEF TypeOK
  <1>6. /\ payout'[t] \in PayoutRow /\ payout'[t].status = new
        /\ payout'[t].amount = job[c].amount
    BY Zenon, <1>2, <1>4, <1>5 DEF PayoutRow
  <1>7. payout'[t] # None /\ payout' \in [Payouts -> PayoutRow \cup {None}]
    <2>1. \A p \in Payouts : payout'[p] \in PayoutRow \cup {None}
      BY Zenon, <1>1, <1>5, <1>6 DEF TypeOK
    <2>2. payout'[t] # None
      BY Zenon, <1>6
    <2> QED BY Zenon, <1>5, <2>1, <2>2
  <1>8. /\ held' \in [Payouts -> Int] /\ held'[t] = held[t] + writes[c].reserved
        /\ \A p \in Payouts \ {t} : held'[p] = held[p]
    BY <1>1, <1>2, <1>3 DEF TypeOK
  <1>9. held[t] = IF status = "OPEN" THEN job[c].amount ELSE 0
    BY Zenon, <1>1, <1>2 DEF PayoutsAccounted
  <1>10. RowsOfOthersStay(c)
    <2>1. \A p \in Payouts : payoutLock[p] # c => payout'[p] = payout[p]
      BY Zenon, <1>2, <1>5
    <2>2. ASSUME NEW d \in Clients \ {c}, Entered(d)
          PROVE  payout'[job[d].target] = payout[job[d].target]
      <3>1. job[d].target \in Payouts /\ payout[job[d].target] = None
        BY Zenon, <1>1, <2>2 DEF PlaceInv, RefundInHand, CreateInHand, RetryInHand, ObserveInHand, HasJob, Entered
      <3> QED BY Zenon, <1>2, <1>5, <3>1
    <2> QED BY Zenon, <2>1, <2>2 DEF RowsOfOthersStay
  <1>11. version' \in Nat
    BY Zenon, <1>1, <1>3 DEF TypeOK
  <1> QED BY Zenon, <1>3, <1>5, <1>6, <1>7, <1>8, <1>9, <1>10, <1>11 DEF new

\* A retry commits: the payout is open again and its amount held again.
LEMMA CommitRetry ==
  ASSUME FundsInv, NEW c \in Clients, Commit(c), RetryInHand(c),
         writes[c] = [NoWrites EXCEPT !.reserved = job[c].amount]
  PROVE  FundsInv'
  <1> USE ConstantsAssumption
  <1> DEFINE t == job[c].target
  <1>1. /\ HoldsPayout(c, "FAILED") /\ job[c].kind = "retry" /\ job[c].amount \in Amounts
        /\ job[c].amount \in Nat /\ t \in Payouts /\ payout[t] # None /\ payout[t].status = "FAILED"
    BY Zenon DEF RetryInHand, HasJob, HoldsPayout
  <1>2. /\ payout' \in [Payouts -> PayoutRow \cup {None}] /\ payout'[t] # None
        /\ payout'[t].amount = job[c].amount /\ payout'[t].status = "OPEN"
        /\ \A p \in Payouts \ {t} : payout'[p] = payout[p] /\ held'[p] = held[p]
        /\ held' \in [Payouts -> Int]
        /\ held'[t] = held[t] + writes[c].reserved /\ held[t] = 0
        /\ refund' = refund /\ version' \in Nat /\ RowsOfOthersStay(c)
    BY ZenonT(30), <1>1, CommitHeld
  <1>3. /\ writes[c].reserved = job[c].amount
        /\ writes[c].entries["pending"] = 0 /\ writes[c].entries["available"] = 0
        /\ writes[c].entries["clearing"] = 0 /\ writes[c].entries["receivable"] = 0
    BY Zenon, NothingPosted
  <1>4. held'[t] = job[c].amount /\ held' \in [Payouts -> Nat]
    <2>1. held'[t] = job[c].amount
      BY <1>1, <1>2, <1>3
    <2>2. held \in [Payouts -> Nat]
      BY Zenon DEF FundsInv, TypeOK
    <2>3. \A p \in Payouts : held'[p] \in Nat
      BY Zenon, <1>1, <1>2, <2>1, <2>2
    <2> QED BY Zenon, <1>2, <2>1, <2>3
  <1>5. RowsOfOthersStay(c) => FundsInv'
    <2>1. /\ held'[t] = IF payout'[t].status = "OPEN" THEN payout'[t].amount ELSE 0
          /\ writes[c].entries["clearing"]
               = IF payout'[t].status = "SUCCEEDED" THEN payout'[t].amount ELSE 0
          /\ writes[c].entries["available"] = -writes[c].entries["clearing"]
      BY <1>2, <1>3, <1>4
    <2>2. /\ \A p \in Payouts \ {t} : payout'[p] = payout[p]
          /\ \A p \in Payouts \ {t} : held'[p] = held[p]
      BY Zenon, <1>2
    <2>3. payout' \in [Payouts -> PayoutRow \cup {None}] /\ payout'[t] # None /\ payout'[t].status = "OPEN"
          /\ refund' = refund /\ version' \in Nat /\ held'[t] = held[t] + writes[c].reserved
      BY Zenon, <1>2
    <2> QED BY Zenon, <1>1, <1>3, <1>4, <2>1, <2>2, <2>3, PayoutCommit
  <1> QED BY Zenon, <1>2, <1>5

\* A bank result commits: the payout ends, and clearing holds what the bank paid.
LEMMA CommitObserve ==
  ASSUME FundsInv, NEW c \in Clients, Commit(c), ObserveInHand(c), ObserveWrites(c)
  PROVE  FundsInv'
  <1> USE ConstantsAssumption
  <1> DEFINE t == job[c].target
             end == job[c].end
  <1>1. /\ HoldsPayout(c, "OPEN") /\ job[c].kind = "observe" /\ job[c].amount \in Amounts
        /\ job[c].amount \in Nat /\ t \in Payouts /\ payout[t] # None /\ payout[t].status = "OPEN"
        /\ end = IF t \in paid THEN "SUCCEEDED" ELSE "FAILED"
    BY Zenon DEF ObserveInHand, HasJob, HoldsPayout
  <1>2. /\ payout' \in [Payouts -> PayoutRow \cup {None}] /\ payout'[t] # None
        /\ payout'[t].amount = job[c].amount /\ payout'[t].status = end
        /\ \A p \in Payouts \ {t} : payout'[p] = payout[p] /\ held'[p] = held[p]
        /\ held' \in [Payouts -> Int]
        /\ held'[t] = held[t] + writes[c].reserved /\ held[t] = job[c].amount
        /\ refund' = refund /\ version' \in Nat /\ RowsOfOthersStay(c)
    <2>1. end \in {"SUCCEEDED", "FAILED"}
      BY Zenon, <1>1
    <2> QED BY Zenon, <1>1, <2>1, CommitHeld
  <1>3. /\ writes[c].reserved = -job[c].amount
        /\ writes[c].entries["pending"] = 0 /\ writes[c].entries["receivable"] = 0
        /\ writes[c].entries["clearing"] = IF end = "SUCCEEDED" THEN job[c].amount ELSE 0
        /\ writes[c].entries["available"] = -writes[c].entries["clearing"]
    BY Zenon DEF ObserveWrites
  <1>4. held'[t] = 0 /\ held' \in [Payouts -> Nat]
    <2>1. held'[t] = 0
      <3>1. job[c].amount \in Nat /\ held'[t] = job[c].amount + (-job[c].amount)
        BY Zenon, <1>1, <1>2, <1>3
      <3> QED BY ONLY <3>1
    <2>2. held \in [Payouts -> Nat]
      BY Zenon DEF FundsInv, TypeOK
    <2>3. \A p \in Payouts : held'[p] \in Nat
      <3>1. \A p \in Payouts \ {t} : held'[p] = held[p]
        BY Zenon, <1>2
      <3> HIDE DEF t
      <3> QED BY ONLY <2>1, <2>2, <3>1
    <2> QED BY Zenon, <1>2, <2>1, <2>3
  <1>5. /\ payout'[t].status = "SUCCEEDED" => t \in paid
        /\ payout'[t].status = "FAILED" => t \notin paid
        /\ payout'[t].status # "OPEN"
    BY Zenon, <1>1, <1>2
  <1>6. RowsOfOthersStay(c) => FundsInv'
    <2>1. /\ held'[t] = IF payout'[t].status = "OPEN" THEN payout'[t].amount ELSE 0
          /\ writes[c].entries["clearing"]
               = IF payout'[t].status = "SUCCEEDED" THEN payout'[t].amount ELSE 0
      BY Zenon, <1>2, <1>3, <1>4, <1>5
    <2>2. /\ \A p \in Payouts \ {t} : payout'[p] = payout[p]
          /\ \A p \in Payouts \ {t} : held'[p] = held[p]
      BY Zenon, <1>2
    <2>3. payout' \in [Payouts -> PayoutRow \cup {None}] /\ payout'[t] # None
          /\ refund' = refund /\ version' \in Nat /\ held'[t] = held[t] + writes[c].reserved
          /\ payout[t].status # "SUCCEEDED"
      BY Zenon, <1>1, <1>2
    <2> QED BY Zenon, <1>1, <1>3, <1>4, <1>5, <2>1, <2>2, <2>3, PayoutCommit
  <1> QED BY Zenon, <1>2, <1>6

-----------------------------------------------------------------------------
(* Commits of refunds.                                                     *)

\* A refund row of a capture, and the pending payable and the balances it took.
LEMMA RefundRowStep ==
  ASSUME TypeOK, MerchantIsOwed, PendingBacked,
         NEW t \in Refunds, NEW cap \in Captures, NEW row \in RefundRow, row.capture = cap,
         refund[t] = None, refund' = [refund EXCEPT ![t] = row], capture[cap] # None,
         capture' = capture, settlement' = settlement, row.pendingUse <= Left(cap),
         Owed("pending")' = Owed("pending") - row.pendingUse, Owed("receivable")' >= 0,
         Owed("pending")' + Owed("available")' + Owed("clearing")' - Owed("receivable")'
           = Owed("pending") + Owed("available") + Owed("clearing") - Owed("receivable") - row.amount
  PROVE  MerchantIsOwed' /\ PendingBacked'
  <1> USE ConstantsAssumption
  <1>1. /\ refund' \in [Refunds -> RefundRow \cup {None}] /\ refund'[t] = row /\ row # None
        /\ \A r \in Refunds \ {t} : refund'[r] = refund[r]
    BY Zenon DEF TypeOK
  <1>2. \A x \in RefundRow : x.amount \in Int /\ x.pendingUse \in Nat
    <2>1. Amounts \subseteq Int
      OBVIOUS
    <2> QED BY ONLY Zenon, <2>1 DEF RefundRow
  <1>3. \A r \in Refunds : /\ refund[r] # None => refund[r] \in RefundRow
                           /\ refund'[r] # None => refund'[r] \in RefundRow
    BY Zenon, <1>1 DEF TypeOK
  <1>4. IsFiniteSet(Refunds) /\ t \in Refunds
    BY Zenon
  <1>5. IsFiniteSet(Captures) /\ cap \in Captures
    BY Zenon
  <1>6. /\ Owed("pending") \in Int /\ Owed("available") \in Int /\ Owed("clearing") \in Int
        /\ Owed("receivable") \in Int
    BY Zenon, OwedInt DEF Accounts
  <1>7. row.amount \in Int /\ row.pendingUse \in Nat
    BY Zenon, <1>2
  <1>8. MerchantIsOwed'
    <2> DEFINE h == [x \in Captures |-> IF capture[x] = None THEN 0 ELSE capture[x].net]
               f == [r \in Refunds |-> IF refund[r] = None THEN 0 ELSE refund[r].amount]
               g == [r \in Refunds |-> IF refund'[r] = None THEN 0 ELSE refund'[r].amount]
    <2>1. \A r \in Refunds : g[r] \in Int /\ f[r] \in Int
      BY <1>2, <1>3
    <2>2. \A r \in Refunds \ {t} : g[r] = f[r]
      BY Zenon, <1>1
    <2>3. f[t] = 0 /\ g[t] = row.amount
      BY Zenon, <1>1
    <2>4. /\ SumFunction(f) = SumFunctionOnSet(f, Refunds)
          /\ SumFunction(g) = SumFunctionOnSet(g, Refunds)
          /\ SumFunction(h) = SumFunctionOnSet(h, Captures)
      BY Zenon DEF SumFunction
    <2>5. Owed("pending") + Owed("available") + Owed("clearing") - Owed("receivable")
            = SumFunction(h) - SumFunction(f)
      BY Zenon DEF MerchantIsOwed
    <2>6. Owed("pending")' + Owed("available")' + Owed("clearing")' - Owed("receivable")'
            = SumFunction(h) - SumFunction(g)
          => MerchantIsOwed'
      BY Zenon DEF MerchantIsOwed
    <2>7. \A x \in Captures : h[x] \in Int
      <3>1. \A n \in Nat : n \in Int
        OBVIOUS
      <3>2. \A x \in CaptureRow : x.net \in Int
        BY ONLY Zenon, <3>1 DEF CaptureRow
      <3>3. \A x \in Captures : capture[x] # None => capture[x] \in CaptureRow
        BY Zenon DEF TypeOK
      <3> QED BY <3>2, <3>3
    <2> HIDE DEF f, g, h
    <2>8. SumFunctionOnSet(g, Refunds) = SumFunctionOnSet(f, Refunds) + g[t] - f[t]
      BY ONLY <1>4, <2>1, <2>2, SumChange
    <2>9. SumFunctionOnSet(f, Refunds) \in Int
      <3>1. \A r \in Refunds : f[r] \in Int
        BY Zenon, <2>1
      <3> QED BY ONLY Zenon, <1>4, <3>1, SumInt
    <2>10. SumFunctionOnSet(h, Captures) \in Int
      BY ONLY Zenon, <1>5, <2>7, SumInt
    <2>11. Owed("pending") + Owed("available") + Owed("clearing") - Owed("receivable") - row.amount
            = SumFunction(h) - SumFunction(g)
      BY ONLY <1>6, <1>7, <2>3, <2>4, <2>5, <2>8, <2>9, <2>10
    <2> QED BY Zenon, <2>6, <2>11
  <1>9. \A x \in Captures : Settled(x)' = Settled(x) /\ Settled(x) \in Nat /\ PendingRefunds(x) \in Nat
    <2>1. \A x \in Captures : Settled(x)' = Settled(x)
      BY Zenon DEF Settled
    <2> QED BY Zenon, <2>1, SumTypes
  <1>10. ASSUME NEW x \in Captures \ {cap} PROVE PendingRefunds(x)' = PendingRefunds(x)
    <2>1. \A r \in Refunds : /\ RefundOf(r, x)' <=> RefundOf(r, x)
                             /\ RefundOf(r, x) => refund'[r] = refund[r]
      BY Zenon, <1>1 DEF RefundOf
    <2>2. [r \in Refunds |-> IF RefundOf(r, x)' THEN refund'[r].pendingUse ELSE 0]
          = [r \in Refunds |-> IF RefundOf(r, x) THEN refund[r].pendingUse ELSE 0]
      BY <2>1
    <2> QED BY Zenon, <2>2 DEF PendingRefunds
  <1>11. PendingRefunds(cap)' = PendingRefunds(cap) + row.pendingUse
    <2> DEFINE f == [r \in Refunds |-> IF RefundOf(r, cap) THEN refund[r].pendingUse ELSE 0]
               g == [r \in Refunds |-> IF RefundOf(r, cap)' THEN refund'[r].pendingUse ELSE 0]
    <2>1. \A r \in Refunds : g[r] \in Int /\ f[r] \in Int
      BY <1>2, <1>3 DEF RefundOf
    <2>2. \A r \in Refunds \ {t} : g[r] = f[r]
      BY Zenon, <1>1 DEF RefundOf
    <2>3. f[t] = 0 /\ g[t] = row.pendingUse
      BY Zenon, <1>1 DEF RefundOf
    <2>4. /\ PendingRefunds(cap) = SumFunctionOnSet(f, Refunds)
          /\ PendingRefunds(cap)' = SumFunctionOnSet(g, Refunds)
      BY Zenon DEF PendingRefunds, SumFunction
    <2> HIDE DEF f, g
    <2>5. SumFunctionOnSet(g, Refunds) = SumFunctionOnSet(f, Refunds) + g[t] - f[t]
      BY ONLY <1>4, <2>1, <2>2, SumChange
    <2> QED BY <1>7, <1>9, <2>3, <2>4, <2>5
  <1>12. PendingBacked'
    <2> DEFINE f == [x \in Captures |-> Left(x)]
               g == [x \in Captures |-> Left(x)']
    <2>1. /\ capture[cap].net \in Nat /\ Settled(cap) + PendingRefunds(cap) <= capture[cap].net
          /\ Left(cap) = capture[cap].net - Settled(cap) - PendingRefunds(cap)
      BY Zenon DEF TypeOK, CaptureRow, PendingBacked, Captured, Left
    <2>2. Left(cap)' = Left(cap) - row.pendingUse /\ Left(cap)' \in Int
      <3>1. Left(cap)' = capture[cap].net - Settled(cap) - (PendingRefunds(cap) + row.pendingUse)
        BY Zenon, <1>9, <1>11 DEF Left
      <3> QED BY <1>7, <1>9, <2>1, <3>1
    <2>3. \A x \in Captures \ {cap} : Left(x)' = Left(x)
      BY Zenon, <1>9, <1>10 DEF Left
    <2>4. \A x \in Captures : Left(x) \in Int
      BY Zenon, SumTypes
    <2>5. \A x \in Captures : g[x] \in Int /\ f[x] \in Int
      BY Zenon, <2>2, <2>3, <2>4
    <2>6. \A x \in Captures \ {cap} : g[x] = f[x]
      BY Zenon, <2>3
    <2>7. g[cap] = f[cap] - row.pendingUse /\ f[cap] \in Int
      BY Zenon, <2>2, <2>4
    <2>8. /\ SumFunction(f) = SumFunctionOnSet(f, Captures)
          /\ SumFunction(g) = SumFunctionOnSet(g, Captures)
      BY Zenon DEF SumFunction
    <2>9. Owed("pending") = SumFunction(f)
      BY Zenon DEF PendingBacked
    <2>10. \A x \in Captured' : Settled(x)' + PendingRefunds(x)' <= capture'[x].net
      <3> SUFFICES ASSUME NEW x \in Captures, capture[x] # None
                   PROVE  Settled(x)' + PendingRefunds(x)' <= capture[x].net
        BY Zenon DEF Captured
      <3>1. CASE x = cap
        BY <1>7, <1>9, <1>11, <2>1, <3>1
      <3>2. CASE x # cap
        BY Zenon, <1>9, <1>10, <3>2 DEF PendingBacked, Captured
      <3> QED BY Zenon, <3>1, <3>2
    <2>11. Owed("pending")' = SumFunction(g) => PendingBacked'
      BY Zenon, <2>10 DEF PendingBacked
    <2> HIDE DEF f, g
    <2>12. SumFunctionOnSet(g, Captures) = SumFunctionOnSet(f, Captures) + g[cap] - f[cap]
      BY ONLY <1>5, <2>5, <2>6, SumChange
    <2>13. Owed("pending")' = SumFunction(g)
      BY <1>6, <1>7, <2>7, <2>8, <2>9, <2>12
    <2> QED BY Zenon, <2>11, <2>13
  <1> QED BY Zenon, <1>8, <1>12

\* A refund commits: its entries reach the ledger and its row the capture.
LEMMA CommitRefund ==
  ASSUME FundsInv, NEW c \in Clients, Commit(c), RefundInHand(c), RefundWrites(c)
  PROVE  FundsInv'
  <1> USE ConstantsAssumption
  <1> DEFINE w == writes[c]
             e == writes[c].entries
             new == [capture |-> job[c].capture, amount |-> job[c].amount, pendingUse |-> w.pendingUse]
  <1>1. /\ TypeOK /\ RowsInv /\ PayoutsAccounted /\ MerchantIsOwed /\ PendingBacked
        /\ reserved' = reserved + w.reserved
        /\ capture' = capture /\ settlement' = settlement /\ paid' = paid /\ rejected' = rejected
        /\ Owed("pending")' = Owed("pending") + e["pending"]
        /\ Owed("available")' = Owed("available") + e["available"]
        /\ Owed("clearing")' = Owed("clearing") + e["clearing"]
        /\ Owed("receivable")' = Owed("receivable") - e["receivable"]
        /\ Owed("pending") \in Int /\ Owed("available") \in Int /\ Owed("clearing") \in Int
        /\ Owed("receivable") \in Int
        /\ e["pending"] \in Int /\ e["available"] \in Int /\ e["receivable"] \in Int
    BY Zenon, CommitFacts
  <1>2. PICK t \in Refunds, cap \in Captures : t = job[c].target /\ cap = job[c].capture
    BY Zenon DEF RefundInHand
  <1>3. /\ refund[t] = None /\ capture[cap] # None
        /\ job[c].kind = "refund" /\ job[c].amount \in Amounts /\ job[c].amount \in Nat
    BY Zenon, <1>2 DEF RefundInHand, HasJob
  <1>4. /\ w.reserved = 0 /\ w.pendingUse <= Left(cap) /\ w.pendingUse \in Nat
        /\ e["pending"] = -w.pendingUse /\ e["receivable"] <= 0 /\ e["clearing"] = 0
        /\ e["pending"] + e["available"] + e["receivable"] = -job[c].amount
    BY Zenon, <1>1, <1>2 DEF RefundWrites, TypeOK
  <1>5. PICK row \in RefundRow : /\ row = new /\ row.capture = cap /\ row.amount = job[c].amount
                                 /\ row.pendingUse = w.pendingUse
    <2>1. /\ new \in RefundRow /\ new.capture = cap /\ new.amount = job[c].amount
          /\ new.pendingUse = w.pendingUse
      BY Zenon, <1>2, <1>3, <1>4 DEF RefundRow
    <2> HIDE DEF new, w
    <2> QED BY Zenon, <2>1
  <1>6. /\ refund' = [refund EXCEPT ![t] = row]
        /\ payout' = payout /\ held' = held /\ version' = version
    BY Zenon, <1>2, <1>3, <1>5 DEF Commit, CommitRows
  <1> HIDE DEF new, e, w
  <1>7. MerchantIsOwed' /\ PendingBacked'
    <2>1. /\ row.pendingUse <= Left(cap) /\ Owed("pending")' = Owed("pending") - row.pendingUse
      BY Zenon, <1>1, <1>4, <1>5
    <2>2. Owed("receivable")' >= 0
      BY <1>1, <1>4 DEF PendingBacked
    <2>3. Owed("pending")' + Owed("available")' + Owed("clearing")' - Owed("receivable")'
           = Owed("pending") + Owed("available") + Owed("clearing") - Owed("receivable") - row.amount
      <3>1. /\ Owed("available")' = Owed("available") + e["available"]
            /\ Owed("clearing")' = Owed("clearing")
            /\ Owed("receivable")' = Owed("receivable") - e["receivable"]
            /\ Owed("pending")' = Owed("pending") + e["pending"]
        BY <1>1, <1>4
      <3>2. e["pending"] + e["available"] + e["receivable"] = -row.amount /\ row.amount \in Nat
        BY Zenon, <1>3, <1>4, <1>5
      <3>3. /\ Owed("pending") \in Int /\ Owed("available") \in Int /\ Owed("clearing") \in Int
            /\ Owed("receivable") \in Int
            /\ e["pending"] \in Int /\ e["available"] \in Int /\ e["receivable"] \in Int
        BY Zenon, <1>1
      <3> QED BY ONLY <3>1, <3>2, <3>3
    <2> QED BY Zenon, <1>1, <1>3, <1>5, <1>6, <2>1, <2>2, <2>3, RefundRowStep
  <1>8. refund' \in [Refunds -> RefundRow \cup {None}]
    BY Zenon, <1>1, <1>6 DEF TypeOK
  <1>9. RowsInv'
    <2>1. \A r \in Refunds : refund'[r] # None => capture'[refund'[r].capture] # None
      <3>1. refund'[t] = row /\ \A r \in Refunds \ {t} : refund'[r] = refund[r]
        BY Zenon, <1>1, <1>6 DEF TypeOK
      <3> QED BY <1>1, <1>3, <1>5, <3>1 DEF RowsInv
    <2> QED BY Zenon, <1>1, <1>6, <2>1 DEF RowsInv
  <1>10. PayoutsAccounted' /\ reserved' \in Nat /\ version' \in Nat /\ held' \in [Payouts -> Nat]
         /\ payout' \in [Payouts -> PayoutRow \cup {None}]
    <2>1. reserved' = reserved /\ Owed("clearing")' = Owed("clearing")
      <3>1. /\ reserved' = reserved + 0 /\ Owed("clearing")' = Owed("clearing") + 0
            /\ Owed("clearing") \in Int
        BY Zenon, <1>1, <1>4
      <3>2. reserved \in Nat
        BY Zenon, <1>1 DEF TypeOK
      <3> QED BY ONLY <3>1, <3>2
    <2> QED BY Zenon, <1>1, <1>6, <2>1 DEF PayoutsAccounted, TypeOK
  <1>11. RowsOfOthersStay(c)
    BY Zenon, <1>6 DEF RowsOfOthersStay
  <1>12. Committed
    BY Zenon, <1>7, <1>8, <1>9, <1>10 DEF Committed
  <1> QED BY Zenon, <1>11, <1>12, CommitFrame

\* Whatever a session commits, the invariant stands.
LEMMA CommitStep ==
  ASSUME FundsInv, NEW c \in Clients, Commit(c)
  PROVE  FundsInv'
  <1>1. PlaceInv(c) /\ pc[c] = "commit"
    BY Zenon DEF FundsInv, Commit
  <1>2. \/ RefundInHand(c) /\ RefundWrites(c)
        \/ /\ CreateInHand(c) /\ payout[job[c].target] = None
           /\ writes[c] = [NoWrites EXCEPT !.reserved = job[c].amount]
        \/ RetryInHand(c) /\ writes[c] = [NoWrites EXCEPT !.reserved = job[c].amount]
        \/ ObserveInHand(c) /\ ObserveWrites(c)
    BY Zenon, <1>1 DEF PlaceInv
  <1> QED BY Zenon, <1>2, CommitRefund, CommitCreate, CommitRetry, CommitObserve

-----------------------------------------------------------------------------
(* The invariant and what follows from it.                                 *)

\* The sums of the first state are empty.
LEMMA FundsInit == Init => FundsInv
  <1> USE ConstantsAssumption
  <1> SUFFICES ASSUME Init PROVE FundsInv
    BY Zenon
  <1>1. TypeOK
    <2>1. ledger \in [Accounts -> Int] /\ NoJob \in Jobs
          /\ NoRead \in [available : Int, version : Nat]
          /\ NoWrites \in [entries : [Accounts -> Int], reserved : Int, pendingUse : Nat]
      BY Zenon, Blanks DEF Init
    <2> QED BY Zenon, <2>1 DEF Init, TypeOK, LockModes, Places
  <1>2. LocksExclude /\ AdvisoryInv /\ OneInsert /\ RowsInv
    BY Zenon DEF Init, LocksExclude, AdvisoryInv, OneInsert, Entered, RowsInv
  <1>3. \A c \in Clients : PlaceInv(c)
    BY Zenon DEF Init, PlaceInv
  <1>4. ASSUME NEW a \in Accounts PROVE Owed(a) = 0
    <2>1. ledger[a] = 0 /\ ledger[a] \in Int
      BY DEF Init, NoEntries
    <2>2. -ledger[a] = 0
      <3>1. \A i \in Int : -i = 0 - i
        OBVIOUS
      <3>2. -ledger[a] = 0 - ledger[a]
        BY Zenon, <2>1, <3>1
      <3>3. 0 - ledger[a] = 0
        BY <2>1
      <3> QED BY ONLY <3>2, <3>3, Zenon
    <2> QED BY Zenon, <2>1, <2>2 DEF Owed
  <1>5. /\ Owed("available") = 0 /\ Owed("pending") = 0 /\ Owed("clearing") = 0
        /\ Owed("receivable") = 0
    BY Zenon, <1>4 DEF Accounts
  <1>6. ReservationsCovered
    BY <1>5 DEF Init, ReservationsCovered
  <1>7. PayoutsAccounted
    <2> DEFINE f == [p \in Payouts |-> held[p]]
               u == [p \in Payouts |-> IF p \in paid /\ payout[p].status = "SUCCEEDED"
                                       THEN payout[p].amount ELSE 0]
    <2>1. (\A p \in Payouts : f[p] = 0) /\ (\A p \in Payouts : u[p] = 0)
      BY Zenon DEF Init
    <2>2. SumFunction(f) = SumFunctionOnSet(f, Payouts) /\ SumFunction(u) = SumFunctionOnSet(u, Payouts)
      BY Zenon DEF SumFunction
    <2>3. reserved = SumFunction(f) /\ Owed("clearing") = SumFunction(u) => PayoutsAccounted
      BY Zenon DEF Init, PayoutsAccounted
    <2>4. IsFiniteSet(Payouts) /\ reserved = 0
      BY Zenon DEF Init
    <2> HIDE DEF f, u
    <2>5. SumFunctionOnSet(f, Payouts) = 0
      BY ONLY Zenon, <2>1, <2>4, SumZero
    <2>6. SumFunctionOnSet(u, Payouts) = 0
      BY ONLY Zenon, <2>1, <2>4, SumZero
    <2> QED BY Zenon, <1>5, <2>2, <2>3, <2>4, <2>5, <2>6
  <1>8. MerchantIsOwed
    <2> DEFINE f == [x \in Captures |-> IF capture[x] = None THEN 0 ELSE capture[x].net]
               g == [r \in Refunds |-> IF refund[r] = None THEN 0 ELSE refund[r].amount]
    <2>1. (\A x \in Captures : f[x] = 0) /\ (\A r \in Refunds : g[r] = 0)
      BY Zenon DEF Init
    <2>2. SumFunction(f) = SumFunctionOnSet(f, Captures) /\ SumFunction(g) = SumFunctionOnSet(g, Refunds)
      BY Zenon DEF SumFunction
    <2>3. SumFunction(f) = 0 /\ SumFunction(g) = 0 => MerchantIsOwed
      BY <1>5 DEF MerchantIsOwed
    <2>4. IsFiniteSet(Captures) /\ IsFiniteSet(Refunds)
      BY Zenon
    <2> HIDE DEF f, g
    <2>5. SumFunctionOnSet(f, Captures) = 0
      BY ONLY Zenon, <2>1, <2>4, SumZero
    <2>6. SumFunctionOnSet(g, Refunds) = 0
      BY ONLY Zenon, <2>1, <2>4, SumZero
    <2> QED BY Zenon, <2>2, <2>3, <2>5, <2>6
  <1>9. PendingBacked
    <2> DEFINE f == [x \in Captures |-> Left(x)]
    <2>1. \A x \in Captures : f[x] = 0
      BY Zenon DEF Init, Left
    <2>2. SumFunction(f) = SumFunctionOnSet(f, Captures)
      BY Zenon DEF SumFunction
    <2>3. Captured = {}
      BY Zenon DEF Init, Captured
    <2>4. SumFunction(f) = 0 => PendingBacked
      BY <1>5, <2>3 DEF PendingBacked
    <2>5. IsFiniteSet(Captures)
      BY Zenon
    <2> HIDE DEF f
    <2>6. SumFunctionOnSet(f, Captures) = 0
      BY ONLY Zenon, <2>1, <2>5, SumZero
    <2> QED BY Zenon, <2>2, <2>4, <2>6
  <1> QED BY Zenon, <1>1, <1>2, <1>3, <1>6, <1>7, <1>8, <1>9 DEF FundsInv

\* Nothing moves: the invariant stays.
LEMMA FundsStutter == ASSUME FundsInv, UNCHANGED vars PROVE FundsInv'
  <1>1. /\ UNCHANGED moneyVars /\ paid' = paid /\ lock' = lock /\ payoutLock' = payoutLock
        /\ advisory' = advisory /\ pc' = pc /\ job' = job /\ seen' = seen /\ writes' = writes
        /\ rejected' = rejected
    BY Zenon DEF vars, lockVars, txVars
  <1>2. /\ TypeOK /\ LocksExclude /\ AdvisoryInv /\ OneInsert /\ RowsInv
        /\ ReservationsCovered /\ PayoutsAccounted /\ MerchantIsOwed /\ PendingBacked
        /\ \A d \in Clients : PlaceInv(d)
    BY Zenon DEF FundsInv
  <1>3. TypeOK'
    BY Zenon, <1>1, <1>2 DEF TypeOK, moneyVars
  <1>4. LocksExclude' /\ OneInsert' /\ RowsInv'
    BY Zenon, <1>1, <1>2 DEF LocksExclude, OneInsert, Entered, RowsInv, moneyVars
  <1>5. AdvisoryInv'
    BY Zenon, <1>1, <1>2 DEF AdvisoryInv, Covered, Owed, moneyVars
  <1>6. ASSUME NEW d \in Clients PROVE PlaceInv(d)'
    <2>1. /\ pc'[d] = pc[d] /\ job'[d] = job[d] /\ seen'[d] = seen[d] /\ writes'[d] = writes[d]
          /\ lock'[d] = lock[d]
          /\ UNCHANGED <<ledger, capture, settlement, refund, reserved>>
          /\ \A q \in Payouts : payoutLock[q] = d => payoutLock'[q] = d /\ payout'[q] = payout[q]
          /\ payout'[job[d].target] = payout[job[d].target]
          /\ job[d].target \in paid' <=> job[d].target \in paid
      BY Zenon, <1>1 DEF moneyVars
    <2> QED BY Zenon, <1>2, <2>1, PlaceFrame
  <1>7. ReservationsCovered' /\ MerchantIsOwed' /\ PendingBacked'
    BY Zenon, <1>1, <1>2, MoneyFrame
  <1>8. PayoutsAccounted'
    BY Zenon, <1>1, <1>2, PayoutsFrame
  <1> QED BY Zenon, <1>3, <1>4, <1>5, <1>6, <1>7, <1>8 DEF FundsInv

\* Every action keeps the invariant.
LEMMA FundsNext == FundsInv /\ [Next]_vars => FundsInv'
  <1> SUFFICES ASSUME FundsInv, [Next]_vars PROVE FundsInv'
    BY Zenon
  <1>1. ASSUME NEW cap \in Captures, NEW gross \in Amounts, NEW net \in 0..gross,
               PostCapture(cap, gross, net)
        PROVE  FundsInv'
    BY Zenon, <1>1, PostCaptureStep
  <1>2. ASSUME NEW skipped \in SUBSET Captures, RunSettlement(skipped) PROVE FundsInv'
    BY Zenon, <1>2, RunSettlementStep
  <1>3. ASSUME NEW c \in Clients, Proceed(c) \/ Abort(c) PROVE FundsInv'
    BY Zenon, <1>3, RefundSourcesStep, CreateLookupStep, CreateReadStep, RefusedStep,
       CreateAcceptStep, CreateIndexStep, CreateInsertStep, CreateAdvanceStep, RetryReadStep, RetryReserveStep, ObserveInsertStep, CheckCoverageStep, CommitStep
       DEF Proceed
  <1>4. ASSUME NEW c \in Clients, NEW r \in Refunds, NEW cap \in Captures, NEW amount \in Amounts,
               RefundLock(c, r, cap, amount)
        PROVE  FundsInv'
    BY Zenon, <1>4, RefundLockStep
  <1>5. ASSUME NEW c \in Clients, NEW p \in Payouts, NEW amount \in Amounts, NEW guard \in Guards,
               CreateBegin(c, p, amount, guard)
        PROVE  FundsInv'
    BY Zenon, <1>5, CreateBeginStep
  <1>6. ASSUME NEW c \in Clients, NEW p \in Payouts, RetryBegin(c, p) \/ ObserveBegin(c, p)
        PROVE  FundsInv'
    BY Zenon, <1>6, RetryBeginStep, ObserveBeginStep
  <1>7. ASSUME NEW p \in Payouts, BankPays(p) PROVE FundsInv'
    BY Zenon, <1>7, BankPaysStep
  <1>8. CASE UNCHANGED vars
    BY Zenon, <1>8, FundsStutter
  <1> QED BY Zenon, <1>1, <1>2, <1>3, <1>4, <1>5, <1>6, <1>7, <1>8 DEF Next

\* The inductive invariant holds whatever sessions, captures, refunds and payouts
\* there are, and however their transactions overlap.
THEOREM FundsInvariance == Spec => []FundsInv
  <1> QED BY FundsInit, FundsNext, PTL DEF Spec

\* Committed reservations never exceed the available balance, under any of the
\* three guards and any overlap (PayoutReserver, the coverage trigger).
THEOREM ReservationsCoveredTheorem == Spec => []ReservationsCovered
  <1>1. FundsInv => ReservationsCovered
    BY Zenon DEF FundsInv
  <1> QED BY <1>1, FundsInvariance, PTL

\* The coverage trigger never turns down a transaction that decided under the
\* merchant row lock, nor a bank result.
THEOREM LockHoldersNeverRefusedTheorem == Spec => []LockHoldersNeverRefused
  <1>1. FundsInv => LockHoldersNeverRefused
    BY Zenon DEF FundsInv, RowsInv, LockHoldersNeverRefused
  <1> QED BY <1>1, FundsInvariance, PTL

\* No money of the merchant appears or disappears, however refunds were split over
\* the sources and whatever overlapped.
THEOREM MerchantIsOwedTheorem == Spec => []MerchantIsOwed
  <1>1. FundsInv => MerchantIsOwed
    BY Zenon DEF FundsInv
  <1> QED BY <1>1, FundsInvariance, PTL

\* Pending payable is what unsettled captures have left: a settlement and a refund
\* of one capture never both take the same money.
THEOREM PendingBackedTheorem == Spec => []PendingBacked
  <1>1. FundsInv => PendingBacked
    BY Zenon DEF FundsInv
  <1> QED BY <1>1, FundsInvariance, PTL

\* Reservations are the amounts of open payouts, each held once, and payout clearing
\* holds what the bank paid.
THEOREM PayoutsAccountedTheorem == Spec => []PayoutsAccounted
  <1>1. FundsInv => PayoutsAccounted
    BY Zenon DEF FundsInv
  <1> QED BY <1>1, FundsInvariance, PTL
=============================================================================
