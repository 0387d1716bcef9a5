------------------------- MODULE MerchantFundsSteps -------------------------
(***************************************************************************)
(* Steps of MerchantFunds that keep FundsInv, for any sessions, captures,  *)
(* refunds, payouts and amounts: every step of a session but its commit,   *)
(* the bank, and the finalizer's capture journal.  The lemmas on sums come *)
(* first.                                                                  *)
(***************************************************************************)
EXTENDS MerchantFunds, FiniteSetTheorems, WellFoundedInduction, TLAPS

-----------------------------------------------------------------------------
(* Sums over finite sets, as in PaymentProofs.  They are proved again here *)
(* because its two instances would be in the context of every step below.  *)

\* The element the library takes out of a set next.
Pick(s) == CHOOSE x \in s : TRUE

\* h computes the sums of g over the subsets of S, one chosen element at a time.
Sums(g, S, h) ==
    h = [s \in SUBSET S |-> IF s = {} THEN 0 ELSE g[Pick(s)] + h[s \ {Pick(s)}]]

\* The library sums by a function on the subsets of S, chosen to satisfy Sums.
LEMMA SumUnfolds ==
  ASSUME NEW g, NEW S
  PROVE  SumFunctionOnSet(g, S) = (CHOOSE h : Sums(g, S, h))[S]
  BY Zenon DEF SumFunctionOnSet, FoldFunctionOnSet, MapThenFoldSet, Sums, Pick

\* Among subsets of a finite set there is a least one: what a proof by induction
\* over S takes a counterexample from.
LEMMA LeastSubset ==
  ASSUME NEW S, IsFiniteSet(S), NEW T, T \subseteq SUBSET S, T # {}
  PROVE  \E U \in T : \A W \in T : W \subseteq U => W = U
  <1>1. IsWellFoundedOn(StrictSubsetOrdering(S), SUBSET S)
    BY Zenon, FS_StrictSubsetOrderingWellFounded, FS_FiniteSubsetsOfFinite
  <1>2. PICK U \in T : \A W \in T : ~(<<W, U>> \in StrictSubsetOrdering(S))
    BY Zenon, <1>1, WFMin
  <1>3. ASSUME NEW W \in T, W \subseteq U, W # U PROVE FALSE
    <2>1. <<W, U>> \in (SUBSET S) \X (SUBSET S)
      BY Zenon
    <2>2. <<W, U>> \in StrictSubsetOrdering(S)
      BY Zenon, <2>1, <1>3 DEF StrictSubsetOrdering
    <2> QED BY Zenon, <1>2, <2>2
  <1> QED BY Zenon, <1>3

\* The sums over a subset are the sums over the whole, where both are defined.
LEMMA SumsAgree ==
  ASSUME NEW g, NEW S, IsFiniteSet(S), NEW T \in SUBSET S, NEW h, NEW k, Sums(g, S, h), Sums(g, T, k)
  PROVE  \A s \in SUBSET T : h[s] = k[s]
  <1> DEFINE Bad == {s \in SUBSET T : h[s] # k[s]}
  <1> SUFFICES ASSUME Bad # {} PROVE FALSE
    BY Zenon
  <1>1. PICK U \in Bad : \A W \in Bad : W \subseteq U => W = U
    <2>1. Bad \subseteq SUBSET S BY Zenon
    <2> HIDE DEF Bad
    <2> QED BY <2>1, LeastSubset
  <1>2. U \in SUBSET T /\ U \in SUBSET S
    BY Zenon
  <1>3. /\ h[U] = IF U = {} THEN 0 ELSE g[Pick(U)] + h[U \ {Pick(U)}]
        /\ k[U] = IF U = {} THEN 0 ELSE g[Pick(U)] + k[U \ {Pick(U)}]
    BY Zenon, <1>2 DEF Sums
  <1>4. U # {}
    BY Zenon, <1>3
  <1>5. Pick(U) \in U
    BY Zenon, <1>4 DEF Pick
  <1>6. U \ {Pick(U)} \notin Bad
    BY Zenon, <1>1, <1>5
  <1>7. h[U \ {Pick(U)}] = k[U \ {Pick(U)}]
    BY Zenon, <1>6, <1>2
  <1> QED BY Zenon, <1>3, <1>7

\* There is a function that computes the sums over the subsets of a finite set.
LEMMA SumsExist ==
  ASSUME NEW g, NEW S, IsFiniteSet(S)
  PROVE  \E h : Sums(g, S, h)
  <1> DEFINE Bad == {U \in SUBSET S : ~\E h : Sums(g, U, h)}
  <1> SUFFICES ASSUME Bad # {} PROVE FALSE
    BY Zenon
  <1>1. PICK U \in Bad : \A W \in Bad : W \subseteq U => W = U
    <2>1. Bad \subseteq SUBSET S BY Zenon
    <2> HIDE DEF Bad
    <2> QED BY <2>1, LeastSubset
  <1> DEFINE F(W) == CHOOSE k : Sums(g, W, k)
             h == [s \in SUBSET U |-> IF s = {} THEN 0 ELSE g[Pick(s)] + F(s \ {Pick(s)})[s \ {Pick(s)}]]
  <1>2. ASSUME NEW W \in SUBSET U, W # U PROVE Sums(g, W, F(W))
    <2>1. \E k : Sums(g, W, k)
      BY Zenon, <1>1, <1>2
    <2> QED BY Zenon, <2>1
  <1>3. ASSUME NEW W \in SUBSET U, W # U PROVE h[W] = F(W)[W]
    <2>1. F(W)[W] = IF W = {} THEN 0 ELSE g[Pick(W)] + F(W)[W \ {Pick(W)}]
      <3> HIDE DEF F
      <3> QED BY Zenon, <1>2, <1>3 DEF Sums
    <2>2. CASE W = {}
      BY Zenon, <2>1, <2>2
    <2>3. CASE W # {}
      <3> DEFINE X == W \ {Pick(W)}
      <3>1. Pick(W) \in W BY Zenon, <2>3 DEF Pick
      <3>2. X \in SUBSET W /\ X \in SUBSET U /\ X # U BY Zenon, <3>1
      <3>3. IsFiniteSet(W) BY Zenon, FS_Subset
      <3>4. Sums(g, W, F(W)) /\ Sums(g, X, F(X))
        BY Zenon, <1>2, <1>3, <3>2
      <3>5. F(W)[X] = F(X)[X]
        <4> HIDE DEF F, X
        <4> QED BY <3>2, <3>3, <3>4, SumsAgree
      <3>6. h[W] = g[Pick(W)] + F(X)[X]
        BY Zenon, <2>3
      <3> QED BY Zenon, <2>1, <2>3, <3>5, <3>6
    <2> QED BY Zenon, <2>2, <2>3
  <1>4. ASSUME NEW s \in SUBSET U, s # {}
        PROVE  F(s \ {Pick(s)})[s \ {Pick(s)}] = h[s \ {Pick(s)}]
    <2>1. Pick(s) \in s BY Zenon, <1>4 DEF Pick
    <2>2. s \ {Pick(s)} \in SUBSET U /\ s \ {Pick(s)} # U BY Zenon, <2>1
    <2> QED
      <3> HIDE DEF F, h
      <3> QED BY Zenon, <1>3, <2>2
  <1>5. Sums(g, U, h)
    <2>1. h = [s \in SUBSET U |-> IF s = {} THEN 0 ELSE g[Pick(s)] + h[s \ {Pick(s)}]]
      <3>1. \A s \in SUBSET U : (IF s = {} THEN 0 ELSE g[Pick(s)] + F(s \ {Pick(s)})[s \ {Pick(s)}])
               = (IF s = {} THEN 0 ELSE g[Pick(s)] + h[s \ {Pick(s)}])
        <4> HIDE DEF F, h
        <4> QED BY Zenon, <1>4
      <3> HIDE DEF F
      <3> QED BY Zenon, <3>1
    <2> HIDE DEF h
    <2> QED BY Zenon, <2>1 DEF Sums
  <1> QED BY Zenon, <1>1, <1>5

\* The sum over no elements.
LEMMA SumEmpty == ASSUME NEW g PROVE SumFunctionOnSet(g, {}) = 0
  <1> DEFINE H == CHOOSE h : Sums(g, {}, h)
  <1>1. \E h : Sums(g, {}, h)
    BY Zenon, SumsExist, FS_EmptySet
  <1>2. Sums(g, {}, H)
    BY Zenon, <1>1
  <1> HIDE DEF H
  <1>3. H[{}] = 0
    BY Zenon, <1>2 DEF Sums
  <1> QED BY Zenon, <1>3, SumUnfolds DEF H

\* A sum is one chosen element and the sum of the others.
LEMMA SumPick ==
  ASSUME NEW g, NEW S, IsFiniteSet(S), S # {}
  PROVE  /\ Pick(S) \in S
           /\ SumFunctionOnSet(g, S) = g[Pick(S)] + SumFunctionOnSet(g, S \ {Pick(S)})
  <1> DEFINE T == S \ {Pick(S)}
             H == CHOOSE h : Sums(g, S, h)
             K == CHOOSE h : Sums(g, T, h)
  <1>1. Pick(S) \in S
    BY Zenon DEF Pick
  <1>2. IsFiniteSet(T) /\ T \in SUBSET S
    BY Zenon, FS_Subset
  <1>3. Sums(g, S, H)
    <2>1. \E h : Sums(g, S, h)
      BY Zenon, SumsExist
    <2> QED BY Zenon, <2>1
  <1>4. Sums(g, T, K)
    <2> HIDE DEF T
    <2>1. \E h : Sums(g, T, h)
      BY Zenon, <1>2, SumsExist
    <2> QED BY Zenon, <2>1
  <1>5. SumFunctionOnSet(g, S) = H[S] /\ SumFunctionOnSet(g, T) = K[T]
    BY Zenon, SumUnfolds
  <1> HIDE DEF H, K
  <1>6. H[S] = g[Pick(S)] + H[T]
    BY Zenon, <1>3 DEF Sums
  <1>7. H[T] = K[T]
    <2> HIDE DEF T
    <2> QED BY <1>2, <1>3, <1>4, SumsAgree
  <1> QED BY Zenon, <1>1, <1>5, <1>6, <1>7

\* Integers add up to an integer.
LEMMA SumInt ==
  ASSUME NEW S, IsFiniteSet(S), NEW g, \A x \in S : g[x] \in Int
  PROVE  SumFunctionOnSet(g, S) \in Int
  <1> DEFINE Bad == {U \in SUBSET S : SumFunctionOnSet(g, U) \notin Int}
  <1> SUFFICES ASSUME Bad # {} PROVE FALSE
    BY Zenon
  <1>1. PICK U \in Bad : \A W \in Bad : W \subseteq U => W = U
    <2>1. Bad \subseteq SUBSET S
      BY Zenon
    <2> HIDE DEF Bad
    <2> QED BY <2>1, LeastSubset
  <1>2. IsFiniteSet(U)
    BY Zenon, FS_Subset
  <1>3. U # {}
    BY SumEmpty
  <1>4. /\ Pick(U) \in U
        /\ SumFunctionOnSet(g, U) = g[Pick(U)] + SumFunctionOnSet(g, U \ {Pick(U)})
    BY Zenon, <1>2, <1>3, SumPick
  <1>5. SumFunctionOnSet(g, U \ {Pick(U)}) \in Int
    BY <1>1, <1>4
  <1> QED BY <1>4, <1>5

\* Any element may be taken out first.
LEMMA SumOut ==
  ASSUME NEW S, IsFiniteSet(S), NEW g, \A x \in S : g[x] \in Int, NEW x \in S
  PROVE  SumFunctionOnSet(g, S) = g[x] + SumFunctionOnSet(g, S \ {x})
  <1> DEFINE Good(U) == \A y \in U : SumFunctionOnSet(g, U) = g[y] + SumFunctionOnSet(g, U \ {y})
             Bad == {U \in SUBSET S : ~Good(U)}
  <1> SUFFICES ASSUME Bad # {} PROVE FALSE
    BY Zenon
  <1>1. PICK U \in Bad : \A W \in Bad : W \subseteq U => W = U
    <2>1. Bad \subseteq SUBSET S
      BY Zenon
    <2> HIDE DEF Bad
    <2> QED BY <2>1, LeastSubset
  <1>2. PICK y \in U : SumFunctionOnSet(g, U) # g[y] + SumFunctionOnSet(g, U \ {y})
    BY Zenon, <1>1
  <1> DEFINE p == Pick(U)
             V == U \ {p}
             W == U \ {y}
             Z == U \ {p, y}
  <1>3. /\ p \in U
        /\ SumFunctionOnSet(g, U) = g[p] + SumFunctionOnSet(g, V)
    BY Zenon, <1>2, FS_Subset, SumPick
  <1>4. p # y
    BY Zenon, <1>2, <1>3
  <1>5. Good(V) /\ Good(W)
    BY <1>1, <1>2, <1>3
  <1>6. V \ {y} = Z /\ W \ {p} = Z /\ y \in V /\ p \in W
    BY Zenon, <1>3, <1>4
  <1>7. SumFunctionOnSet(g, V) = g[y] + SumFunctionOnSet(g, Z)
    BY Zenon, <1>5, <1>6
  <1>8. SumFunctionOnSet(g, W) = g[p] + SumFunctionOnSet(g, Z)
    BY Zenon, <1>5, <1>6
  <1>9. SumFunctionOnSet(g, Z) \in Int /\ g[p] \in Int /\ g[y] \in Int
    <2>1. IsFiniteSet(Z) /\ Z \subseteq S
      BY Zenon, FS_Subset
    <2>2. \A z \in Z : g[z] \in Int
      BY Zenon, <2>1
    <2> QED BY Zenon, <1>3, <2>1, <2>2, SumInt
  <1> HIDE DEF V, W, Z, p
  <1>10. SumFunctionOnSet(g, U) = g[y] + SumFunctionOnSet(g, W)
    BY <1>3, <1>7, <1>8, <1>9
  <1> QED BY Zenon, <1>2, <1>10 DEF W

\* The sum of a pointwise sum is the sum of the sums.
LEMMA SumPlus ==
  ASSUME NEW S, IsFiniteSet(S), NEW f, NEW g, NEW h,
           \A x \in S : g[x] \in Int /\ h[x] \in Int /\ f[x] = g[x] + h[x]
  PROVE  SumFunctionOnSet(f, S) = SumFunctionOnSet(g, S) + SumFunctionOnSet(h, S)
  <1> DEFINE Good(U) == SumFunctionOnSet(f, U) = SumFunctionOnSet(g, U) + SumFunctionOnSet(h, U)
             Bad == {U \in SUBSET S : ~Good(U)}
  <1> SUFFICES ASSUME Bad # {} PROVE FALSE
    BY Zenon
  <1>1. PICK U \in Bad : \A W \in Bad : W \subseteq U => W = U
    <2>1. Bad \subseteq SUBSET S
      BY Zenon
    <2> HIDE DEF Bad
    <2> QED BY <2>1, LeastSubset
  <1>2. IsFiniteSet(U)
    BY Zenon, FS_Subset
  <1>3. U # {}
    <2>1. Good({})
      BY SumEmpty
    <2> QED BY Zenon, <2>1
  <1> DEFINE p == Pick(U)
             V == U \ {p}
  <1>4. /\ p \in U
        /\ SumFunctionOnSet(f, U) = f[p] + SumFunctionOnSet(f, V)
        /\ SumFunctionOnSet(g, U) = g[p] + SumFunctionOnSet(g, V)
        /\ SumFunctionOnSet(h, U) = h[p] + SumFunctionOnSet(h, V)
    BY Zenon, <1>2, <1>3, SumPick
  <1>5. Good(V)
    BY <1>1, <1>4
  <1>6. SumFunctionOnSet(g, V) \in Int /\ SumFunctionOnSet(h, V) \in Int
    <2>1. IsFiniteSet(V) /\ \A x \in V : g[x] \in Int /\ h[x] \in Int
      BY Zenon, FS_Subset
    <2> QED BY Zenon, <2>1, SumInt
  <1>7. g[p] \in Int /\ h[p] \in Int /\ f[p] = g[p] + h[p]
    BY Zenon, <1>4
  <1> HIDE DEF V, p
  <1>8. Good(U)
    BY <1>4, <1>5, <1>6, <1>7
  <1> QED BY Zenon, <1>1, <1>8

\* A sum of amounts that are not negative is not negative.
LEMMA SumNat ==
  ASSUME NEW S, IsFiniteSet(S), NEW g, \A x \in S : g[x] \in Nat
  PROVE  SumFunctionOnSet(g, S) \in Nat
  <1> DEFINE Bad == {U \in SUBSET S : SumFunctionOnSet(g, U) \notin Nat}
  <1> SUFFICES ASSUME Bad # {} PROVE FALSE
    BY Zenon
  <1>1. PICK U \in Bad : \A W \in Bad : W \subseteq U => W = U
    <2>1. Bad \subseteq SUBSET S
      BY Zenon
    <2> HIDE DEF Bad
    <2> QED BY <2>1, LeastSubset
  <1>2. IsFiniteSet(U)
    BY Zenon, FS_Subset
  <1>3. U # {}
    BY SumEmpty
  <1>4. /\ Pick(U) \in U
        /\ SumFunctionOnSet(g, U) = g[Pick(U)] + SumFunctionOnSet(g, U \ {Pick(U)})
    BY Zenon, <1>2, <1>3, SumPick
  <1>5. SumFunctionOnSet(g, U \ {Pick(U)}) \in Nat
    BY <1>1, <1>4
  <1> QED BY <1>4, <1>5

\* The sum of zeros is zero.
LEMMA SumZero ==
  ASSUME NEW S, IsFiniteSet(S), NEW g, \A x \in S : g[x] = 0
  PROVE  SumFunctionOnSet(g, S) = 0
  <1> DEFINE Bad == {U \in SUBSET S : SumFunctionOnSet(g, U) # 0}
  <1> SUFFICES ASSUME Bad # {} PROVE FALSE
    BY Zenon
  <1>1. PICK U \in Bad : \A W \in Bad : W \subseteq U => W = U
    <2>1. Bad \subseteq SUBSET S
      BY Zenon
    <2> HIDE DEF Bad
    <2> QED BY <2>1, LeastSubset
  <1>2. IsFiniteSet(U) /\ U # {}
    BY Zenon, FS_Subset, SumEmpty
  <1>3. /\ Pick(U) \in U
        /\ SumFunctionOnSet(g, U) = g[Pick(U)] + SumFunctionOnSet(g, U \ {Pick(U)})
    BY Zenon, <1>2, SumPick
  <1>4. SumFunctionOnSet(g, U \ {Pick(U)}) = 0
    BY <1>1, <1>3
  <1> QED BY <1>3, <1>4

\* Functions that agree have the same sum.
LEMMA SumSame ==
  ASSUME NEW S, IsFiniteSet(S), NEW f, NEW g, \A x \in S : g[x] \in Int /\ f[x] = g[x]
  PROVE  SumFunctionOnSet(f, S) = SumFunctionOnSet(g, S)
  <1> DEFINE z == [x \in S |-> 0]
  <1>1. /\ \A x \in S : g[x] \in Int /\ z[x] \in Int /\ f[x] = g[x] + z[x]
        /\ \A x \in S : z[x] = 0
    OBVIOUS
  <1> HIDE DEF z
  <1>2. SumFunctionOnSet(f, S) = SumFunctionOnSet(g, S) + SumFunctionOnSet(z, S)
    BY ONLY IsFiniteSet(S), <1>1, SumPlus
  <1>3. SumFunctionOnSet(z, S) = 0 /\ SumFunctionOnSet(g, S) \in Int
    BY Zenon, <1>1, SumZero, SumInt
  <1> QED BY <1>2, <1>3

\* Changing one value changes the sum by as much.
LEMMA SumChange ==
  ASSUME NEW S, IsFiniteSet(S), NEW f, NEW g, NEW x \in S,
           \A y \in S : f[y] \in Int /\ g[y] \in Int,
           \A y \in S \ {x} : f[y] = g[y]
  PROVE  SumFunctionOnSet(f, S) = SumFunctionOnSet(g, S) + f[x] - g[x]
  <1> DEFINE T == S \ {x}
  <1>1. IsFiniteSet(T) /\ \A y \in T : f[y] \in Int /\ g[y] \in Int /\ f[y] = g[y]
    BY Zenon, FS_Subset
  <1>2. /\ SumFunctionOnSet(f, S) = f[x] + SumFunctionOnSet(f, T)
        /\ SumFunctionOnSet(g, S) = g[x] + SumFunctionOnSet(g, T)
    BY Zenon, SumOut
  <1> HIDE DEF T
  <1>3. SumFunctionOnSet(f, T) = SumFunctionOnSet(g, T) /\ SumFunctionOnSet(g, T) \in Int
    BY Zenon, <1>1, SumSame, SumInt
  <1> QED BY <1>2, <1>3

-----------------------------------------------------------------------------
(* What a step leaves alone.                                               *)

\* Sums over refunds and captures depend on the rows they sum, only.
LEMMA SumsFrame ==
  ASSUME UNCHANGED <<capture, settlement, refund>>, NEW c
  PROVE  /\ PendingRefunds(c)' = PendingRefunds(c) /\ Refunded(c)' = Refunded(c)
         /\ Settled(c)' = Settled(c) /\ Left(c)' = Left(c)
  BY Zenon DEF PendingRefunds, Refunded, RefundOf, Settled, Left

\* A step that changes no money keeps what is said about money.
LEMMA MoneyFrame ==
  ASSUME UNCHANGED moneyVars, ReservationsCovered, MerchantIsOwed, PendingBacked
  PROVE  ReservationsCovered' /\ MerchantIsOwed' /\ PendingBacked'
  <1> USE DEF moneyVars
  <1>1. ReservationsCovered'
    BY Zenon DEF ReservationsCovered, Owed
  <1>2. MerchantIsOwed'
    BY Zenon DEF MerchantIsOwed, Owed
  <1>3. PendingBacked'
    BY Zenon DEF PendingBacked, Owed, Left, PendingRefunds, RefundOf, Settled, Captured
  <1> QED BY Zenon, <1>1, <1>2, <1>3

\* The same for the payouts, when the set of paid payouts stays.
LEMMA PayoutsFrame ==
  ASSUME UNCHANGED moneyVars, UNCHANGED paid, PayoutsAccounted
  PROVE  PayoutsAccounted'
  BY Zenon DEF moneyVars, PayoutsAccounted, Owed

\* Everyone else stays where they are when a step leaves their transaction, the
\* payouts they hold and, if they hold the merchant lock, the money alone.
LEMMA PlaceFrame ==
  ASSUME TypeOK, NEW d \in Clients, PlaceInv(d),
         pc'[d] = pc[d], job'[d] = job[d], seen'[d] = seen[d], writes'[d] = writes[d],
         lock'[d] = lock[d],
         lock[d] = "update" => UNCHANGED <<ledger, capture, settlement, refund, reserved>>,
         \A p \in Payouts : payoutLock[p] = d /\ payout[p] # None
                            => payoutLock'[p] = d /\ payout'[p] = payout[p],
         job[d].kind = "observe" => (job[d].target \in paid' <=> job[d].target \in paid),
         Entered(d) => payout'[job[d].target] = payout[job[d].target]
  PROVE  PlaceInv(d)'
  <1>1. ASSUME NEW kinds PROVE HasJob(d, kinds)' <=> HasJob(d, kinds)
    BY Zenon DEF HasJob
  <1>2. ASSUME NEW status, HoldsPayout(d, status) PROVE HoldsPayout(d, status)'
    BY Zenon, <1>2 DEF HoldsPayout
  <1>3. ASSUME RefundInHand(d) PROVE RefundInHand(d)' /\ (RefundWrites(d) => RefundWrites(d)')
    <2>1. lock[d] = "update"
      BY Zenon, <1>3 DEF RefundInHand
    <2>2. UNCHANGED <<ledger, capture, settlement, refund, reserved>>
      BY Zenon, <2>1
    <2>3. Left(job[d].capture)' = Left(job[d].capture)
      BY Zenon, <2>2, SumsFrame
    <2> QED BY Zenon, <1>1, <1>3, <2>2, <2>3 DEF RefundInHand, RefundWrites
  <1>4. CreateInHand(d)' <=> CreateInHand(d)
    BY Zenon, <1>1 DEF CreateInHand
  <1>5. RetryInHand(d) => RetryInHand(d)'
    BY Zenon, <1>1, <1>2 DEF RetryInHand
  <1>6. ObserveInHand(d) => ObserveInHand(d)' /\ (ObserveWrites(d) => ObserveWrites(d)')
    BY Zenon, <1>1, <1>2 DEF ObserveInHand, ObserveWrites, HasJob
  <1>7. lock[d] = "update" => /\ Covered(d)' = Covered(d) /\ Fits(d)' = Fits(d)
                              /\ Owed("available")' = Owed("available")
    BY Zenon DEF Covered, Fits, Owed
  <1>8. CreateInHand(d) /\ pc[d] \in {"row", "version", "check", "commit"}
          => payout'[job[d].target] = payout[job[d].target]
    BY Zenon DEF CreateInHand, HasJob, Entered
  <1> QED BY Zenon, <1>1, <1>3, <1>4, <1>5, <1>6, <1>7, <1>8 DEF PlaceInv

\* A step of one session that takes a lock it is granted keeps locks exclusive.
LEMMA LocksStep ==
  ASSUME TypeOK, LocksExclude, NEW c \in Clients,
         \A d \in Clients \ {c} : lock'[d] = lock[d],
         \/ lock'[c] \in {"none", lock[c]}
         \/ lock'[c] = "update" /\ Grantable(c, "update")
         \/ lock'[c] # "update" /\ Grantable(c, "key share")
  PROVE  LocksExclude'
  <1>1. Grantable(c, "update") => \A d \in Clients \ {c} : lock[d] \notin {"key share", "no key update", "update"}
    BY Zenon DEF Grantable, Conflicts
  <1>2. Grantable(c, "key share") => \A d \in Clients \ {c} : lock[d] # "update"
    BY Zenon DEF Grantable, Conflicts
  <1>3. \A d \in Clients \ {c} : lock[d] \notin {"key share", "no key update", "update"} => lock[d] = "none"
    BY Zenon DEF TypeOK, LockModes
  <1> SUFFICES ASSUME NEW a \in Clients, NEW b \in Clients, a # b, lock'[a] = "update"
               PROVE  lock'[b] = "none"
    BY Zenon DEF LocksExclude
  <1>4. CASE a = c
    BY Zenon, <1>1, <1>2, <1>3, <1>4 DEF LocksExclude
  <1>5. CASE b = c
    BY Zenon, <1>1, <1>2, <1>3, <1>5 DEF LocksExclude
  <1>6. CASE a # c /\ b # c
    BY Zenon, <1>6 DEF LocksExclude
  <1> QED BY Zenon, <1>4, <1>5, <1>6

\* OneInsert survives a step of one session that neither enters the insert with a
\* key another session has inserted nor changes another session.
LEMMA OneInsertStep ==
  ASSUME OneInsert, NEW c \in Clients,
         \A d \in Clients \ {c} : pc'[d] = pc[d] /\ job'[d] = job[d],
         \/ pc'[c] \notin {"row", "version", "check", "commit"}
         \/ job'[c].kind # "create"
         \/ Entered(c) /\ job'[c] = job[c]
         \/ \A d \in Clients \ {c} : Entered(d) => job[d].target # job'[c].target
  PROVE  OneInsert'
  <1>1. \A d \in Clients \ {c} : Entered(d)' = Entered(d) /\ job'[d] = job[d]
    BY Zenon DEF Entered
  <1>2. Entered(c)' => \A d \in Clients \ {c} : Entered(d) => job[d].target # job'[c].target
    BY Zenon DEF OneInsert, Entered
  <1> SUFFICES ASSUME NEW a \in Clients, NEW b \in Clients, a # b, Entered(a)', Entered(b)'
               PROVE  job'[a].target # job'[b].target
    BY Zenon DEF OneInsert
  <1>3. CASE a = c
    BY Zenon, <1>1, <1>2, <1>3
  <1>4. CASE b = c
    BY Zenon, <1>1, <1>2, <1>4
  <1>5. CASE a # c /\ b # c
    <2>1. Entered(a) /\ Entered(b) /\ job'[a] = job[a] /\ job'[b] = job[b]
      BY Zenon, <1>1, <1>5
    <2> QED BY Zenon, <2>1 DEF OneInsert
  <1> QED BY Zenon, <1>3, <1>4, <1>5

\* AdvisoryInv survives a step of one session that leaves what others wrote alone.
LEMMA AdvisoryStep ==
  ASSUME AdvisoryInv, NEW c \in Clients, advisory \in Clients \cup {None},
         \A d \in Clients \ {c} : pc'[d] = pc[d] /\ writes'[d] = writes[d],
         UNCHANGED <<ledger, reserved>>,
         pc'[c] = "commit" => writes'[c].reserved = 0 /\ writes'[c].entries["available"] = 0,
         advisory' = IF advisory = c THEN None ELSE advisory
  PROVE  AdvisoryInv'
  BY Zenon, ConstantsAssumption DEF AdvisoryInv, Covered, Owed

-----------------------------------------------------------------------------
(* The end of a transaction.                                               *)

\* A step of session c leaves the transactions of the others alone.
Elsewhere(c) ==
    /\ \A d \in Clients \ {c} : /\ pc'[d] = pc[d] /\ job'[d] = job[d] /\ seen'[d] = seen[d]
                                /\ writes'[d] = writes[d] /\ lock'[d] = lock[d]
    /\ \A p \in Payouts : payoutLock[p] \in Clients \ {c} => payoutLock'[p] = payoutLock[p]

\* A step of a session that changes no money keeps the invariant if the session
\* ends at a place it may be at, with locks it was granted.
LEMMA SessionStep ==
  ASSUME FundsInv, NEW c \in Clients, UNCHANGED moneyVars, UNCHANGED paid,
         TypeOK', Elsewhere(c), PlaceInv(c)',
         \/ lock'[c] \in {"none", lock[c]}
         \/ lock'[c] = "update" /\ Grantable(c, "update")
         \/ lock'[c] # "update" /\ Grantable(c, "key share"),
         OneInsert', AdvisoryInv', rejected' \subseteq {"VERSION", "CONSTRAINT"}
  PROVE  FundsInv'
  <1>0. /\ TypeOK /\ LocksExclude /\ RowsInv /\ ReservationsCovered /\ PayoutsAccounted
        /\ MerchantIsOwed /\ PendingBacked /\ \A d \in Clients : PlaceInv(d)
    BY Zenon DEF FundsInv
  <1>1. LocksExclude'
    BY Zenon, <1>0, LocksStep DEF Elsewhere
  <1>2. ASSUME NEW d \in Clients \ {c} PROVE PlaceInv(d)'
    <2>1. /\ pc'[d] = pc[d] /\ job'[d] = job[d] /\ seen'[d] = seen[d]
          /\ writes'[d] = writes[d] /\ lock'[d] = lock[d]
          /\ \A p \in Payouts : payoutLock[p] = d => payoutLock'[p] = d
      BY Zenon DEF Elsewhere
    <2>2. UNCHANGED <<ledger, capture, settlement, refund, reserved, payout>>
      BY Zenon DEF moneyVars
    <2> QED BY ONLY Zenon, <1>0, <1>2, <2>1, <2>2, UNCHANGED paid, PlaceFrame
  <1>3. RowsInv'
    BY Zenon, <1>0 DEF RowsInv, moneyVars
  <1>4. ReservationsCovered' /\ MerchantIsOwed' /\ PendingBacked'
    BY Zenon, <1>0, MoneyFrame
  <1>5. PayoutsAccounted'
    BY Zenon, <1>0, PayoutsFrame
  <1> QED BY Zenon, <1>1, <1>2, <1>3, <1>4, <1>5 DEF FundsInv

\* Types of what the transactions start from.
LEMMA Blanks ==
  /\ NoJob \in Jobs
  /\ NoRead \in [available : Int, version : Nat]
  /\ NoWrites \in [entries : [Accounts -> Int], reserved : Int, pendingUse : Nat]
  /\ NoEntries \in [Accounts -> Int]
  <1>1. NoEntries \in [Accounts -> Int]
    BY DEF NoEntries
  <1>2. NoJob \in Jobs
    BY Zenon DEF NoJob, Job, Jobs
  <1> QED BY <1>1, <1>2 DEF NoRead, NoWrites

\* The end of a transaction touches the session's own locks only.
LEMMA ReleaseEffect ==
  ASSUME TypeOK, NEW c \in Clients, Release(c)
  PROVE  /\ lock' \in [Clients -> LockModes]
         /\ lock'[c] = "none" /\ \A d \in Clients \ {c} : lock'[d] = lock[d]
         /\ payoutLock' \in [Payouts -> Clients \cup {None}]
         /\ \A p \in Payouts : payoutLock[p] \in Clients \ {c} => payoutLock'[p] = payoutLock[p]
         /\ advisory' = IF advisory = c THEN None ELSE advisory
         /\ advisory' \in Clients \cup {None}
  BY Zenon DEF TypeOK, Release, LockModes

\* A transaction may be rolled back at any place.
LEMMA RollbackStep ==
  ASSUME FundsInv, NEW c \in Clients, Rollback(c), UNCHANGED moneyVars, UNCHANGED paid,
         rejected' \subseteq {"VERSION", "CONSTRAINT"}
  PROVE  FundsInv'
  <1>0. TypeOK /\ AdvisoryInv /\ OneInsert
    BY Zenon DEF FundsInv
  <1>1. /\ lock' \in [Clients -> LockModes]
        /\ lock'[c] = "none" /\ \A d \in Clients \ {c} : lock'[d] = lock[d]
        /\ payoutLock' \in [Payouts -> Clients \cup {None}]
        /\ \A p \in Payouts : payoutLock[p] \in Clients \ {c} => payoutLock'[p] = payoutLock[p]
        /\ advisory' = IF advisory = c THEN None ELSE advisory
        /\ advisory' \in Clients \cup {None}
    BY Zenon, <1>0, ReleaseEffect DEF Rollback
  <1>2. /\ pc' = [pc EXCEPT ![c] = "idle"] /\ job' = [job EXCEPT ![c] = NoJob]
        /\ seen' = [seen EXCEPT ![c] = NoRead] /\ writes' = [writes EXCEPT ![c] = NoWrites]
    BY Zenon DEF Rollback, Goto, Forget
  <1>3. /\ pc' \in [Clients -> Places] /\ job' \in [Clients -> Jobs]
        /\ seen' \in [Clients -> [available : Int, version : Nat]]
        /\ writes' \in [Clients -> [entries : [Accounts -> Int], reserved : Int, pendingUse : Nat]]
    BY Zenon, <1>0, <1>2, Blanks DEF TypeOK, Places
  <1>4. TypeOK'
    BY Zenon, <1>0, <1>1, <1>3 DEF TypeOK, moneyVars
  <1>5. Elsewhere(c)
    BY Zenon, <1>0, <1>1, <1>2 DEF Elsewhere, TypeOK
  <1>6. pc'[c] = "idle" /\ job'[c] = NoJob
    BY Zenon, <1>0, <1>2 DEF TypeOK
  <1>7. PlaceInv(c)'
    BY Zenon, <1>1, <1>6 DEF PlaceInv
  <1>8. OneInsert'
    BY Zenon, <1>0, <1>5, <1>6, OneInsertStep DEF Elsewhere
  <1>9. AdvisoryInv'
    <2>1. \A d \in Clients \ {c} : pc'[d] = pc[d] /\ writes'[d] = writes[d]
      BY Zenon, <1>5 DEF Elsewhere
    <2>2. UNCHANGED <<ledger, reserved>> /\ advisory \in Clients \cup {None}
      BY Zenon, <1>0 DEF moneyVars, TypeOK
    <2> QED BY Zenon, <1>0, <1>1, <1>6, <2>1, <2>2, AdvisoryStep
  <1> QED BY Zenon, <1>1, <1>4, <1>5, <1>7, <1>8, <1>9, SessionStep

\* create_payout may start its transaction again.
LEMMA AgainStep ==
  ASSUME FundsInv, NEW c \in Clients, Again(c), CreateInHand(c), NEW n \in BOOLEAN,
         job' = [job EXCEPT ![c].retried = n],
         UNCHANGED moneyVars, UNCHANGED paid, rejected' \subseteq {"VERSION", "CONSTRAINT"}
  PROVE  FundsInv'
  <1>0. TypeOK /\ AdvisoryInv /\ OneInsert
    BY Zenon DEF FundsInv
  <1>1. /\ lock' \in [Clients -> LockModes]
        /\ lock'[c] = "none" /\ \A d \in Clients \ {c} : lock'[d] = lock[d]
        /\ payoutLock' \in [Payouts -> Clients \cup {None}]
        /\ \A p \in Payouts : payoutLock[p] \in Clients \ {c} => payoutLock'[p] = payoutLock[p]
        /\ advisory' = IF advisory = c THEN None ELSE advisory
        /\ advisory' \in Clients \cup {None}
    BY Zenon, <1>0, ReleaseEffect DEF Again
  <1>2. /\ pc' = [pc EXCEPT ![c] = "lookup"]
        /\ seen' = [seen EXCEPT ![c] = NoRead] /\ writes' = [writes EXCEPT ![c] = NoWrites]
    BY Zenon DEF Again, Goto
  <1>3. /\ pc' \in [Clients -> Places]
        /\ seen' \in [Clients -> [available : Int, version : Nat]]
        /\ writes' \in [Clients -> [entries : [Accounts -> Int], reserved : Int, pendingUse : Nat]]
    BY Zenon, <1>0, <1>2, Blanks DEF TypeOK, Places
  <1>4. /\ job' \in [Clients -> Jobs]
        /\ \A d \in Clients \ {c} : job'[d] = job[d]
        /\ job'[c].kind = job[c].kind /\ job'[c].target = job[c].target
        /\ job'[c].amount = job[c].amount /\ job'[c].guard = job[c].guard
    <2> DEFINE j == [job[c] EXCEPT !.retried = n]
    <2>1. job' = [job EXCEPT ![c] = j] /\ job \in [Clients -> Jobs]
      BY Zenon, <1>0 DEF TypeOK
    <2>2. /\ j \in Jobs /\ j.kind = job[c].kind /\ j.target = job[c].target
          /\ j.amount = job[c].amount /\ j.guard = job[c].guard
      BY Zenon, <2>1 DEF Jobs
    <2> QED BY Zenon, <2>1, <2>2
  <1>5. TypeOK'
    BY Zenon, <1>0, <1>1, <1>3, <1>4 DEF TypeOK, moneyVars
  <1>6. Elsewhere(c)
    BY Zenon, <1>0, <1>1, <1>2, <1>4 DEF Elsewhere, TypeOK
  <1>7. pc'[c] = "lookup"
    BY Zenon, <1>0, <1>2 DEF TypeOK
  <1>8. PlaceInv(c)'
    <2>1. CreateInHand(c)'
      BY Zenon, <1>4 DEF CreateInHand, HasJob
    <2> QED BY Zenon, <1>1, <1>7, <2>1 DEF PlaceInv
  <1>9. OneInsert'
    BY Zenon, <1>0, <1>6, <1>7, OneInsertStep DEF Elsewhere
  <1>10. AdvisoryInv'
    <2>1. \A d \in Clients \ {c} : pc'[d] = pc[d] /\ writes'[d] = writes[d]
      BY Zenon, <1>6 DEF Elsewhere
    <2>2. UNCHANGED <<ledger, reserved>> /\ advisory \in Clients \cup {None}
      BY Zenon, <1>0 DEF moneyVars, TypeOK
    <2> QED BY Zenon, <1>0, <1>1, <1>7, <2>1, <2>2, AdvisoryStep
  <1> QED BY Zenon, <1>1, <1>5, <1>6, <1>8, <1>9, <1>10, SessionStep

-----------------------------------------------------------------------------
(* A session moves on.                                                     *)

\* What a session remembers of its reads, and what it is about to commit.
Reads == [available : Int, version : Nat]
Writes == [entries : [Accounts -> Int], reserved : Int, pendingUse : Nat]

\* Session c moves to a place with a job, a read, its writes and a row lock.
MovesTo(c, place, j, s, w, mode) ==
    /\ pc' = [pc EXCEPT ![c] = place]
    /\ job' = [job EXCEPT ![c] = j]
    /\ seen' = [seen EXCEPT ![c] = s]
    /\ writes' = [writes EXCEPT ![c] = w]
    /\ lock' = [lock EXCEPT ![c] = mode]
    /\ payoutLock' \in [Payouts -> Clients \cup {None}]
    /\ \A p \in Payouts : payoutLock[p] \in Clients \ {c} => payoutLock'[p] = payoutLock[p]
    /\ UNCHANGED moneyVars /\ UNCHANGED paid /\ UNCHANGED rejected

\* What a move does to the session and to the others.
Moved(c, place, j, s, w, mode) ==
    /\ pc'[c] = place /\ job'[c] = j /\ seen'[c] = s /\ writes'[c] = w /\ lock'[c] = mode
    /\ ledger' = ledger /\ capture' = capture /\ settlement' = settlement /\ refund' = refund
    /\ payout' = payout /\ held' = held /\ reserved' = reserved /\ paid' = paid
    /\ Elsewhere(c)

\* A move does it.
LEMMA MoveEffect ==
  ASSUME TypeOK, NEW c \in Clients, NEW place, NEW j, NEW s, NEW w, NEW mode,
         MovesTo(c, place, j, s, w, mode)
  PROVE  Moved(c, place, j, s, w, mode)
  <1> USE DEF MovesTo
  <1>1. /\ pc'[c] = place /\ job'[c] = j /\ seen'[c] = s /\ writes'[c] = w /\ lock'[c] = mode
        /\ Elsewhere(c)
    BY Zenon DEF TypeOK, Elsewhere
  <1> QED BY Zenon, <1>1 DEF Moved, moneyVars

\* A move keeps the types.
LEMMA MoveType ==
  ASSUME TypeOK, NEW c \in Clients, NEW place \in Places, NEW j \in Jobs, NEW s \in Reads,
         NEW w \in Writes, NEW mode \in LockModes, MovesTo(c, place, j, s, w, mode),
         UNCHANGED advisory
  PROVE  TypeOK'
  BY Zenon DEF TypeOK, MovesTo, moneyVars, Reads, Writes

\* A move short of the commit keeps the invariant if the session may be there.
LEMMA Move ==
  ASSUME FundsInv, NEW c \in Clients, NEW place \in Places, NEW j \in Jobs, NEW s \in Reads,
         NEW w \in Writes, NEW mode \in LockModes, MovesTo(c, place, j, s, w, mode),
         UNCHANGED advisory, pc[c] # "commit",
         place = "commit" => w.reserved = 0 /\ w.entries["available"] = 0,
         \/ place \notin {"row", "version", "check", "commit"} \/ j.kind # "create"
         \/ Entered(c) /\ j = job[c]
         \/ \A d \in Clients \ {c} : Entered(d) => job[d].target # j.target,
         \/ mode = lock[c]
         \/ mode = "update" /\ Grantable(c, "update")
         \/ mode # "update" /\ Grantable(c, "key share")
  PROVE  PlaceInv(c)' => FundsInv'
  <1>0. /\ TypeOK /\ AdvisoryInv /\ OneInsert
        /\ advisory \in Clients \cup {None} /\ advisory' \in Clients \cup {None}
    BY Zenon DEF FundsInv, TypeOK
  <1>1. /\ pc'[c] = place /\ job'[c] = j /\ seen'[c] = s /\ writes'[c] = w /\ lock'[c] = mode
        /\ ledger' = ledger /\ reserved' = reserved
        /\ Elsewhere(c)
        /\ TypeOK'
    <2>1. Moved(c, place, j, s, w, mode)
      BY Zenon, <1>0, MoveEffect
    <2> QED BY Zenon, <1>0, <2>1, MoveType DEF Moved
  <1>2. \A d \in Clients \ {c} : pc'[d] = pc[d] /\ job'[d] = job[d] /\ writes'[d] = writes[d]
    BY Zenon, <1>1 DEF Elsewhere
  <1>3. OneInsert'
    BY Zenon, <1>0, <1>1, <1>2, OneInsertStep
  <1>4. advisory # c
    BY Zenon, <1>0, ConstantsAssumption DEF AdvisoryInv
  <1>5. AdvisoryInv'
    BY Zenon, <1>0, <1>1, <1>2, <1>4, AdvisoryStep
  <1>6. rejected' \subseteq {"VERSION", "CONSTRAINT"} /\ UNCHANGED moneyVars /\ UNCHANGED paid
    BY Zenon DEF MovesTo, FundsInv, RowsInv
  <1>7. PlaceInv(c)' => FundsInv'
    BY Zenon, <1>1, <1>3, <1>5, <1>6, SessionStep
  <1> QED BY Zenon, <1>7

\* Nothing but the locks of a session is read at a row lock.
LEMMA TypeFacts ==
  ASSUME TypeOK, NEW c \in Clients
  PROVE  /\ pc[c] \in Places /\ job[c] \in Jobs /\ seen[c] \in Reads /\ writes[c] \in Writes
         /\ lock[c] \in LockModes
         /\ pc = [pc EXCEPT ![c] = pc[c]] /\ job = [job EXCEPT ![c] = job[c]]
         /\ seen = [seen EXCEPT ![c] = seen[c]] /\ writes = [writes EXCEPT ![c] = writes[c]]
         /\ lock = [lock EXCEPT ![c] = lock[c]]
  BY Zenon DEF TypeOK, Reads, Writes

\* What an account owes is an integer.
LEMMA OwedInt == ASSUME TypeOK, NEW a \in Accounts PROVE Owed(a) \in Int
  BY DEF TypeOK, Owed

\* post_refund_journal locks the merchant account: the invariant stands.
LEMMA RefundLockStep ==
  ASSUME FundsInv, NEW c \in Clients, NEW r \in Refunds, NEW cap \in Captures, NEW amount \in Amounts,
         RefundLock(c, r, cap, amount)
  PROVE  FundsInv'
  <1> DEFINE j == [Job("refund", r, amount) EXCEPT !.capture = cap]
             s == [NoRead EXCEPT !.available = Owed("available")]
  <1>0. TypeOK
    BY Zenon DEF FundsInv
  <1>1. /\ j \in Jobs /\ j.kind = "refund" /\ j.target = r /\ j.amount = amount /\ j.capture = cap
    BY Zenon DEF Job, Jobs, Kinds
  <1>2. s \in Reads /\ s.available = Owed("available")
    BY Zenon, <1>0, OwedInt DEF NoRead, Reads, Accounts
  <1>3. MovesTo(c, "source", j, s, writes[c], "update") /\ UNCHANGED advisory
        /\ pc[c] = "idle" /\ Grantable(c, "update") /\ refund[r] = None /\ capture[cap] # None
    BY Zenon, <1>0, TypeFacts DEF RefundLock, MovesTo, Goto, TypeOK
  <1> HIDE DEF j, s
  <1>4. writes[c] \in Writes /\ "source" \in Places /\ "update" \in LockModes
    BY Zenon, <1>0, TypeFacts DEF Places, LockModes
  <1>5. /\ pc'[c] = "source" /\ job'[c] = j /\ seen'[c] = s /\ lock'[c] = "update"
        /\ ledger' = ledger /\ refund' = refund /\ capture' = capture
    <2>1. Moved(c, "source", j, s, writes[c], "update")
      BY Zenon, <1>0, <1>3, MoveEffect
    <2> QED BY Zenon, <2>1 DEF Moved
  <1>6. PlaceInv(c)'
    BY Zenon, <1>1, <1>2, <1>3, <1>5 DEF PlaceInv, RefundInHand, HasJob, Owed
  <1> QED BY Zenon, <1>1, <1>2, <1>3, <1>4, <1>6, Move

\* A payout creation begins: the invariant stands.
LEMMA CreateBeginStep ==
  ASSUME FundsInv, NEW c \in Clients, NEW p \in Payouts, NEW amount \in Amounts, NEW guard \in Guards,
         CreateBegin(c, p, amount, guard)
  PROVE  FundsInv'
  <1> DEFINE j == [Job("create", p, amount) EXCEPT !.guard = guard]
  <1>0. TypeOK /\ PlaceInv(c)
    BY Zenon DEF FundsInv
  <1>1. /\ j \in Jobs /\ j.kind = "create" /\ j.target = p /\ j.amount = amount /\ j.guard = guard
    BY Zenon DEF Job, Jobs, Kinds
  <1>2. MovesTo(c, "read", j, seen[c], writes[c], lock[c]) /\ UNCHANGED advisory
        /\ pc[c] = "idle"
    BY Zenon, <1>0, TypeFacts DEF CreateBegin, MovesTo, Goto, TypeOK, lockVars
  <1> HIDE DEF j
  <1>3. lock[c] = "none"
    BY Zenon, <1>0, <1>2 DEF PlaceInv
  <1>4. writes[c] \in Writes /\ seen[c] \in Reads /\ lock[c] \in LockModes /\ "read" \in Places
    BY Zenon, <1>0, TypeFacts DEF Places
  <1>5. pc'[c] = "read" /\ job'[c] = j /\ lock'[c] = lock[c]
    <2>1. Moved(c, "read", j, seen[c], writes[c], lock[c])
      BY Zenon, <1>0, <1>2, MoveEffect
    <2> QED BY Zenon, <2>1 DEF Moved
  <1>6. PlaceInv(c)'
    BY Zenon, <1>1, <1>3, <1>5 DEF PlaceInv, CreateInHand, HasJob
  <1> QED BY Zenon, <1>1, <1>2, <1>4, <1>6, Move

\* A retry locks its payout: the invariant stands.
LEMMA RetryBeginStep ==
  ASSUME FundsInv, NEW c \in Clients, NEW p \in Payouts, RetryBegin(c, p)
  PROVE  FundsInv'
  <1> DEFINE j == Job("retry", p, payout[p].amount)
  <1>0. TypeOK /\ PlaceInv(c)
    BY Zenon DEF FundsInv
  <1>1. payout[p] # None /\ payout[p].amount \in Amounts /\ pc[c] = "idle"
    BY Zenon, <1>0 DEF RetryBegin, TypeOK, PayoutRow
  <1>2. /\ j \in Jobs /\ j.kind = "retry" /\ j.target = p /\ j.amount = payout[p].amount
    BY Zenon, <1>1 DEF Job, Jobs, Kinds
  <1>3. /\ payoutLock[p] = None /\ payoutLock' = [payoutLock EXCEPT ![p] = c]
        /\ lock' = lock
    BY Zenon DEF RetryBegin, RetryLockPayout
  <1>4. MovesTo(c, "retry", j, seen[c], writes[c], lock[c]) /\ UNCHANGED advisory
    <2>1. /\ payoutLock' \in [Payouts -> Clients \cup {None}]
          /\ \A q \in Payouts : payoutLock[q] \in Clients \ {c} => payoutLock'[q] = payoutLock[q]
      BY Zenon, <1>0, <1>3, ConstantsAssumption DEF TypeOK
    <2>2. /\ seen' = [seen EXCEPT ![c] = seen[c]] /\ writes' = [writes EXCEPT ![c] = writes[c]]
          /\ lock' = [lock EXCEPT ![c] = lock[c]]
      BY Zenon, <1>0, <1>3, TypeFacts DEF RetryBegin
    <2> QED BY Zenon, <2>1, <2>2 DEF RetryBegin, MovesTo, Goto
  <1> HIDE DEF j
  <1>5. lock[c] = "none" /\ payoutLock'[p] = c
    BY Zenon, <1>0, <1>1, <1>3 DEF PlaceInv, TypeOK
  <1>6. writes[c] \in Writes /\ seen[c] \in Reads /\ lock[c] \in LockModes /\ "retry" \in Places
    BY Zenon, <1>0, TypeFacts DEF Places
  <1>7. /\ pc'[c] = "retry" /\ job'[c] = j /\ lock'[c] = lock[c] /\ payout' = payout
    <2>1. Moved(c, "retry", j, seen[c], writes[c], lock[c])
      BY Zenon, <1>0, <1>4, MoveEffect
    <2> QED BY Zenon, <2>1 DEF Moved
  <1>8. PlaceInv(c)'
    BY Zenon, <1>1, <1>2, <1>5, <1>7 DEF PlaceInv, HasJob
  <1> QED BY Zenon, <1>1, <1>2, <1>4, <1>6, <1>8, Move

\* A bank result locks its payout: the invariant stands.
LEMMA ObserveBeginStep ==
  ASSUME FundsInv, NEW c \in Clients, NEW p \in Payouts, ObserveBegin(c, p)
  PROVE  FundsInv'
  <1> DEFINE e == IF p \in paid THEN "SUCCEEDED" ELSE "FAILED"
             j == [Job("observe", p, payout[p].amount) EXCEPT !.end = e]
  <1>0. TypeOK /\ PlaceInv(c)
    BY Zenon DEF FundsInv
  <1>1. payout[p] # None /\ payout[p].amount \in Amounts /\ payout[p].status = "OPEN" /\ pc[c] = "idle"
    BY Zenon, <1>0 DEF ObserveBegin, TypeOK, PayoutRow
  <1>2. /\ j \in Jobs /\ j.kind = "observe" /\ j.target = p /\ j.amount = payout[p].amount /\ j.end = e
    BY Zenon, <1>1 DEF Job, Jobs, Kinds
  <1>3. /\ payoutLock[p] = None /\ payoutLock' = [payoutLock EXCEPT ![p] = c]
        /\ lock' = lock
    BY Zenon DEF ObserveBegin
  <1>4. MovesTo(c, "insert", j, seen[c], writes[c], lock[c]) /\ UNCHANGED advisory
    BY <1>0, <1>3, TypeFacts, ConstantsAssumption DEF ObserveBegin, MovesTo, Goto, TypeOK
  <1> HIDE DEF j
  <1>5. lock[c] = "none" /\ payoutLock'[p] = c
    BY Zenon, <1>0, <1>1, <1>3 DEF PlaceInv, TypeOK
  <1>6. writes[c] \in Writes /\ seen[c] \in Reads /\ lock[c] \in LockModes /\ "insert" \in Places
    BY Zenon, <1>0, TypeFacts DEF Places
  <1>7. /\ pc'[c] = "insert" /\ job'[c] = j /\ lock'[c] = lock[c] /\ payout' = payout /\ paid' = paid
    <2>1. Moved(c, "insert", j, seen[c], writes[c], lock[c])
      BY Zenon, <1>0, <1>4, MoveEffect
    <2> QED BY Zenon, <2>1 DEF Moved
  <1>8. PlaceInv(c)'
    BY Zenon, <1>1, <1>2, <1>5, <1>7 DEF PlaceInv, ObserveInHand, HoldsPayout, HasJob
  <1> QED BY Zenon, <1>1, <1>2, <1>4, <1>6, <1>8, Move

-----------------------------------------------------------------------------
(* Refunds and payout creations.                                           *)

\* What refunds took from a capture, and what is left of it, are amounts.
LEMMA SumTypes ==
  ASSUME TypeOK, NEW c \in Captures
  PROVE  PendingRefunds(c) \in Nat /\ Settled(c) \in Nat /\ Left(c) \in Int
  <1> USE ConstantsAssumption
  <1> DEFINE f == [r \in Refunds |-> IF RefundOf(r, c) THEN refund[r].pendingUse ELSE 0]
  <1>1. \A r \in Refunds : f[r] \in Nat
    BY Zenon DEF TypeOK, RefundRow, RefundOf
  <1>2. PendingRefunds(c) = SumFunctionOnSet(f, Refunds)
    BY Zenon DEF PendingRefunds, SumFunction
  <1> HIDE DEF f
  <1>3. PendingRefunds(c) \in Nat
    BY Zenon, <1>1, <1>2, SumNat
  <1>4. Settled(c) \in Nat
    BY Zenon DEF TypeOK, Settled
  <1>5. capture[c] # None => capture[c].net \in Nat
    BY Zenon DEF TypeOK, CaptureRow
  <1> QED BY <1>3, <1>4, <1>5 DEF Left

\* A refund chooses its sources under the lock: what it takes of pending is left of
\* the capture, and what it takes of available is not reserved.
LEMMA RefundSourcesStep ==
  ASSUME FundsInv, NEW c \in Clients, RefundSources(c)
  PROVE  FundsInv'
  <1> USE ConstantsAssumption
  <1> DEFINE cap == job[c].capture
             amount == job[c].amount
             pending == Larger(capture[cap].net - Settled(cap) - PendingRefunds(cap), 0)
             pendingUse == Smaller(amount, pending)
             availableUse == Smaller(amount - pendingUse, Unreserved(seen[c].available))
             entries == [NoEntries EXCEPT
                           !["pending"] = -pendingUse, !["available"] = -availableUse,
                           !["receivable"] = -(amount - pendingUse - availableUse),
                           !["provider"] = amount]
             w == [entries |-> entries, reserved |-> 0, pendingUse |-> pendingUse]
             place == IF availableUse = 0 THEN "commit" ELSE "check"
  <1>0. TypeOK /\ PlaceInv(c) /\ PendingBacked /\ pc[c] = "source"
    BY Zenon DEF FundsInv, RefundSources
  <1>1. RefundInHand(c) /\ lock[c] = "update" /\ seen[c].available = Owed("available")
    BY Zenon, <1>0 DEF PlaceInv, RefundInHand
  <1>2. cap \in Captures /\ capture[cap] # None /\ amount \in Nat \ {0} /\ job[c].kind = "refund"
    BY Zenon, <1>1 DEF RefundInHand, HasJob
  <1>3. MovesTo(c, place, job[c], seen[c], w, lock[c]) /\ UNCHANGED advisory
    BY Zenon, <1>0, TypeFacts DEF RefundSources, MovesTo, Goto, TypeOK, lockVars
  <1>4. pending \in Nat /\ pending = Left(cap)
    <2>1. capture[cap].net \in Nat /\ Settled(cap) \in Nat /\ PendingRefunds(cap) \in Nat
      BY Zenon, <1>0, <1>2, SumTypes DEF TypeOK, CaptureRow
    <2>2. Settled(cap) + PendingRefunds(cap) <= capture[cap].net
      BY Zenon, <1>0, <1>2 DEF PendingBacked, Captured
    <2> DEFINE left == capture[cap].net - Settled(cap) - PendingRefunds(cap)
    <2>3. left \in Nat
      <3> HIDE DEF cap
      <3> QED BY ONLY <2>1, <2>2
    <2>4. pending = left /\ Left(cap) = left
      <3> HIDE DEF left
      <3>1. pending = Larger(left, 0)
        BY Zenon DEF left
      <3>2. Larger(left, 0) = left
        BY ONLY <2>3 DEF Larger
      <3>3. Left(cap) = left
        BY Zenon, <1>2 DEF Left, left
      <3> QED BY Zenon, <3>1, <3>2, <3>3
    <2> QED BY Zenon, <2>3, <2>4
  <1>5. pendingUse \in Nat /\ pendingUse <= Left(cap) /\ amount - pendingUse \in Nat
    <2> HIDE DEF pending, amount
    <2> QED BY <1>2, <1>4 DEF Smaller
  <1>6. Owed("available") \in Int /\ reserved \in Nat
    BY Zenon, <1>0, OwedInt DEF TypeOK, Accounts
  <1>7. /\ availableUse \in Nat /\ amount - pendingUse - availableUse \in Nat
        /\ availableUse # 0 => reserved <= Owed("available") - availableUse
    <2> HIDE DEF pendingUse, amount
    <2> QED BY <1>1, <1>2, <1>5, <1>6 DEF Smaller, Unreserved, Larger
  <1> HIDE DEF cap, amount, pending, pendingUse, availableUse
  <1>8. /\ entries \in [Accounts -> Int]
        /\ entries["pending"] = -pendingUse /\ entries["available"] = -availableUse
        /\ entries["receivable"] = -(amount - pendingUse - availableUse)
        /\ entries["clearing"] = 0
    BY <1>2, <1>5, <1>7 DEF NoEntries, Accounts
  <1> HIDE DEF entries
  <1>9. /\ w \in Writes /\ w.entries = entries /\ w.reserved = 0 /\ w.pendingUse = pendingUse
        /\ job[c] \in Jobs /\ seen[c] \in Reads /\ lock[c] \in LockModes /\ place \in Places
    BY <1>0, <1>5, <1>8, TypeFacts DEF Writes, Places
  <1>10. place = "commit" => w.reserved = 0 /\ w.entries["available"] = 0
    BY <1>7, <1>8, <1>9
  <1>11. place \in {"check", "commit"} /\ (place = "check" => availableUse # 0)
    BY Zenon
  <1> HIDE DEF w, place
  <1>12. /\ pc'[c] = place /\ job'[c] = job[c] /\ seen'[c] = seen[c] /\ writes'[c] = w
         /\ lock'[c] = lock[c]
         /\ ledger' = ledger /\ capture' = capture /\ settlement' = settlement /\ refund' = refund
         /\ reserved' = reserved
    <2>1. Moved(c, place, job[c], seen[c], w, lock[c])
      BY Zenon, <1>0, <1>3, MoveEffect
    <2> QED BY Zenon, <2>1 DEF Moved
  <1>13. RefundInHand(c)'
    BY Zenon, <1>1, <1>12 DEF RefundInHand, HasJob
  <1>14. Left(cap)' = Left(cap) /\ job'[c].capture = cap /\ job'[c].amount = amount
    BY Zenon, <1>12, SumsFrame DEF cap, amount
  <1>15. RefundWrites(c)'
    BY <1>2, <1>5, <1>7, <1>8, <1>9, <1>12, <1>14 DEF RefundWrites, cap, amount
  <1>16. Covered(c)' \/ place # "check"
    <2>1. /\ reserved' = reserved /\ writes'[c].reserved = 0
          /\ writes'[c].entries["available"] = -availableUse /\ Owed("available")' = Owed("available")
      BY Zenon, <1>8, <1>9, <1>12 DEF Owed
    <2>2. CASE availableUse # 0
      <3>1. reserved + 0 <= Owed("available") + (-availableUse)
        BY ONLY <1>6, <1>7, <2>2
      <3> QED BY Zenon, <2>1, <3>1 DEF Covered
    <2> QED BY Zenon, <1>11, <2>2
  <1>17. PlaceInv(c)'
    BY Zenon, <1>1, <1>11, <1>12, <1>13, <1>15, <1>16 DEF PlaceInv
  <1> QED BY Zenon, <1>0, <1>2, <1>3, <1>9, <1>10, <1>17, Move

\* A transaction that fails leaves nothing behind.
LEMMA FailsStep ==
  ASSUME FundsInv, NEW c \in Clients, Fails(c), pc[c] \in {"index", "check"},
         UNCHANGED moneyVars, UNCHANGED paid, rejected' \subseteq {"VERSION", "CONSTRAINT"}
  PROVE  FundsInv'
  <1>1. CASE job[c].kind = "create" /\ ~job[c].retried
    <2>1. CreateInHand(c)
      <3>1. PlaceInv(c)
        BY Zenon DEF FundsInv
      <3> QED BY Zenon, <1>1, <3>1 DEF PlaceInv, RefundInHand, RetryInHand, ObserveInHand, HasJob
    <2> QED BY Zenon, <1>1, <2>1, AgainStep DEF Fails
  <1>2. CASE ~(job[c].kind = "create" /\ ~job[c].retried)
    BY Zenon, <1>2, RollbackStep DEF Fails
  <1> QED BY Zenon, <1>1, <1>2

\* A restarted payout creation looks its key up.
LEMMA CreateLookupStep ==
  ASSUME FundsInv, NEW c \in Clients, CreateLookup(c)
  PROVE  FundsInv'
  <1>0. TypeOK /\ PlaceInv(c) /\ pc[c] = "lookup" /\ UNCHANGED <<moneyVars, paid, rejected>>
        /\ rejected \subseteq {"VERSION", "CONSTRAINT"}
    BY Zenon DEF FundsInv, CreateLookup, RowsInv
  <1>1. CASE payout[job[c].target] # None
    BY Zenon, <1>0, <1>1, RollbackStep DEF CreateLookup
  <1>2. CASE payout[job[c].target] = None
    <2>1. CreateInHand(c) /\ lock[c] = "none"
      BY Zenon, <1>0 DEF PlaceInv
    <2>2. MovesTo(c, "read", job[c], seen[c], writes[c], lock[c]) /\ UNCHANGED advisory
      BY Zenon, <1>0, <1>2, TypeFacts DEF CreateLookup, MovesTo, Goto, TypeOK, lockVars
    <2>3. /\ job[c] \in Jobs /\ seen[c] \in Reads /\ writes[c] \in Writes
          /\ lock[c] \in LockModes /\ "read" \in Places
      BY Zenon, <1>0, TypeFacts DEF Places
    <2>4. pc'[c] = "read" /\ job'[c] = job[c] /\ lock'[c] = lock[c]
      <3>1. Moved(c, "read", job[c], seen[c], writes[c], lock[c])
        BY Zenon, <1>0, <2>2, MoveEffect
      <3> QED BY Zenon, <3>1 DEF Moved
    <2>5. PlaceInv(c)'
      BY Zenon, <2>1, <2>4 DEF PlaceInv, CreateInHand, HasJob
    <2> QED BY Zenon, <1>0, <2>2, <2>3, <2>5, Move
  <1> QED BY Zenon, <1>1, <1>2

\* A payout creation reads the balance, under the lock or not.
LEMMA CreateReadStep ==
  ASSUME FundsInv, NEW c \in Clients, CreateRead(c)
  PROVE  FundsInv'
  <1> DEFINE s == [available |-> Owed("available"), version |-> version]
             mode == IF job[c].guard = "ROW_LOCK" THEN "update" ELSE lock[c]
  <1>0. TypeOK /\ PlaceInv(c) /\ pc[c] = "read"
    BY Zenon DEF FundsInv, CreateRead
  <1>1. CreateInHand(c) /\ lock[c] = "none"
    BY Zenon, <1>0 DEF PlaceInv
  <1>2. s \in Reads /\ s.available = Owed("available")
    BY Zenon, <1>0, OwedInt DEF Reads, Accounts, TypeOK
  <1>3. /\ MovesTo(c, "reserve", job[c], s, writes[c], mode) /\ UNCHANGED advisory
        /\ job[c].guard = "ROW_LOCK" => Grantable(c, "update")
    BY Zenon, <1>0, TypeFacts DEF CreateRead, MovesTo, Goto, TypeOK
  <1>4. /\ job[c] \in Jobs /\ writes[c] \in Writes /\ mode \in LockModes /\ "reserve" \in Places
    BY Zenon, <1>0, TypeFacts DEF Places, LockModes
  <1>5. mode = lock[c] \/ (mode = "update" /\ Grantable(c, "update"))
    BY Zenon, <1>3
  <1>6. mode = IF job[c].guard = "ROW_LOCK" THEN "update" ELSE "none"
    BY Zenon, <1>1
  <1> HIDE DEF s, mode
  <1>7. /\ pc'[c] = "reserve" /\ job'[c] = job[c] /\ seen'[c] = s /\ lock'[c] = mode
        /\ ledger' = ledger
    <2>1. Moved(c, "reserve", job[c], s, writes[c], mode)
      BY Zenon, <1>0, <1>3, MoveEffect
    <2> QED BY Zenon, <2>1 DEF Moved
  <1>8. PlaceInv(c)'
    BY Zenon, <1>1, <1>2, <1>6, <1>7 DEF PlaceInv, CreateInHand, HasJob, Owed
  <1> QED BY Zenon, <1>0, <1>2, <1>3, <1>4, <1>5, <1>8, Move

\* A payout creation finds the amount eligible; under the lock it stays so.
LEMMA CreateAcceptStep ==
  ASSUME FundsInv, NEW c \in Clients, CreateAccept(c)
  PROVE  FundsInv'
  <1> USE ConstantsAssumption
  <1>0. /\ TypeOK /\ PlaceInv(c) /\ pc[c] = "reserve" /\ job[c].kind = "create" /\ ~Overdraws(c)
    BY Zenon DEF FundsInv, CreateAccept
  <1>1. CreateInHand(c) /\ lock[c] = IF job[c].guard = "ROW_LOCK" THEN "update" ELSE "none"
    BY Zenon, <1>0 DEF PlaceInv, RetryInHand, HasJob
  <1>2. MovesTo(c, "index", job[c], seen[c], writes[c], lock[c]) /\ UNCHANGED advisory
    BY Zenon, <1>0, TypeFacts DEF CreateAccept, MovesTo, Goto, TypeOK, lockVars
  <1>3. /\ job[c] \in Jobs /\ seen[c] \in Reads /\ writes[c] \in Writes
        /\ lock[c] \in LockModes /\ "index" \in Places
    BY Zenon, <1>0, TypeFacts DEF Places
  <1>4. /\ pc'[c] = "index" /\ job'[c] = job[c] /\ lock'[c] = lock[c]
        /\ ledger' = ledger /\ reserved' = reserved
    <2>1. Moved(c, "index", job[c], seen[c], writes[c], lock[c])
      BY Zenon, <1>0, <1>2, MoveEffect
    <2> QED BY Zenon, <2>1 DEF Moved
  <1>5. lock[c] = "update" => Fits(c)
    <2> SUFFICES ASSUME lock[c] = "update" PROVE Fits(c)
      BY Zenon
    <2>1. job[c].guard = "ROW_LOCK" /\ seen[c].available = Owed("available")
      BY Zenon, <1>0, <1>1 DEF PlaceInv
    <2>2. Owed("available") \in Int /\ reserved \in Nat /\ job[c].amount \in Nat \ {0}
      BY Zenon, <1>0, <1>1, OwedInt DEF TypeOK, Accounts, CreateInHand, HasJob
    <2>3. ~(job[c].amount > Larger(Owed("available") - reserved, 0))
      BY Zenon, <1>0, <2>1 DEF Overdraws, Eligible
    <2> QED BY <2>2, <2>3 DEF Larger, Fits
  <1>6. PlaceInv(c)'
    BY Zenon, <1>1, <1>4, <1>5 DEF PlaceInv, CreateInHand, HasJob, Fits, Owed
  <1> QED BY Zenon, <1>0, <1>2, <1>3, <1>6, Move

\* A payout creation enters the unique index, alone with its key.
LEMMA CreateIndexStep ==
  ASSUME FundsInv, NEW c \in Clients, CreateIndex(c)
  PROVE  FundsInv'
  <1>0. /\ TypeOK /\ PlaceInv(c) /\ pc[c] = "index" /\ UNCHANGED <<moneyVars, paid, rejected>>
        /\ rejected \subseteq {"VERSION", "CONSTRAINT"}
        /\ \A d \in Clients \ {c} : Entered(d) => job[d].target # job[c].target
    BY Zenon DEF FundsInv, CreateIndex, RowsInv
  <1>1. CASE payout[job[c].target] # None
    <2>1. Fails(c)
      BY Zenon, <1>1 DEF CreateIndex
    <2> QED BY Zenon, <1>0, <2>1, FailsStep
  <1>2. CASE payout[job[c].target] = None
    <2>1. /\ CreateInHand(c) /\ lock[c] = IF job[c].guard = "ROW_LOCK" THEN "update" ELSE "none"
          /\ lock[c] = "update" => Fits(c)
      BY Zenon, <1>0 DEF PlaceInv
    <2>2. MovesTo(c, "row", job[c], seen[c], writes[c], lock[c]) /\ UNCHANGED advisory
      BY Zenon, <1>0, <1>2, TypeFacts DEF CreateIndex, MovesTo, Goto, TypeOK, lockVars
    <2>3. /\ job[c] \in Jobs /\ seen[c] \in Reads /\ writes[c] \in Writes
          /\ lock[c] \in LockModes /\ "row" \in Places
      BY Zenon, <1>0, TypeFacts DEF Places
    <2>4. /\ pc'[c] = "row" /\ job'[c] = job[c] /\ lock'[c] = lock[c]
          /\ ledger' = ledger /\ reserved' = reserved /\ payout' = payout
      <3>1. Moved(c, "row", job[c], seen[c], writes[c], lock[c])
        BY Zenon, <1>0, <2>2, MoveEffect
      <3> QED BY Zenon, <3>1 DEF Moved
    <2>5. PlaceInv(c)'
      BY Zenon, <1>2, <2>1, <2>4 DEF PlaceInv, CreateInHand, HasJob, Fits, Owed
    <2> QED BY Zenon, <1>0, <2>2, <2>3, <2>5, Move
  <1> QED BY Zenon, <1>1, <1>2

\* A payout creation inserts its rows and its reservation, under any guard.
LEMMA CreateInsertStep ==
  ASSUME FundsInv, NEW c \in Clients, CreateInsert(c)
  PROVE  FundsInv'
  <1> USE ConstantsAssumption
  <1> DEFINE w == [NoWrites EXCEPT !.reserved = job[c].amount]
             mode == IF lock[c] \in {"update", "no key update"} THEN lock[c] ELSE "key share"
             place == IF job[c].guard = "VERSION" THEN "version" ELSE "check"
  <1>0. TypeOK /\ PlaceInv(c) /\ pc[c] = "row" /\ Grantable(c, "key share")
    BY Zenon DEF FundsInv, CreateInsert, Insertable
  <1>1. /\ CreateInHand(c) /\ lock[c] = IF job[c].guard = "ROW_LOCK" THEN "update" ELSE "none"
        /\ lock[c] = "update" => Fits(c)
        /\ payout[job[c].target] = None /\ Entered(c)
    BY Zenon, <1>0 DEF PlaceInv, Entered, CreateInHand, HasJob
  <1>2. MovesTo(c, place, job[c], seen[c], w, mode) /\ UNCHANGED advisory
    BY Zenon, <1>0, TypeFacts DEF CreateInsert, MovesTo, Goto, TypeOK, Stronger
  <1>3. /\ w \in Writes /\ w.reserved = job[c].amount /\ w.entries["available"] = 0
        /\ job[c].amount \in Nat \ {0}
    BY <1>1, Blanks DEF Writes, NoWrites, NoEntries, Accounts, CreateInHand, HasJob
  <1>4. /\ mode \in LockModes /\ mode # "none" /\ place \in Places /\ place # "commit"
        /\ job[c] \in Jobs /\ seen[c] \in Reads
        /\ job[c].guard = "ROW_LOCK" <=> mode = "update"
        /\ place = "version" => job[c].guard = "VERSION" /\ mode = "key share"
        /\ place \in {"version", "check"}
        /\ mode = lock[c] \/ (mode # "update" /\ Grantable(c, "key share"))
    BY Zenon, <1>0, <1>1, TypeFacts DEF LockModes, Places
  <1> HIDE DEF w, mode, place
  <1>5. /\ pc'[c] = place /\ job'[c] = job[c] /\ writes'[c] = w /\ lock'[c] = mode
        /\ ledger' = ledger /\ payout' = payout /\ reserved' = reserved
    <2>1. Moved(c, place, job[c], seen[c], w, mode)
      BY Zenon, <1>0, <1>2, MoveEffect
    <2> QED BY Zenon, <2>1 DEF Moved
  <1>6. mode = "update" => Covered(c)'
    <2> SUFFICES ASSUME mode = "update" PROVE Covered(c)'
      BY Zenon
    <2>1. Fits(c)
      BY Zenon, <1>1, <1>4
    <2>2. Owed("available") \in Int /\ reserved \in Nat
      BY Zenon, <1>0, OwedInt DEF TypeOK, Accounts
    <2>3. Owed("available")' = Owed("available")
      BY Zenon, <1>5 DEF Owed
    <2> QED BY <1>3, <1>5, <2>1, <2>2, <2>3 DEF Covered, Fits
  <1>7. PlaceInv(c)'
    <2>1. writes'[c] = [NoWrites EXCEPT !.reserved = job[c].amount]
      BY Zenon, <1>5 DEF w
    <2> QED BY Zenon, <1>1, <1>4, <1>5, <1>6, <2>1 DEF PlaceInv, CreateInHand, HasJob
  <1> QED BY Zenon, <1>0, <1>1, <1>2, <1>3, <1>4, <1>7, Move

\* A payout creation advances the version it read, or starts again.
LEMMA CreateAdvanceStep ==
  ASSUME FundsInv, NEW c \in Clients, CreateAdvance(c)
  PROVE  FundsInv'
  <1>0. /\ TypeOK /\ PlaceInv(c) /\ pc[c] = "version" /\ Grantable(c, "no key update")
        /\ UNCHANGED <<moneyVars, paid, rejected>> /\ rejected \subseteq {"VERSION", "CONSTRAINT"}
    BY Zenon DEF FundsInv, CreateAdvance, RowsInv
  <1>1. /\ CreateInHand(c) /\ job[c].guard = "VERSION" /\ lock[c] = "key share"
        /\ payout[job[c].target] = None /\ Entered(c)
        /\ writes[c] = [NoWrites EXCEPT !.reserved = job[c].amount]
    BY Zenon, <1>0 DEF PlaceInv, Entered, CreateInHand, HasJob
  <1>2. CASE version # seen[c].version
    <2>1. Again(c) /\ job' = [job EXCEPT ![c].retried = FALSE]
      BY Zenon, <1>2 DEF CreateAdvance
    <2> QED BY Zenon, <1>0, <1>1, <2>1, AgainStep
  <1>3. CASE version = seen[c].version
    <2>1. MovesTo(c, "check", job[c], seen[c], writes[c], "no key update") /\ UNCHANGED advisory
      BY Zenon, <1>0, <1>3, TypeFacts DEF CreateAdvance, MovesTo, Goto, TypeOK
    <2>2. /\ job[c] \in Jobs /\ seen[c] \in Reads /\ writes[c] \in Writes
          /\ "no key update" \in LockModes /\ "check" \in Places
          /\ Grantable(c, "key share")
      <3>1. Grantable(c, "key share")
        BY Zenon, <1>0 DEF Grantable, Conflicts
      <3> QED BY Zenon, <1>0, <3>1, TypeFacts DEF Places, LockModes
    <2>3. /\ pc'[c] = "check" /\ job'[c] = job[c] /\ writes'[c] = writes[c]
          /\ lock'[c] = "no key update" /\ payout' = payout
      <3>1. Moved(c, "check", job[c], seen[c], writes[c], "no key update")
        BY Zenon, <1>0, <2>1, MoveEffect
      <3> QED BY Zenon, <3>1 DEF Moved
    <2>4. PlaceInv(c)'
      BY Zenon, <1>1, <2>3 DEF PlaceInv, CreateInHand, HasJob
    <2> QED BY Zenon, <1>0, <1>1, <2>1, <2>2, <2>4, Move
  <1> QED BY Zenon, <1>2, <1>3

-----------------------------------------------------------------------------
(* Retries, bank results and the coverage check.                           *)

\* A request that is refused leaves nothing behind.
LEMMA RefusedStep ==
  ASSUME FundsInv, NEW c \in Clients, CreateRefuse(c) \/ Abort(c)
  PROVE  FundsInv'
  <1>1. /\ Rollback(c) /\ UNCHANGED moneyVars /\ UNCHANGED paid
        /\ rejected' \subseteq {"VERSION", "CONSTRAINT"}
    BY Zenon DEF CreateRefuse, Abort, FundsInv, RowsInv
  <1> QED BY Zenon, <1>1, RollbackStep

\* A retry locks the merchant account after its payout and reads the balance.
LEMMA RetryReadStep ==
  ASSUME FundsInv, NEW c \in Clients, RetryRead(c)
  PROVE  FundsInv'
  <1> USE ConstantsAssumption
  <1> DEFINE s == [NoRead EXCEPT !.available = Owed("available")]
             t == job[c].target
  <1>0. /\ TypeOK /\ PlaceInv(c) /\ pc[c] = "retry"
        /\ UNCHANGED moneyVars /\ UNCHANGED paid
        /\ rejected' = rejected /\ rejected \subseteq {"VERSION", "CONSTRAINT"}
    BY Zenon DEF FundsInv, RetryRead, RowsInv
  <1>1. /\ HasJob(c, {"retry"}) /\ lock[c] = "none" /\ t \in Payouts /\ payoutLock[t] = c
        /\ payout[t] # None /\ payout[t].amount = job[c].amount
    BY Zenon, <1>0 DEF PlaceInv
  <1>2. CASE payout[t].status # "FAILED"
    <2>1. Rollback(c)
      BY Zenon, <1>2 DEF RetryRead
    <2> QED BY Zenon, <1>0, <2>1, RollbackStep
  <1>3. CASE payout[t].status = "FAILED"
    <2>1. /\ MovesTo(c, "reserve", job[c], s, writes[c], "update") /\ UNCHANGED advisory
          /\ payoutLock' = [payoutLock EXCEPT ![t] = c] /\ Grantable(c, "update")
      <3>1. /\ pc' = [pc EXCEPT ![c] = "reserve"] /\ seen' = [seen EXCEPT ![c] = s]
            /\ lock' = [lock EXCEPT ![c] = "update"]
            /\ job' = job /\ writes' = writes /\ UNCHANGED advisory
            /\ payoutLock' = [payoutLock EXCEPT ![t] = c] /\ Grantable(c, "update")
        BY Zenon, <1>3 DEF RetryRead, Goto
      <3>2. /\ payoutLock' \in [Payouts -> Clients \cup {None}]
            /\ \A p \in Payouts : payoutLock[p] \in Clients \ {c} => payoutLock'[p] = payoutLock[p]
        BY Zenon, <1>0, <1>1, <3>1 DEF TypeOK
      <3>3. job' = [job EXCEPT ![c] = job[c]] /\ writes' = [writes EXCEPT ![c] = writes[c]]
        BY Zenon, <1>0, <3>1, TypeFacts
      <3> QED BY Zenon, <1>0, <3>1, <3>2, <3>3 DEF MovesTo
    <2>2. s \in Reads /\ s.available = Owed("available")
      BY Zenon, <1>0, OwedInt DEF NoRead, Reads, Accounts
    <2>3. job[c] \in Jobs /\ writes[c] \in Writes /\ "reserve" \in Places /\ "update" \in LockModes
      BY Zenon, <1>0, TypeFacts DEF Places, LockModes
    <2> HIDE DEF s
    <2>4. /\ pc'[c] = "reserve" /\ job'[c] = job[c] /\ seen'[c] = s /\ lock'[c] = "update"
          /\ ledger' = ledger /\ payout' = payout
      <3>1. Moved(c, "reserve", job[c], s, writes[c], "update")
        BY Zenon, <1>0, <2>1, MoveEffect
      <3> QED BY Zenon, <3>1 DEF Moved
    <2>5. payoutLock'[t] = c
      BY Zenon, <1>0, <1>1, <2>1 DEF TypeOK
    <2>6. RetryInHand(c)'
      BY Zenon, <1>1, <1>3, <2>4, <2>5 DEF RetryInHand, HoldsPayout, HasJob
    <2>7. PlaceInv(c)'
      BY Zenon, <2>2, <2>4, <2>6 DEF PlaceInv, Owed
    <2> QED BY Zenon, <1>0, <2>1, <2>2, <2>3, <2>7, Move
  <1> QED BY Zenon, <1>2, <1>3

\* A retry reserves the amount of its payout again.
LEMMA RetryReserveStep ==
  ASSUME FundsInv, NEW c \in Clients, RetryReserve(c)
  PROVE  FundsInv'
  <1> USE ConstantsAssumption
  <1> DEFINE w == [NoWrites EXCEPT !.reserved = job[c].amount]
  <1>0. /\ TypeOK /\ PlaceInv(c) /\ pc[c] = "reserve" /\ job[c].kind = "retry"
        /\ UNCHANGED moneyVars /\ UNCHANGED paid
        /\ rejected' = rejected /\ rejected \subseteq {"VERSION", "CONSTRAINT"}
    BY Zenon DEF FundsInv, RetryReserve, RowsInv
  <1>1. RetryInHand(c) /\ lock[c] = "update" /\ seen[c].available = Owed("available")
    BY Zenon, <1>0 DEF PlaceInv, CreateInHand, HasJob, RetryInHand
  <1>2. CASE Eligible(seen[c].available) < job[c].amount
    <2>1. Rollback(c)
      BY Zenon, <1>2 DEF RetryReserve
    <2> QED BY Zenon, <1>0, <2>1, RollbackStep
  <1>3. CASE ~(Eligible(seen[c].available) < job[c].amount)
    <2>1. MovesTo(c, "check", job[c], seen[c], w, lock[c]) /\ UNCHANGED advisory
      BY Zenon, <1>0, <1>3, TypeFacts DEF RetryReserve, MovesTo, Goto, TypeOK, lockVars, Reacquired
    <2>2. /\ w \in Writes /\ w.reserved = job[c].amount /\ w.entries["available"] = 0
          /\ job[c].amount \in Nat \ {0}
      BY <1>1, Blanks DEF Writes, NoWrites, NoEntries, Accounts, RetryInHand, HasJob
    <2> HIDE DEF w
    <2>3. /\ "check" \in Places /\ job[c] \in Jobs /\ seen[c] \in Reads
          /\ w \in Writes /\ lock[c] \in LockModes /\ TypeOK
      BY Zenon, <1>0, <2>2, TypeFacts DEF Places
    <2>4. /\ pc'[c] = "check" /\ job'[c] = job[c] /\ seen'[c] = seen[c] /\ writes'[c] = w
          /\ lock'[c] = lock[c] /\ Elsewhere(c)
          /\ ledger' = ledger /\ payout' = payout /\ reserved' = reserved
      <3>1. Moved(c, "check", job[c], seen[c], w, lock[c])
        BY Zenon, <1>0, <2>1, MoveEffect
      <3> QED BY Zenon, <3>1 DEF Moved
    <2>5. Covered(c)'
      <3>1. Owed("available") \in Int /\ reserved \in Nat
        BY Zenon, <1>0, OwedInt DEF TypeOK, Accounts
      <3>2. ~(Larger(Owed("available") - reserved, 0) < job[c].amount)
        BY Zenon, <1>1, <1>3 DEF Eligible
      <3>3. reserved + job[c].amount <= Owed("available")
        BY <2>2, <3>1, <3>2 DEF Larger
      <3>4. Owed("available")' = Owed("available")
        BY Zenon, <2>4 DEF Owed
      <3> QED BY <2>2, <2>4, <3>1, <3>3, <3>4 DEF Covered
    <2>6. RetryInHand(c)'
      <3>1. payoutLock' = payoutLock
        BY Zenon, <1>3 DEF RetryReserve, lockVars
      <3> QED BY Zenon, <1>1, <2>4, <3>1 DEF RetryInHand, HoldsPayout, HasJob
    <2>7. PlaceInv(c)'
      <3>1. writes'[c] = [NoWrites EXCEPT !.reserved = job[c].amount]
        BY Zenon, <2>4 DEF w
      <3> QED BY Zenon, <1>1, <2>4, <2>5, <2>6, <3>1 DEF PlaceInv
    <2>8. job[c].kind # "create"
      BY Zenon, <1>0
    <2> QED BY Zenon, <1>0, <2>1, <2>2, <2>3, <2>7, <2>8, Move
  <1> QED BY Zenon, <1>2, <1>3

\* A bank result inserts the release of the reservation and, if paid, the journal.
LEMMA ObserveInsertStep ==
  ASSUME FundsInv, NEW c \in Clients, ObserveInsert(c)
  PROVE  FundsInv'
  <1> USE ConstantsAssumption
  <1> DEFINE amount == job[c].amount
             e == IF job[c].end = "FAILED" THEN NoEntries
                  ELSE [NoEntries EXCEPT !["available"] = -amount, !["clearing"] = amount]
             w == [entries |-> e, reserved |-> -amount, pendingUse |-> 0]
  <1>0. /\ TypeOK /\ PlaceInv(c) /\ pc[c] = "insert" /\ Grantable(c, "key share")
    BY Zenon DEF FundsInv, ObserveInsert, Insertable
  <1>1. ObserveInHand(c) /\ lock[c] = "none"
    BY Zenon, <1>0 DEF PlaceInv
  <1>2. amount \in Nat \ {0} /\ job[c].kind = "observe" /\ job[c].end \in {"SUCCEEDED", "FAILED"}
    BY Zenon, <1>1 DEF ObserveInHand, HasJob
  <1>3. MovesTo(c, "check", job[c], seen[c], w, "key share") /\ UNCHANGED advisory
        /\ payoutLock' = payoutLock
    BY Zenon, <1>0, TypeFacts DEF ObserveInsert, MovesTo, Goto, TypeOK, Released
  <1>4. /\ e \in [Accounts -> Int] /\ e["pending"] = 0 /\ e["receivable"] = 0
        /\ e["clearing"] = IF job[c].end = "SUCCEEDED" THEN amount ELSE 0
        /\ e["available"] = -e["clearing"]
    <2>1. /\ NoEntries \in [Accounts -> Int] /\ \A a \in Accounts : NoEntries[a] = 0
          /\ -amount \in Int /\ amount \in Int
      BY <1>2 DEF NoEntries
    <2> HIDE DEF amount
    <2>2. CASE job[c].end = "FAILED"
      BY <2>1, <2>2 DEF Accounts
    <2>3. CASE job[c].end = "SUCCEEDED"
      BY Zenon, <2>1, <2>3 DEF Accounts
    <2> QED BY Zenon, <1>2, <2>2, <2>3
  <1> HIDE DEF e
  <1>5. w \in Writes /\ w.entries = e /\ w.reserved = -amount
    BY <1>2, <1>4 DEF Writes
  <1> HIDE DEF w
  <1>6. /\ "check" \in Places /\ job[c] \in Jobs /\ seen[c] \in Reads
        /\ w \in Writes /\ "key share" \in LockModes /\ TypeOK
    BY Zenon, <1>0, <1>5, TypeFacts DEF Places, LockModes
  <1>7. /\ pc'[c] = "check" /\ job'[c] = job[c] /\ seen'[c] = seen[c] /\ writes'[c] = w
        /\ lock'[c] = "key share" /\ payout' = payout /\ paid' = paid
    <2> HIDE DEF amount
    <2>1. MovesTo(c, "check", job[c], seen[c], w, "key share")
      BY Zenon, <1>3
    <2>2. /\ pc'[c] = "check" /\ job'[c] = job[c] /\ seen'[c] = seen[c] /\ writes'[c] = w
          /\ lock'[c] = "key share"
      BY Zenon, <1>0, <2>1 DEF MovesTo, TypeOK
    <2> QED BY Zenon, <2>1, <2>2 DEF MovesTo, moneyVars
  <1>8. ObserveInHand(c)'
    BY Zenon, <1>1, <1>3, <1>7 DEF ObserveInHand, HoldsPayout, HasJob
  <1>9. ObserveWrites(c)'
    BY Zenon, <1>4, <1>5, <1>7 DEF ObserveWrites
  <1>10. PlaceInv(c)'
    BY Zenon, <1>7, <1>8, <1>9 DEF PlaceInv
  <1> QED BY Zenon, <1>0, <1>2, <1>3, <1>6, <1>10, Move

\* The trigger lets the session commit, or it turns down a payout created
\* without the merchant lock: under the lock the check was anticipated, and a
\* bank result frees at least what it spends.
LEMMA CheckCoverageStep ==
  ASSUME FundsInv, NEW c \in Clients, CheckCoverage(c)
  PROVE  FundsInv'
  <1> USE ConstantsAssumption
  <1>0. /\ TypeOK /\ PlaceInv(c) /\ AdvisoryInv /\ OneInsert /\ pc[c] = "check"
        /\ UNCHANGED moneyVars /\ UNCHANGED paid /\ rejected \subseteq {"VERSION", "CONSTRAINT"}
        /\ ReservationsCovered
    BY Zenon DEF FundsInv, CheckCoverage, RowsInv
  <1>1. CASE Covered(c) /\ AdvisoryLock(c) /\ Goto(c, "commit")
             /\ UNCHANGED <<lock, payoutLock, job, seen, writes, rejected>>
    <2>1. /\ pc'[c] = "commit" /\ \A d \in Clients \ {c} : pc'[d] = pc[d]
          /\ pc' \in [Clients -> Places]
      BY Zenon, <1>0, <1>1 DEF Goto, TypeOK, Places
    <2>2. TypeOK'
      BY Zenon, <1>0, <1>1, <2>1 DEF TypeOK, AdvisoryLock, moneyVars
    <2>3. Elsewhere(c)
      BY Zenon, <1>1, <2>1 DEF Elsewhere
    <2>4. PlaceInv(c)'
      <3>1. /\ RefundInHand(c)' = RefundInHand(c) /\ RefundWrites(c)' = RefundWrites(c)
        <4>1. /\ UNCHANGED <<capture, settlement, refund>> /\ job' = job /\ writes' = writes
              /\ lock' = lock
          BY Zenon, <1>0, <1>1 DEF moneyVars
        <4>2. Left(job[c].capture)' = Left(job[c].capture)
          BY Zenon, <4>1, SumsFrame
        <4> QED BY Zenon, <4>1, <4>2 DEF RefundInHand, RefundWrites, HasJob
      <3>2. /\ CreateInHand(c)' = CreateInHand(c) /\ RetryInHand(c)' = RetryInHand(c)
            /\ ObserveInHand(c)' = ObserveInHand(c) /\ ObserveWrites(c)' = ObserveWrites(c)
        BY Zenon, <1>0, <1>1 DEF CreateInHand, RetryInHand, ObserveInHand, ObserveWrites, HasJob,
                          HoldsPayout, moneyVars
      <3> QED BY Zenon, <1>0, <1>1, <2>1, <3>1, <3>2 DEF PlaceInv, moneyVars
    <2>5. OneInsert'
      BY Zenon, <1>0, <1>1, <2>1, OneInsertStep DEF Entered
    <2>6. AdvisoryInv'
      BY Zenon, <1>0, <1>1, <2>1 DEF AdvisoryInv, AdvisoryLock, Covered, Owed, moneyVars
    <2> QED BY Zenon, <1>0, <1>1, <2>2, <2>3, <2>4, <2>5, <2>6, SessionStep
  <1>2. CASE /\ ~Covered(c) /\ Fails(c)
             /\ rejected' = rejected \cup {IF job[c].kind = "create" THEN job[c].guard ELSE job[c].kind}
    <2>1. lock[c] # "update"
      BY Zenon, <1>0, <1>2 DEF PlaceInv
    <2>2. ~(RefundInHand(c) \/ RetryInHand(c))
      BY Zenon, <2>1 DEF RefundInHand, RetryInHand
    <2>3. ASSUME ObserveInHand(c), ObserveWrites(c) PROVE FALSE
      <3>1. job[c].amount \in Nat
        BY Zenon, <2>3 DEF ObserveInHand, HasJob
      <3>2. reserved \in Int /\ Owed("available") \in Int /\ reserved <= Owed("available")
        BY <1>0, OwedInt DEF TypeOK, ReservationsCovered, Accounts
      <3>3. /\ writes[c].reserved = -job[c].amount
            /\ writes[c].entries["available"] = -job[c].amount \/ writes[c].entries["available"] = 0
        <4>1. /\ writes[c].reserved = -job[c].amount
              /\ writes[c].entries["available"] = -writes[c].entries["clearing"]
              /\ writes[c].entries["clearing"] = job[c].amount \/ writes[c].entries["clearing"] = 0
          BY Zenon, <2>3 DEF ObserveWrites
        <4> QED BY <4>1
      <3> QED BY <1>2, <3>1, <3>2, <3>3 DEF Covered
    <2>4. CreateInHand(c) /\ (job[c].guard = "ROW_LOCK" => lock[c] = "update")
      BY Zenon, <1>0, <2>2, <2>3 DEF PlaceInv
    <2>5. job[c].kind = "create" /\ job[c].guard \in {"VERSION", "CONSTRAINT"}
      BY Zenon, <2>1, <2>4 DEF CreateInHand, HasJob
    <2>6. rejected' \subseteq {"VERSION", "CONSTRAINT"}
      BY Zenon, <1>0, <1>2, <2>5
    <2> QED BY Zenon, <1>0, <1>2, <2>6, FailsStep
  <1> QED BY Zenon, <1>1, <1>2 DEF CheckCoverage

-----------------------------------------------------------------------------
(* The bank and captures.                                                  *)

\* What posting entries does to the balances.
LEMMA PostedOwed ==
  ASSUME TypeOK, NEW e \in [Accounts -> Int], ledger' = Posted(e)
  PROVE  /\ ledger' \in [Accounts -> Int]
         /\ Owed("pending")' = Owed("pending") + e["pending"]
         /\ Owed("available")' = Owed("available") + e["available"]
         /\ Owed("clearing")' = Owed("clearing") + e["clearing"]
         /\ Owed("receivable")' = Owed("receivable") - e["receivable"]
         /\ Owed("pending") \in Int /\ Owed("available") \in Int /\ Owed("clearing") \in Int
         /\ Owed("receivable") \in Int
         /\ e["pending"] \in Int /\ e["available"] \in Int /\ e["clearing"] \in Int
         /\ e["receivable"] \in Int
  BY DEF TypeOK, Posted, Owed, Accounts

\* The bank pays an open payout.
LEMMA BankPaysStep ==
  ASSUME FundsInv, NEW p \in Payouts, BankPays(p)
  PROVE  FundsInv'
  <1> USE ConstantsAssumption
  <1>0. /\ TypeOK /\ LocksExclude /\ AdvisoryInv /\ OneInsert /\ RowsInv
        /\ ReservationsCovered /\ PayoutsAccounted /\ MerchantIsOwed /\ PendingBacked
        /\ \A d \in Clients : PlaceInv(d)
    BY Zenon DEF FundsInv
  <1>1. /\ payout[p] # None /\ payout[p].status = "OPEN" /\ paid' = paid \cup {p}
        /\ UNCHANGED moneyVars
        /\ lock' = lock /\ payoutLock' = payoutLock /\ advisory' = advisory
        /\ pc' = pc /\ job' = job /\ seen' = seen /\ writes' = writes /\ rejected' = rejected
    BY Zenon DEF BankPays, lockVars, txVars
  <1>2. TypeOK' /\ LocksExclude' /\ AdvisoryInv' /\ OneInsert'
    <2>1. TypeOK'
      BY Zenon, <1>0, <1>1 DEF TypeOK, moneyVars
    <2>2. LocksExclude' /\ OneInsert'
      BY Zenon, <1>0, <1>1 DEF LocksExclude, OneInsert, Entered
    <2>3. AdvisoryInv'
      BY Zenon, <1>0, <1>1 DEF AdvisoryInv, Covered, Owed, moneyVars
    <2> QED BY Zenon, <2>1, <2>2, <2>3
  <1>3. ASSUME NEW d \in Clients PROVE PlaceInv(d)'
    <2>1. PlaceInv(d)
      BY Zenon, <1>0
    <2>2. job[d].kind = "observe" => (job[d].target \in paid' <=> job[d].target \in paid)
      BY Zenon, <1>1 DEF BankPays
    <2>3. /\ pc'[d] = pc[d] /\ job'[d] = job[d] /\ seen'[d] = seen[d] /\ writes'[d] = writes[d]
          /\ lock'[d] = lock[d]
          /\ UNCHANGED <<ledger, capture, settlement, refund, reserved>>
          /\ \A q \in Payouts : payoutLock[q] = d => payoutLock'[q] = d /\ payout'[q] = payout[q]
          /\ payout'[job[d].target] = payout[job[d].target]
      BY Zenon, <1>1 DEF moneyVars
    <2> QED BY Zenon, <1>0, <2>1, <2>2, <2>3, PlaceFrame
  <1>4. RowsInv'
    BY Zenon, <1>0, <1>1 DEF RowsInv, moneyVars
  <1>5. ReservationsCovered' /\ MerchantIsOwed' /\ PendingBacked'
    BY Zenon, <1>0, <1>1, MoneyFrame
  <1>6. PayoutsAccounted'
    <2>1. \A q \in Payouts : (q \in paid' /\ payout[q].status = "SUCCEEDED")
                               <=> (q \in paid /\ payout[q].status = "SUCCEEDED")
      BY Zenon, <1>1
    <2>2. [q \in Payouts |-> IF q \in paid' /\ payout[q].status = "SUCCEEDED" THEN payout[q].amount ELSE 0]
          = [q \in Payouts |-> IF q \in paid /\ payout[q].status = "SUCCEEDED" THEN payout[q].amount ELSE 0]
      BY Zenon, <2>1
    <2> QED BY Zenon, <1>0, <1>1, <2>2 DEF PayoutsAccounted, moneyVars, Owed
  <1> QED BY Zenon, <1>2, <1>3, <1>4, <1>5, <1>6 DEF FundsInv

\* The finalizer posts a capture: pending grows by the net, and so does what is left.
LEMMA PostCaptureStep ==
  ASSUME FundsInv, NEW c \in Captures, NEW gross \in Amounts, NEW net \in 0..gross,
         PostCapture(c, gross, net)
  PROVE  FundsInv'
  <1> USE ConstantsAssumption
  <1> DEFINE e == [NoEntries EXCEPT !["provider"] = -gross, !["pending"] = PendingShare(gross, net),
                                    !["fees"] = gross - PendingShare(gross, net)]
  <1>0. /\ TypeOK /\ LocksExclude /\ AdvisoryInv /\ OneInsert /\ RowsInv
        /\ ReservationsCovered /\ PayoutsAccounted /\ MerchantIsOwed /\ PendingBacked
        /\ \A d \in Clients : PlaceInv(d)
    BY Zenon DEF FundsInv
  <1>1. /\ capture[c] = None /\ \A d \in Clients : lock[d] # "update"
        /\ capture' = [capture EXCEPT ![c] = [gross |-> gross, net |-> net]]
        /\ ledger' = Posted(e)
        /\ settlement' = settlement /\ refund' = refund /\ payout' = payout /\ held' = held
        /\ reserved' = reserved /\ version' = version /\ paid' = paid
        /\ lock' = lock /\ payoutLock' = payoutLock /\ advisory' = advisory
        /\ pc' = pc /\ job' = job /\ seen' = seen /\ writes' = writes /\ rejected' = rejected
    BY Zenon DEF PostCapture, lockVars, txVars
  <1>2. /\ e \in [Accounts -> Int] /\ e["pending"] = net /\ e["available"] = 0
        /\ e["clearing"] = 0 /\ e["receivable"] = 0 /\ net \in Nat
    <2>1. /\ NoEntries \in [Accounts -> Int] /\ \A a \in Accounts : NoEntries[a] = 0
          /\ gross \in Int /\ net \in Nat
      BY DEF NoEntries
    <2> QED BY <2>1 DEF Accounts, PendingShare
  <1> HIDE DEF e
  <1>3. /\ ledger' \in [Accounts -> Int]
        /\ Owed("pending")' = Owed("pending") + net
        /\ Owed("available")' = Owed("available")
        /\ Owed("clearing")' = Owed("clearing")
        /\ Owed("receivable")' = Owed("receivable")
        /\ Owed("pending") \in Int /\ Owed("available") \in Int /\ Owed("clearing") \in Int
        /\ Owed("receivable") \in Int
    <2>1. /\ ledger' \in [Accounts -> Int]
          /\ Owed("pending")' = Owed("pending") + e["pending"]
          /\ Owed("available")' = Owed("available") + e["available"]
          /\ Owed("clearing")' = Owed("clearing") + e["clearing"]
          /\ Owed("receivable")' = Owed("receivable") - e["receivable"]
          /\ Owed("pending") \in Int /\ Owed("available") \in Int /\ Owed("clearing") \in Int
          /\ Owed("receivable") \in Int
      BY ONLY Zenon, <1>0, <1>1, <1>2, PostedOwed
    <2> QED BY ONLY <1>2, <2>1
  <1>4. /\ capture'[c] # None /\ capture'[c].net = net
        /\ \A x \in Captures \ {c} : capture'[x] = capture[x]
        /\ capture' \in [Captures -> CaptureRow \cup {None}]
    <2>1. [gross |-> gross, net |-> net] \in CaptureRow
      BY Zenon, <1>2 DEF CaptureRow
    <2> QED BY Zenon, <1>0, <1>1, <2>1 DEF TypeOK
  <1>5. TypeOK'
    BY Zenon, <1>0, <1>1, <1>3, <1>4 DEF TypeOK
  <1>6. LocksExclude' /\ OneInsert' /\ RowsInv' /\ ReservationsCovered'
    <2>1. LocksExclude' /\ OneInsert'
      BY Zenon, <1>0, <1>1 DEF LocksExclude, OneInsert, Entered
    <2>2. RowsInv'
      <3>1. \A r \in Refunds : refund[r] # None => refund[r].capture \in Captures
        BY Zenon, <1>0 DEF TypeOK, RefundRow
      <3> QED BY Zenon, <1>0, <1>1, <1>4, <3>1 DEF RowsInv
    <2> QED BY Zenon, <1>0, <1>1, <1>3, <2>1, <2>2 DEF ReservationsCovered
  <1>7. AdvisoryInv'
    BY Zenon, <1>0, <1>1, <1>3 DEF AdvisoryInv, Covered
  <1>8. ASSUME NEW d \in Clients PROVE PlaceInv(d)'
    <2>1. PlaceInv(d) /\ lock[d] # "update"
      BY Zenon, <1>0, <1>1
    <2>3. /\ pc'[d] = pc[d] /\ job'[d] = job[d] /\ seen'[d] = seen[d] /\ writes'[d] = writes[d]
          /\ lock'[d] = lock[d]
          /\ \A q \in Payouts : payoutLock[q] = d => payoutLock'[q] = d /\ payout'[q] = payout[q]
          /\ payout'[job[d].target] = payout[job[d].target]
          /\ job[d].target \in paid' <=> job[d].target \in paid
      BY Zenon, <1>1
    <2> QED BY Zenon, <1>0, <2>1, <2>3, PlaceFrame
  <1>9. PayoutsAccounted'
    BY Zenon, <1>0, <1>1, <1>3 DEF PayoutsAccounted
  <1>10. MerchantIsOwed'
    <2> DEFINE f == [x \in Captures |-> IF capture[x] = None THEN 0 ELSE capture[x].net]
               g == [x \in Captures |-> IF capture'[x] = None THEN 0 ELSE capture'[x].net]
               R == SumFunction([r \in Refunds |-> IF refund[r] = None THEN 0 ELSE refund[r].amount])
    <2>1. /\ \A x \in Captures : g[x] \in Int /\ f[x] \in Int
          /\ \A x \in Captures \ {c} : g[x] = f[x]
          /\ f[c] = 0 /\ g[c] = net
      <3>1. \A x \in Captures : /\ capture[x] # None => capture[x].net \in Int
                                /\ capture'[x] # None => capture'[x].net \in Int
        <4>0. \A n \in Nat : n \in Int
          OBVIOUS
        <4>1. \A row \in CaptureRow : row.net \in Int
          BY ONLY Zenon, <4>0 DEF CaptureRow
        <4>2. \A x \in Captures : capture[x] \in CaptureRow \cup {None}
          BY Zenon, <1>0 DEF TypeOK
        <4>3. \A x \in Captures : capture'[x] \in CaptureRow \cup {None}
          BY Zenon, <1>4
        <4> QED BY Zenon, <4>1, <4>2, <4>3
      <3>2. capture[c] = None /\ capture'[c] # None /\ capture'[c].net = net
            /\ \A x \in Captures \ {c} : capture'[x] = capture[x]
        BY Zenon, <1>1, <1>4
      <3>3. \A x \in Captures : /\ f[x] = IF capture[x] = None THEN 0 ELSE capture[x].net
                                /\ g[x] = IF capture'[x] = None THEN 0 ELSE capture'[x].net
        BY Zenon
      <3> HIDE DEF f, g
      <3>4. \A x \in Captures : g[x] \in Int /\ f[x] \in Int
        <4>1. 0 \in Int
          OBVIOUS
        <4> QED BY ONLY Zenon, <3>1, <3>3, <4>1
      <3> QED BY Zenon, <3>2, <3>3, <3>4
    <2>2. /\ SumFunction(f) = SumFunctionOnSet(f, Captures)
          /\ SumFunction(g) = SumFunctionOnSet(g, Captures)
      BY Zenon DEF SumFunction
    <2>3. IsFiniteSet(Captures)
      BY Zenon
    <2>4. Owed("pending") + Owed("available") + Owed("clearing") - Owed("receivable") = SumFunction(f) - R
      BY Zenon, <1>0 DEF MerchantIsOwed
    <2>8. Owed("pending")' + Owed("available")' + Owed("clearing")' - Owed("receivable")' = SumFunction(g) - R
          => MerchantIsOwed'
      BY Zenon, <1>1 DEF MerchantIsOwed
    <2> HIDE DEF f, g
    <2>5. SumFunctionOnSet(g, Captures) = SumFunctionOnSet(f, Captures) + g[c] - f[c]
      <3>1. \A x \in Captures : g[x] \in Int /\ f[x] \in Int
        BY Zenon, <2>1
      <3>2. \A x \in Captures \ {c} : g[x] = f[x]
        BY Zenon, <2>1
      <3>3. IsFiniteSet(Captures) /\ c \in Captures
        BY Zenon
      <3> QED BY ONLY <3>1, <3>2, <3>3, SumChange
    <2>6. SumFunctionOnSet(f, Captures) \in Int
      <3>1. \A x \in Captures : f[x] \in Int
        BY Zenon, <2>1
      <3> QED BY ONLY Zenon, <2>3, <3>1, SumInt
    <2>7. R \in Int
      <3> DEFINE h == [r \in Refunds |-> IF refund[r] = None THEN 0 ELSE refund[r].amount]
      <3>1. \A r \in Refunds : h[r] \in Int
        BY <1>0 DEF TypeOK, RefundRow
      <3>2. R = SumFunctionOnSet(h, Refunds)
        BY Zenon DEF SumFunction
      <3> HIDE DEF h, R
      <3>3. IsFiniteSet(Refunds)
        BY Zenon
      <3>4. SumFunctionOnSet(h, Refunds) \in Int
        BY ONLY Zenon, <3>1, <3>3, SumInt
      <3> QED BY Zenon, <3>2, <3>4
    <2> HIDE DEF R
    <2>9. f[c] = 0 /\ g[c] = net
      BY Zenon, <2>1
    <2>10. Owed("pending")' + Owed("available")' + Owed("clearing")' - Owed("receivable")' = SumFunction(g) - R
      BY ONLY <1>2, <1>3, <2>9, <2>2, <2>4, <2>5, <2>6, <2>7
    <2> QED BY Zenon, <2>8, <2>10
  <1>11. /\ \A x \in Captures : PendingRefunds(x)' = PendingRefunds(x) /\ Settled(x)' = Settled(x)
         /\ PendingRefunds(c) = 0 /\ Settled(c) = 0
    <2>1. \A x \in Captures : PendingRefunds(x)' = PendingRefunds(x) /\ Settled(x)' = Settled(x)
      BY Zenon, <1>1 DEF PendingRefunds, RefundOf, Settled
    <2>2. Settled(c) = 0
      BY Zenon, <1>0, <1>1 DEF RowsInv, Settled
    <2>3. PendingRefunds(c) = 0
      <3> DEFINE h == [r \in Refunds |-> IF RefundOf(r, c) THEN refund[r].pendingUse ELSE 0]
      <3>1. \A r \in Refunds : h[r] = 0
        BY Zenon, <1>0, <1>1 DEF RowsInv, RefundOf
      <3>2. PendingRefunds(c) = SumFunctionOnSet(h, Refunds)
        BY Zenon DEF SumFunction, PendingRefunds
      <3> HIDE DEF h
      <3> QED BY Zenon, <3>1, <3>2, SumZero
    <2> QED BY Zenon, <2>1, <2>2, <2>3
  <1>12. PendingBacked'
    <2> DEFINE f == [x \in Captures |-> Left(x)]
               g == [x \in Captures |-> Left(x)']
    <2>1. \A x \in Captures : g[x] \in Int /\ f[x] \in Int
      <3>1. \A x \in Captures : Left(x) \in Int
        BY Zenon, <1>0, SumTypes
      <3>2. \A x \in Captures \ {c} : Left(x)' = Left(x)
        BY Zenon, <1>4, <1>11 DEF Left
      <3>3. Left(c)' = net
        BY <1>2, <1>4, <1>11 DEF Left
      <3> QED BY <1>2, <3>1, <3>2, <3>3
    <2>2. /\ \A x \in Captures \ {c} : g[x] = f[x]
          /\ f[c] = 0 /\ g[c] = net
      <3>1. \A x \in Captures \ {c} : Left(x)' = Left(x)
        BY Zenon, <1>4, <1>11 DEF Left
      <3>2. Left(c) = 0
        BY Zenon, <1>1 DEF Left
      <3>3. Left(c)' = net
        BY <1>2, <1>4, <1>11 DEF Left
      <3> QED BY Zenon, <3>1, <3>2, <3>3
    <2>3. /\ SumFunction(f) = SumFunctionOnSet(f, Captures)
          /\ SumFunction(g) = SumFunctionOnSet(g, Captures)
      BY Zenon DEF SumFunction
    <2>4. IsFiniteSet(Captures)
      BY Zenon
    <2>5. \A x \in Captured' : Settled(x)' + PendingRefunds(x)' <= capture'[x].net
      <3> SUFFICES ASSUME NEW x \in Captures, capture'[x] # None
                   PROVE  Settled(x)' + PendingRefunds(x)' <= capture'[x].net
        BY Zenon DEF Captured
      <3>1. CASE x = c
        BY <1>2, <1>4, <1>11, <3>1
      <3>2. CASE x # c
        BY Zenon, <1>0, <1>4, <1>11, <3>2 DEF PendingBacked, Captured
      <3> QED BY Zenon, <3>1, <3>2
    <2>6. /\ Owed("receivable") >= 0 /\ Owed("pending") = SumFunction(f)
      BY Zenon, <1>0 DEF PendingBacked
    <2>7. /\ Owed("receivable")' >= 0 /\ Owed("pending")' = SumFunction(g) => PendingBacked'
      BY Zenon, <2>5 DEF PendingBacked
    <2> HIDE DEF f, g
    <2>8. SumFunctionOnSet(g, Captures) = SumFunctionOnSet(f, Captures) + g[c] - f[c]
      <3>1. \A x \in Captures \ {c} : g[x] = f[x]
        BY Zenon, <2>2
      <3>2. IsFiniteSet(Captures) /\ c \in Captures
        BY Zenon
      <3> QED BY ONLY <2>1, <3>1, <3>2, SumChange
    <2> QED BY <1>2, <1>3, <2>2, <2>3, <2>6, <2>7, <2>8
  <1> QED BY Zenon, <1>5, <1>6, <1>7, <1>8, <1>9, <1>10, <1>12 DEF FundsInv

=============================================================================
