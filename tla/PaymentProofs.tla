--------------------------- MODULE PaymentProofs ---------------------------
(***************************************************************************)
(* What holds of one payment for every amount, hold, set of refunds and    *)
(* schedule of fees: PaymentGraph (the status machine and the amounts of   *)
(* its children) and FeeSchedule (what a capture is charged).  The lemmas  *)
(* on sums come first.                                                     *)
(***************************************************************************)
EXTENDS PaymentGraph, FeeSchedule, FiniteSetTheorems, WellFoundedInduction, TLAPS

-----------------------------------------------------------------------------
(* Sums over finite sets: the induction that the provers cannot do is done *)
(* by a least counterexample.                                              *)

\* The element the library takes out of a set next.
Pick(s) == CHOOSE x \in s : TRUE

\* h computes the sums of g over the subsets of S, one chosen element at a time.
Sums(g, S, h) ==
    h = [s \in SUBSET S |-> IF s = {} THEN 0 ELSE g[Pick(s)] + h[s \ {Pick(s)}]]

\* The library sums by a function on the subsets of S, chosen to satisfy Sums.
LEMMA SumUnfolds ==
  ASSUME NEW g, NEW S
  PROVE  SumFunctionOnSet(g, S) = (CHOOSE h : Sums(g, S, h))[S]
  BY Zenon DEF SumFunctionOnSet, FoldFunctionOnSet, MapThenFoldSet, Sums, Pick

\* Among subsets of a finite set there is a least one: what a proof by induction
\* over S takes a counterexample from.
LEMMA LeastSubset ==
  ASSUME NEW S, IsFiniteSet(S), NEW T, T \subseteq SUBSET S, T # {}
  PROVE  \E U \in T : \A W \in T : W \subseteq U => W = U
  <1>1. IsWellFoundedOn(StrictSubsetOrdering(S), SUBSET S)
    BY Zenon, FS_StrictSubsetOrderingWellFounded, FS_FiniteSubsetsOfFinite
  <1>2. PICK U \in T : \A W \in T : ~(<<W, U>> \in StrictSubsetOrdering(S))
    BY Zenon, <1>1, WFMin
  <1>3. ASSUME NEW W \in T, W \subseteq U, W # U PROVE FALSE
    <2>1. <<W, U>> \in (SUBSET S) \X (SUBSET S)
      BY Zenon
    <2>2. <<W, U>> \in StrictSubsetOrdering(S)
      BY Zenon, <2>1, <1>3 DEF StrictSubsetOrdering
    <2> QED BY Zenon, <1>2, <2>2
  <1> QED BY Zenon, <1>3

\* The sums over a subset are the sums over the whole, where both are defined.
LEMMA SumsAgree ==
  ASSUME NEW g, NEW S, IsFiniteSet(S), NEW T \in SUBSET S, NEW h, NEW k, Sums(g, S, h), Sums(g, T, k)
  PROVE  \A s \in SUBSET T : h[s] = k[s]
  <1> DEFINE Bad == {s \in SUBSET T : h[s] # k[s]}
  <1> SUFFICES ASSUME Bad # {} PROVE FALSE
    BY Zenon
  <1>1. PICK U \in Bad : \A W \in Bad : W \subseteq U => W = U
    <2>1. Bad \subseteq SUBSET S BY Zenon
    <2> HIDE DEF Bad
    <2> QED BY <2>1, LeastSubset
  <1>2. U \in SUBSET T /\ U \in SUBSET S
    BY Zenon
  <1>3. /\ h[U] = IF U = {} THEN 0 ELSE g[Pick(U)] + h[U \ {Pick(U)}]
        /\ k[U] = IF U = {} THEN 0 ELSE g[Pick(U)] + k[U \ {Pick(U)}]
    BY Zenon, <1>2 DEF Sums
  <1>4. U # {}
    BY Zenon, <1>3
  <1>5. Pick(U) \in U
    BY Zenon, <1>4 DEF Pick
  <1>6. U \ {Pick(U)} \notin Bad
    BY Zenon, <1>1, <1>5
  <1>7. h[U \ {Pick(U)}] = k[U \ {Pick(U)}]
    BY Zenon, <1>6, <1>2
  <1> QED BY Zenon, <1>3, <1>7

\* There is a function that computes the sums over the subsets of a finite set.
LEMMA SumsExist ==
  ASSUME NEW g, NEW S, IsFiniteSet(S)
  PROVE  \E h : Sums(g, S, h)
  <1> DEFINE Bad == {U \in SUBSET S : ~\E h : Sums(g, U, h)}
  <1> SUFFICES ASSUME Bad # {} PROVE FALSE
    BY Zenon
  <1>1. PICK U \in Bad : \A W \in Bad : W \subseteq U => W = U
    <2>1. Bad \subseteq SUBSET S BY Zenon
    <2> HIDE DEF Bad
    <2> QED BY <2>1, LeastSubset
  <1> DEFINE F(W) == CHOOSE k : Sums(g, W, k)
             h == [s \in SUBSET U |-> IF s = {} THEN 0 ELSE g[Pick(s)] + F(s \ {Pick(s)})[s \ {Pick(s)}]]
  <1>2. ASSUME NEW W \in SUBSET U, W # U PROVE Sums(g, W, F(W))
    <2>1. \E k : Sums(g, W, k)
      BY Zenon, <1>1, <1>2
    <2> QED BY Zenon, <2>1
  <1>3. ASSUME NEW W \in SUBSET U, W # U PROVE h[W] = F(W)[W]
    <2>1. F(W)[W] = IF W = {} THEN 0 ELSE g[Pick(W)] + F(W)[W \ {Pick(W)}]
      <3> HIDE DEF F
      <3> QED BY Zenon, <1>2, <1>3 DEF Sums
    <2>2. CASE W = {}
      BY Zenon, <2>1, <2>2
    <2>3. CASE W # {}
      <3> DEFINE X == W \ {Pick(W)}
      <3>1. Pick(W) \in W BY Zenon, <2>3 DEF Pick
      <3>2. X \in SUBSET W /\ X \in SUBSET U /\ X # U BY Zenon, <3>1
      <3>3. IsFiniteSet(W) BY Zenon, FS_Subset
      <3>4. Sums(g, W, F(W)) /\ Sums(g, X, F(X))
        BY Zenon, <1>2, <1>3, <3>2
      <3>5. F(W)[X] = F(X)[X]
        <4> HIDE DEF F, X
        <4> QED BY <3>2, <3>3, <3>4, SumsAgree
      <3>6. h[W] = g[Pick(W)] + F(X)[X]
        BY Zenon, <2>3
      <3> QED BY Zenon, <2>1, <2>3, <3>5, <3>6
    <2> QED BY Zenon, <2>2, <2>3
  <1>4. ASSUME NEW s \in SUBSET U, s # {}
        PROVE  F(s \ {Pick(s)})[s \ {Pick(s)}] = h[s \ {Pick(s)}]
    <2>1. Pick(s) \in s BY Zenon, <1>4 DEF Pick
    <2>2. s \ {Pick(s)} \in SUBSET U /\ s \ {Pick(s)} # U BY Zenon, <2>1
    <2> QED
      <3> HIDE DEF F, h
      <3> QED BY Zenon, <1>3, <2>2
  <1>5. Sums(g, U, h)
    <2>1. h = [s \in SUBSET U |-> IF s = {} THEN 0 ELSE g[Pick(s)] + h[s \ {Pick(s)}]]
      <3>1. \A s \in SUBSET U : (IF s = {} THEN 0 ELSE g[Pick(s)] + F(s \ {Pick(s)})[s \ {Pick(s)}])
               = (IF s = {} THEN 0 ELSE g[Pick(s)] + h[s \ {Pick(s)}])
        <4> HIDE DEF F, h
        <4> QED BY Zenon, <1>4
      <3> HIDE DEF F
      <3> QED BY Zenon, <3>1
    <2> HIDE DEF h
    <2> QED BY Zenon, <2>1 DEF Sums
  <1> QED BY Zenon, <1>1, <1>5

\* The sum over no elements.
LEMMA SumEmpty == ASSUME NEW g PROVE SumFunctionOnSet(g, {}) = 0
  <1> DEFINE H == CHOOSE h : Sums(g, {}, h)
  <1>1. \E h : Sums(g, {}, h)
    BY Zenon, SumsExist, FS_EmptySet
  <1>2. Sums(g, {}, H)
    BY Zenon, <1>1
  <1> HIDE DEF H
  <1>3. H[{}] = 0
    BY Zenon, <1>2 DEF Sums
  <1> QED BY Zenon, <1>3, SumUnfolds DEF H

\* A sum is one chosen element and the sum of the others.
LEMMA SumPick ==
  ASSUME NEW g, NEW S, IsFiniteSet(S), S # {}
  PROVE  /\ Pick(S) \in S
           /\ SumFunctionOnSet(g, S) = g[Pick(S)] + SumFunctionOnSet(g, S \ {Pick(S)})
  <1> DEFINE T == S \ {Pick(S)}
             H == CHOOSE h : Sums(g, S, h)
             K == CHOOSE h : Sums(g, T, h)
  <1>1. Pick(S) \in S
    BY Zenon DEF Pick
  <1>2. IsFiniteSet(T) /\ T \in SUBSET S
    BY Zenon, FS_Subset
  <1>3. Sums(g, S, H)
    <2>1. \E h : Sums(g, S, h)
      BY Zenon, SumsExist
    <2> QED BY Zenon, <2>1
  <1>4. Sums(g, T, K)
    <2> HIDE DEF T
    <2>1. \E h : Sums(g, T, h)
      BY Zenon, <1>2, SumsExist
    <2> QED BY Zenon, <2>1
  <1>5. SumFunctionOnSet(g, S) = H[S] /\ SumFunctionOnSet(g, T) = K[T]
    BY Zenon, SumUnfolds
  <1> HIDE DEF H, K
  <1>6. H[S] = g[Pick(S)] + H[T]
    BY Zenon, <1>3 DEF Sums
  <1>7. H[T] = K[T]
    <2> HIDE DEF T
    <2> QED BY <1>2, <1>3, <1>4, SumsAgree
  <1> QED BY Zenon, <1>1, <1>5, <1>6, <1>7

\* Integers add up to an integer.
LEMMA SumInt ==
  ASSUME NEW S, IsFiniteSet(S), NEW g, \A x \in S : g[x] \in Int
  PROVE  SumFunctionOnSet(g, S) \in Int
  <1> DEFINE Bad == {U \in SUBSET S : SumFunctionOnSet(g, U) \notin Int}
  <1> SUFFICES ASSUME Bad # {} PROVE FALSE
    BY Zenon
  <1>1. PICK U \in Bad : \A W \in Bad : W \subseteq U => W = U
    <2>1. Bad \subseteq SUBSET S
      BY Zenon
    <2> HIDE DEF Bad
    <2> QED BY <2>1, LeastSubset
  <1>2. IsFiniteSet(U)
    BY Zenon, FS_Subset
  <1>3. U # {}
    BY SumEmpty
  <1>4. /\ Pick(U) \in U
        /\ SumFunctionOnSet(g, U) = g[Pick(U)] + SumFunctionOnSet(g, U \ {Pick(U)})
    BY Zenon, <1>2, <1>3, SumPick
  <1>5. SumFunctionOnSet(g, U \ {Pick(U)}) \in Int
    BY <1>1, <1>4
  <1> QED BY <1>4, <1>5

\* Any element may be taken out first.
LEMMA SumOut ==
  ASSUME NEW S, IsFiniteSet(S), NEW g, \A x \in S : g[x] \in Int, NEW x \in S
  PROVE  SumFunctionOnSet(g, S) = g[x] + SumFunctionOnSet(g, S \ {x})
  <1> DEFINE Good(U) == \A y \in U : SumFunctionOnSet(g, U) = g[y] + SumFunctionOnSet(g, U \ {y})
             Bad == {U \in SUBSET S : ~Good(U)}
  <1> SUFFICES ASSUME Bad # {} PROVE FALSE
    BY Zenon
  <1>1. PICK U \in Bad : \A W \in Bad : W \subseteq U => W = U
    <2>1. Bad \subseteq SUBSET S
      BY Zenon
    <2> HIDE DEF Bad
    <2> QED BY <2>1, LeastSubset
  <1>2. PICK y \in U : SumFunctionOnSet(g, U) # g[y] + SumFunctionOnSet(g, U \ {y})
    BY Zenon, <1>1
  <1> DEFINE p == Pick(U)
             V == U \ {p}
             W == U \ {y}
             Z == U \ {p, y}
  <1>3. /\ p \in U
        /\ SumFunctionOnSet(g, U) = g[p] + SumFunctionOnSet(g, V)
    BY Zenon, <1>2, FS_Subset, SumPick
  <1>4. p # y
    BY Zenon, <1>2, <1>3
  <1>5. Good(V) /\ Good(W)
    BY <1>1, <1>2, <1>3
  <1>6. V \ {y} = Z /\ W \ {p} = Z /\ y \in V /\ p \in W
    BY Zenon, <1>3, <1>4
  <1>7. SumFunctionOnSet(g, V) = g[y] + SumFunctionOnSet(g, Z)
    BY Zenon, <1>5, <1>6
  <1>8. SumFunctionOnSet(g, W) = g[p] + SumFunctionOnSet(g, Z)
    BY Zenon, <1>5, <1>6
  <1>9. SumFunctionOnSet(g, Z) \in Int /\ g[p] \in Int /\ g[y] \in Int
    <2>1. IsFiniteSet(Z) /\ Z \subseteq S
      BY Zenon, FS_Subset
    <2>2. \A z \in Z : g[z] \in Int
      BY Zenon, <2>1
    <2> QED BY Zenon, <1>3, <2>1, <2>2, SumInt
  <1> HIDE DEF V, W, Z, p
  <1>10. SumFunctionOnSet(g, U) = g[y] + SumFunctionOnSet(g, W)
    BY <1>3, <1>7, <1>8, <1>9
  <1> QED BY Zenon, <1>2, <1>10 DEF W

\* The sum of a pointwise sum is the sum of the sums.
LEMMA SumPlus ==
  ASSUME NEW S, IsFiniteSet(S), NEW f, NEW g, NEW h,
           \A x \in S : g[x] \in Int /\ h[x] \in Int /\ f[x] = g[x] + h[x]
  PROVE  SumFunctionOnSet(f, S) = SumFunctionOnSet(g, S) + SumFunctionOnSet(h, S)
  <1> DEFINE Good(U) == SumFunctionOnSet(f, U) = SumFunctionOnSet(g, U) + SumFunctionOnSet(h, U)
             Bad == {U \in SUBSET S : ~Good(U)}
  <1> SUFFICES ASSUME Bad # {} PROVE FALSE
    BY Zenon
  <1>1. PICK U \in Bad : \A W \in Bad : W \subseteq U => W = U
    <2>1. Bad \subseteq SUBSET S
      BY Zenon
    <2> HIDE DEF Bad
    <2> QED BY <2>1, LeastSubset
  <1>2. IsFiniteSet(U)
    BY Zenon, FS_Subset
  <1>3. U # {}
    <2>1. Good({})
      BY SumEmpty
    <2> QED BY Zenon, <2>1
  <1> DEFINE p == Pick(U)
             V == U \ {p}
  <1>4. /\ p \in U
        /\ SumFunctionOnSet(f, U) = f[p] + SumFunctionOnSet(f, V)
        /\ SumFunctionOnSet(g, U) = g[p] + SumFunctionOnSet(g, V)
        /\ SumFunctionOnSet(h, U) = h[p] + SumFunctionOnSet(h, V)
    BY Zenon, <1>2, <1>3, SumPick
  <1>5. Good(V)
    BY <1>1, <1>4
  <1>6. SumFunctionOnSet(g, V) \in Int /\ SumFunctionOnSet(h, V) \in Int
    <2>1. IsFiniteSet(V) /\ \A x \in V : g[x] \in Int /\ h[x] \in Int
      BY Zenon, FS_Subset
    <2> QED BY Zenon, <2>1, SumInt
  <1>7. g[p] \in Int /\ h[p] \in Int /\ f[p] = g[p] + h[p]
    BY Zenon, <1>4
  <1> HIDE DEF V, p
  <1>8. Good(U)
    BY <1>4, <1>5, <1>6, <1>7
  <1> QED BY Zenon, <1>1, <1>8

\* A sum of amounts that are not negative is not negative.
LEMMA SumNat ==
  ASSUME NEW S, IsFiniteSet(S), NEW g, \A x \in S : g[x] \in Nat
  PROVE  SumFunctionOnSet(g, S) \in Nat
  <1> DEFINE Bad == {U \in SUBSET S : SumFunctionOnSet(g, U) \notin Nat}
  <1> SUFFICES ASSUME Bad # {} PROVE FALSE
    BY Zenon
  <1>1. PICK U \in Bad : \A W \in Bad : W \subseteq U => W = U
    <2>1. Bad \subseteq SUBSET S
      BY Zenon
    <2> HIDE DEF Bad
    <2> QED BY <2>1, LeastSubset
  <1>2. IsFiniteSet(U)
    BY Zenon, FS_Subset
  <1>3. U # {}
    BY SumEmpty
  <1>4. /\ Pick(U) \in U
        /\ SumFunctionOnSet(g, U) = g[Pick(U)] + SumFunctionOnSet(g, U \ {Pick(U)})
    BY Zenon, <1>2, <1>3, SumPick
  <1>5. SumFunctionOnSet(g, U \ {Pick(U)}) \in Nat
    BY <1>1, <1>4
  <1> QED BY <1>4, <1>5

\* The sum of zeros is zero.
LEMMA SumZero ==
  ASSUME NEW S, IsFiniteSet(S), NEW g, \A x \in S : g[x] = 0
  PROVE  SumFunctionOnSet(g, S) = 0
  <1> DEFINE Bad == {U \in SUBSET S : SumFunctionOnSet(g, U) # 0}
  <1> SUFFICES ASSUME Bad # {} PROVE FALSE
    BY Zenon
  <1>1. PICK U \in Bad : \A W \in Bad : W \subseteq U => W = U
    <2>1. Bad \subseteq SUBSET S
      BY Zenon
    <2> HIDE DEF Bad
    <2> QED BY <2>1, LeastSubset
  <1>2. IsFiniteSet(U) /\ U # {}
    BY Zenon, FS_Subset, SumEmpty
  <1>3. /\ Pick(U) \in U
        /\ SumFunctionOnSet(g, U) = g[Pick(U)] + SumFunctionOnSet(g, U \ {Pick(U)})
    BY Zenon, <1>2, SumPick
  <1>4. SumFunctionOnSet(g, U \ {Pick(U)}) = 0
    BY <1>1, <1>3
  <1> QED BY <1>3, <1>4

\* Functions that agree have the same sum.
LEMMA SumSame ==
  ASSUME NEW S, IsFiniteSet(S), NEW f, NEW g, \A x \in S : g[x] \in Int /\ f[x] = g[x]
  PROVE  SumFunctionOnSet(f, S) = SumFunctionOnSet(g, S)
  <1> DEFINE z == [x \in S |-> 0]
  <1>1. /\ \A x \in S : g[x] \in Int /\ z[x] \in Int /\ f[x] = g[x] + z[x]
        /\ \A x \in S : z[x] = 0
    OBVIOUS
  <1> HIDE DEF z
  <1>2. SumFunctionOnSet(f, S) = SumFunctionOnSet(g, S) + SumFunctionOnSet(z, S)
    BY ONLY IsFiniteSet(S), <1>1, SumPlus
  <1>3. SumFunctionOnSet(z, S) = 0 /\ SumFunctionOnSet(g, S) \in Int
    BY Zenon, <1>1, SumZero, SumInt
  <1> QED BY <1>2, <1>3

\* Changing one value changes the sum by as much.
LEMMA SumChange ==
  ASSUME NEW S, IsFiniteSet(S), NEW f, NEW g, NEW x \in S,
           \A y \in S : f[y] \in Int /\ g[y] \in Int,
           \A y \in S \ {x} : f[y] = g[y]
  PROVE  SumFunctionOnSet(f, S) = SumFunctionOnSet(g, S) + f[x] - g[x]
  <1> DEFINE T == S \ {x}
  <1>1. IsFiniteSet(T) /\ \A y \in T : f[y] \in Int /\ g[y] \in Int /\ f[y] = g[y]
    BY Zenon, FS_Subset
  <1>2. /\ SumFunctionOnSet(f, S) = f[x] + SumFunctionOnSet(f, T)
        /\ SumFunctionOnSet(g, S) = g[x] + SumFunctionOnSet(g, T)
    BY Zenon, SumOut
  <1> HIDE DEF T
  <1>3. SumFunctionOnSet(f, T) = SumFunctionOnSet(g, T) /\ SumFunctionOnSet(g, T) \in Int
    BY Zenon, <1>1, SumSame, SumInt
  <1> QED BY <1>2, <1>3

\* What is larger element by element is larger in sum.
LEMMA SumMono ==
  ASSUME NEW S, IsFiniteSet(S), NEW f, NEW g,
           \A x \in S : f[x] \in Int /\ g[x] \in Int /\ f[x] <= g[x]
  PROVE  SumFunctionOnSet(f, S) <= SumFunctionOnSet(g, S)
  <1> DEFINE d == [x \in S |-> g[x] - f[x]]
  <1>1. \A x \in S : d[x] \in Nat /\ d[x] \in Int /\ g[x] = f[x] + d[x]
    OBVIOUS
  <1> HIDE DEF d
  <1>2. /\ SumFunctionOnSet(d, S) \in Nat /\ SumFunctionOnSet(f, S) \in Int
        /\ SumFunctionOnSet(g, S) = SumFunctionOnSet(f, S) + SumFunctionOnSet(d, S)
    BY <1>1, SumInt, SumNat, SumPlus
  <1> QED BY <1>2

-----------------------------------------------------------------------------
(* The payment graph.                                                      *)

\* What the model assumes of its constants.
LEMMA GraphFacts ==
  /\ IsFiniteSet(Refunds)
  /\ Amount \in Nat \ {0}
  /\ Hold \in Nat \ {0}
  /\ None \notin Nat \cup PaymentStatus
  /\ Refunds \cap {"auth", "capture", "void"} = {}
  BY Zenon, GraphAssumption DEF GraphConstants

\* The sums of the model are the sums of the lemmas.
LEMMA PaySum ==
  ASSUME NEW f
  PROVE  SumFunction(f) = SumFunctionOnSet(f, DOMAIN f)
  BY Zenon DEF SumFunction

\* The graph starts in its invariant.
LEMMA GraphInit ==
  Init => GraphInv
  BY GraphFacts DEF Init, GraphInv, TypeOK, Ops, OpStatus,
      PaymentStatus, EndsExclude

\* Creating a child of a payment with a new operation keeps the types.
LEMMA CreateType ==
  ASSUME TypeOK, NEW o \in Ops, NEW n \in 0..Amount, Create(o, n)
  PROVE  TypeOK'
  BY Zenon DEF TypeOK, Create, OpStatus

\* A finalization moves the payment only along ALLOWED, to a status of the table.
LEMMA TargetStatus ==
  ASSUME NEW o \in Ops, NEW outcome \in {"SUCCEEDED", "FAILED"},
         Legal(o, outcome), Target(o, outcome) # None
  PROVE  /\ Target(o, outcome) \in PaymentStatus
         /\ <<payment, Target(o, outcome)>> \in ALLOWED
  BY Zenon DEF Legal, ALLOWED, PaymentStatus

\* Every finalization keeps the invariant.
LEMMA FinalizeInv ==
  ASSUME GraphInv, NEW o \in Ops, NEW outcome \in {"SUCCEEDED", "FAILED"},
         Finalize(o, outcome)
  PROVE  GraphInv'
  <1> USE GraphFacts
  <1> DEFINE t == Target(o, outcome)
  <1>1. /\ op[o] \in {"PROCESSING", "REQUIRES_REVIEW"}
        /\ op' = [op EXCEPT ![o] = outcome]
        /\ payment' = IF t = None THEN payment ELSE t
        /\ UNCHANGED <<amount, expiry>>
    BY Zenon DEF Finalize, Open
  <1>2. t # None => t \in PaymentStatus /\ <<payment, t>> \in ALLOWED
    BY Zenon, TargetStatus DEF Finalize
  <1>3. TypeOK'
    BY <1>1, <1>2 DEF Finalize, GraphInv, TypeOK, OpStatus
  <1>4. \A p \in Ops : op'[p] \notin {"SUCCEEDED"} => journal'[p] = 0
    BY Zenon, <1>1 DEF Finalize, GraphInv, TypeOK
  <1>5. CASE o = "auth"
    <2>1. t = IF outcome = "SUCCEEDED" THEN "authorised" ELSE "failed"
      BY Zenon, <1>5 DEF Target
    <2> HIDE DEF t
    <2> QED BY Zenon, <1>1, <1>2, <1>3, <1>4, <1>5, <2>1 DEF GraphInv, TypeOK, Ops,
        OpStatus, PaymentStatus, EndsExclude, ALLOWED
  <1>6. CASE o = "capture"
    <2>1. t = IF outcome = "SUCCEEDED" THEN "captured" ELSE "failed"
      BY Zenon, <1>6 DEF Target
    <2> HIDE DEF t
    <2> QED BY Zenon, <1>1, <1>2, <1>3, <1>4, <1>6, <2>1 DEF GraphInv, TypeOK, Ops,
        OpStatus, PaymentStatus, EndsExclude, ALLOWED
  <1>7. CASE o = "void"
    <2>1. t = IF outcome = "SUCCEEDED" THEN "cancelled" ELSE None
      BY Zenon, <1>7 DEF Target
    <2> HIDE DEF t
    <2> QED BY Zenon, <1>1, <1>2, <1>3, <1>4, <1>7, <2>1 DEF GraphInv, TypeOK, Ops,
        OpStatus, PaymentStatus, EndsExclude, ALLOWED
  <1>8. CASE o \in Refunds
    <2>1. o \notin {"auth", "capture", "void"}
      BY Zenon, <1>8
    <2>2. t \in {None, "refunded", "partially_refunded"}
      BY Zenon, <2>1 DEF Target, RefundTarget
    <2> HIDE DEF t
    <2>3. payment' = payment \/ (payment \in {"captured", "partially_refunded"}
                                 /\ payment' \in {"refunded", "partially_refunded"})
      BY Zenon, <1>1, <1>2, <2>2 DEF ALLOWED
    <2> QED BY Zenon, <1>1, <1>3, <1>4, <1>8, <2>1, <2>3 DEF GraphInv, TypeOK, Ops,
        EndsExclude
  <1> QED BY Zenon, <1>5, <1>6, <1>7, <1>8 DEF Ops

\* Every step of requests, the finalizer, the expiry worker and time keeps the
\* invariant.
LEMMA GraphNext ==
  GraphInv /\ [Next]_vars => GraphInv'
  <1> SUFFICES ASSUME GraphInv, [Next]_vars PROVE GraphInv'
    BY Zenon
  <1> USE GraphFacts
  <1>0. {"auth", "capture", "void"} \subseteq Ops /\ Refunds \subseteq Ops
    BY Zenon DEF Ops
  <1>1. CASE InitiateAuthorization
    <2>1. TypeOK'
      BY <1>0, <1>1, CreateType DEF GraphInv, InitiateAuthorization
    <2> QED BY Zenon, <1>0, <1>1, <2>1 DEF GraphInv, TypeOK, EndsExclude,
        InitiateAuthorization, Create
  <1>2. ASSUME NEW n \in 1..MaxAsked, InitiateCapture(n) PROVE GraphInv'
    <2>1. n \in 0..Amount
      BY <1>0, <1>2 DEF GraphInv, TypeOK, InitiateCapture, MaxAsked
    <2>2. TypeOK'
      BY Zenon, <1>0, <1>2, <2>1, CreateType DEF GraphInv, InitiateCapture
    <2>3. payment = "authorised"
      BY Zenon, <1>0, <1>2 DEF GraphInv, TypeOK, PaymentStatus, InitiateCapture,
          OpenVoid
    <2> QED BY Zenon, <1>0, <1>2, <2>2, <2>3 DEF GraphInv, TypeOK, EndsExclude,
        InitiateCapture, Create, OpenVoid, OpStatus
  <1>3. CASE InitiateVoid
    <2>1. TypeOK'
      BY Zenon, <1>0, <1>3, CreateType DEF GraphInv, TypeOK, InitiateVoid
    <2> QED BY Zenon, <1>0, <1>3, <2>1 DEF GraphInv, TypeOK, EndsExclude,
        InitiateVoid, Create
  <1>4. ASSUME NEW r \in Refunds, NEW n \in 1..Amount, InitiateRefund(r, n) PROVE GraphInv'
    <2>1. TypeOK'
      BY <1>0, <1>4, CreateType DEF GraphInv, InitiateRefund
    <2>2. r \notin {"auth", "capture", "void"}
      BY Zenon, <1>4
    <2> QED BY Zenon, <1>0, <1>4, <2>1, <2>2 DEF GraphInv, TypeOK, EndsExclude,
        InitiateRefund, Create
  <1>5. ASSUME NEW o \in Ops, Settle(o) PROVE GraphInv'
    BY Zenon, <1>5, FinalizeInv DEF Settle
  <1>6. ASSUME NEW o \in Ops, MarkForReview(o) PROVE GraphInv'
    <2>1. TypeOK'
      BY Zenon, <1>6 DEF GraphInv, TypeOK, MarkForReview, OpStatus
    <2> QED BY Zenon, <1>0, <1>6, <2>1 DEF GraphInv, TypeOK, EndsExclude, MarkForReview
  <1>7. CASE ExpireSelected
    <2>1. TypeOK'
      BY Zenon, <1>7 DEF GraphInv, TypeOK, ExpireSelected, PaymentStatus
    <2> QED BY Zenon, <1>0, <1>7, <2>1 DEF GraphInv, TypeOK, EndsExclude,
        ExpireSelected, Lapsed, InFlight, OpenVoid, OpStatus
  <1>8. CASE SelectLapsed \/ SkipSelected \/ Tick
    <2>1. TypeOK'
      BY <1>8 DEF GraphInv, TypeOK, SelectLapsed, SkipSelected, Tick
    <2> QED BY Zenon, <1>8, <2>1 DEF GraphInv, EndsExclude, SelectLapsed,
        SkipSelected, Tick
  <1>9. CASE UNCHANGED vars
    BY Zenon, <1>9 DEF vars, GraphInv, TypeOK, EndsExclude
  <1> QED BY Zenon, <1>1, <1>2, <1>3, <1>4, <1>5, <1>6, <1>7, <1>8, <1>9 DEF Next, Request

\* The graph's invariant holds in every reachable state.
THEOREM GraphInvariance ==
  Spec => []GraphInv
  <1>1. Init => GraphInv
    BY Zenon, GraphInit
  <1>2. GraphInv /\ [Next]_vars => GraphInv'
    BY Zenon, GraphNext
  <1> QED BY <1>1, <1>2, PTL DEF Spec

\* Rows are well formed; in particular no capture exceeds what was authorised.
THEOREM GraphTypeCorrect ==
  Spec => []TypeOK
  <1>1. GraphInv => TypeOK
    BY Zenon DEF GraphInv
  <1>2. Spec => []GraphInv
    BY Zenon, GraphInvariance
  <1> QED BY <1>1, <1>2, PTL

\* Capture, void and expiry exclude each other, whatever requests, finalizer and
\* expiry worker interleave.
THEOREM EndsExcludeTheorem ==
  Spec => []EndsExclude
  <1>1. GraphInv => EndsExclude
    BY Zenon DEF GraphInv
  <1>2. Spec => []GraphInv
    BY Zenon, GraphInvariance
  <1> QED BY <1>1, <1>2, PTL

\* What a step may do to a payment that ended, a decided operation or a journal.
StaysClosed ==
    /\ payment \in {"refunded", "failed", "expired", "cancelled"} => UNCHANGED payment
    /\ \A o \in Ops : op[o] \in {"SUCCEEDED", "FAILED"} => op'[o] = op[o]
    /\ \A o \in Ops : journal[o] # 0 => journal'[o] = journal[o]

\* No step reopens what is closed.
LEMMA ClosedNext ==
  GraphInv /\ [Next]_vars => [StaysClosed]_vars
  <1> SUFFICES ASSUME GraphInv, Next PROVE StaysClosed
    BY Zenon
  <1> USE DEF StaysClosed
  <1>0. op \in [Ops -> OpStatus] /\ journal \in [Ops -> 0..Amount]
    BY Zenon DEF GraphInv, TypeOK
  <1>1. ASSUME NEW p \in Ops, NEW n, op[p] = "ABSENT", Create(p, n) PROVE StaysClosed
    BY Zenon, <1>0, <1>1 DEF Create
  <1>2. CASE Request
    BY Zenon, <1>1, <1>2 DEF Request, InitiateAuthorization, InitiateCapture,
        InitiateVoid, InitiateRefund, Ops
  <1>3. ASSUME NEW p \in Ops, NEW outcome \in {"SUCCEEDED", "FAILED"}, Finalize(p, outcome)
        PROVE  StaysClosed
    <2>1. payment \in {"refunded", "failed", "expired", "cancelled"} => UNCHANGED payment
      BY Zenon, <1>3 DEF Finalize, Legal, ALLOWED
    <2>2. op[p] \in {"PROCESSING", "REQUIRES_REVIEW"} /\ journal[p] = 0
      BY Zenon, <1>3 DEF Finalize, Open, GraphInv
    <2>3. op' = [op EXCEPT ![p] = outcome]
          /\ (journal' = journal \/ journal' = [journal EXCEPT ![p] = amount[p]])
      BY Zenon, <1>3 DEF Finalize
    <2> QED BY Zenon, <1>0, <2>1, <2>2, <2>3
  <1>4. ASSUME NEW p \in Ops, MarkForReview(p) PROVE StaysClosed
    BY Zenon, <1>0, <1>4 DEF MarkForReview
  <1>5. CASE SelectLapsed \/ ExpireSelected \/ SkipSelected \/ Tick
    BY Zenon, <1>5 DEF SelectLapsed, ExpireSelected, SkipSelected, Tick, Lapsed
  <1> QED BY Zenon, <1>2, <1>3, <1>4, <1>5 DEF Next, Settle

\* A payment that ended, a decided operation and a booked journal never change.
THEOREM NeverReopensTheorem ==
  Spec => NeverReopens
  <1>1. GraphInv /\ [Next]_vars => [StaysClosed]_vars
    BY Zenon, ClosedNext
  <1>2. Spec => []GraphInv
    BY Zenon, GraphInvariance
  <1> QED BY <1>1, <1>2, PTL DEF Spec, NeverReopens, StaysClosed

-----------------------------------------------------------------------------
(* The amounts of a payment.                                              *)

\* The states of refunds that reserve part of the capture.
Live == OpStatus \ {"ABSENT", "FAILED"}

\* What each refund adds to RefundSum.
Shares(states) == [r \in Refunds |-> IF op[r] \in states THEN amount[r] ELSE 0]

\* RefundSum is the sum of the shares.
LEMMA SumOfShares ==
  ASSUME NEW states
  PROVE  /\ RefundSum(states) = SumFunctionOnSet(Shares(states), Refunds)
         /\ RefundSum(states)' = SumFunctionOnSet(Shares(states)', Refunds)
  BY Zenon, PaySum DEF RefundSum, Shares

\* Shares are amounts.
LEMMA SharesType ==
  ASSUME TypeOK, NEW states
  PROVE  /\ \A r \in Refunds : Shares(states)[r] \in Nat
         /\ RefundSum(states) \in Nat
  <1> USE GraphFacts
  <1>1. \A r \in Refunds : Shares(states)[r] \in Nat
    BY DEF TypeOK, Shares, Ops
  <1> QED BY Zenon, <1>1, SumNat, SumOfShares

\* A step that changes at most one refund changes a sum by that refund's share.
LEMMA RefundSumStep ==
  ASSUME TypeOK, TypeOK', NEW states, NEW r \in Refunds,
         \A q \in Refunds \ {r} : op'[q] = op[q] /\ amount'[q] = amount[q]
  PROVE  RefundSum(states)' = RefundSum(states)
            + (IF op'[r] \in states THEN amount'[r] ELSE 0)
            - (IF op[r] \in states THEN amount[r] ELSE 0)
  <1> USE GraphFacts
  <1> DEFINE f == Shares(states)'
             g == Shares(states)
  <1>1. \A q \in Refunds : f[q] \in Int /\ g[q] \in Int
    BY DEF TypeOK, Shares, Ops
  <1>2. \A q \in Refunds \ {r} : f[q] = g[q]
    BY Zenon DEF Shares
  <1>3. /\ f[r] = IF op'[r] \in states THEN amount'[r] ELSE 0
        /\ g[r] = IF op[r] \in states THEN amount[r] ELSE 0
    BY Zenon DEF Shares
  <1> HIDE DEF f, g
  <1>4. SumFunctionOnSet(f, Refunds) = SumFunctionOnSet(g, Refunds) + f[r] - g[r]
    <2>1. IsFiniteSet(Refunds) /\ r \in Refunds
      BY Zenon
    <2> QED BY ONLY <1>1, <1>2, <2>1, SumChange
  <1> QED BY Zenon, <1>3, <1>4, SumOfShares DEF f, g

\* A step that changes no refund changes no sum of refunds.
LEMMA RefundSumFrame ==
  ASSUME TypeOK, NEW states,
         \A q \in Refunds : op'[q] = op[q] /\ amount'[q] = amount[q]
  PROVE  RefundSum(states)' = RefundSum(states)
  <1> USE GraphFacts
  <1> DEFINE f == Shares(states)'
             g == Shares(states)
  <1>1. \A q \in Refunds : g[q] \in Int /\ f[q] = g[q]
    BY DEF TypeOK, Shares, Ops
  <1> HIDE DEF f, g
  <1>2. SumFunctionOnSet(f, Refunds) = SumFunctionOnSet(g, Refunds)
    BY Zenon, <1>1, SumSame
  <1> QED BY Zenon, <1>2, SumOfShares DEF f, g

\* A refund in flight has its amount reserved besides all refunds that are done.
LEMMA ReservedBesidesDone ==
  ASSUME TypeOK, NEW r \in Refunds, op[r] \in {"PROCESSING", "REQUIRES_REVIEW"}
  PROVE  RefundSum({"SUCCEEDED"}) + amount[r] <= RefundSum(Live)
  <1> USE GraphFacts
  <1> DEFINE done == Shares({"SUCCEEDED"})
             live == Shares(Live)
             both == [q \in Refunds |-> IF q = r THEN amount[r] ELSE done[q]]
  <1>1. \A q \in Refunds : done[q] \in Int /\ both[q] \in Int /\ live[q] \in Int /\ both[q] <= live[q]
    BY DEF TypeOK, Shares, Live, Ops, OpStatus
  <1>2. \A q \in Refunds \ {r} : both[q] = done[q]
    BY Zenon
  <1>3. both[r] = amount[r] /\ done[r] = 0
    BY Zenon DEF Shares
  <1>4. SumFunctionOnSet(done, Refunds) \in Int /\ amount[r] \in Int
    <2>1. amount[r] \in Int
      BY DEF TypeOK, Ops
    <2> HIDE DEF done
    <2> QED BY Zenon, <1>1, <2>1, SumInt
  <1>5. /\ RefundSum({"SUCCEEDED"}) = SumFunctionOnSet(done, Refunds)
        /\ RefundSum(Live) = SumFunctionOnSet(live, Refunds)
    BY Zenon, SumOfShares
  <1> HIDE DEF done, live, both
  <1>6. SumFunctionOnSet(both, Refunds) = SumFunctionOnSet(done, Refunds) + both[r] - done[r]
    <2>1. IsFiniteSet(Refunds) /\ r \in Refunds
      BY Zenon
    <2>2. \A q \in Refunds : both[q] \in Int /\ done[q] \in Int
      BY Zenon, <1>1
    <2> QED BY ONLY <1>2, <2>1, <2>2, SumChange
  <1>7. SumFunctionOnSet(both, Refunds) <= SumFunctionOnSet(live, Refunds)
    BY Zenon, <1>1, SumMono
  <1> QED BY <1>3, <1>4, <1>5, <1>6, <1>7

\* Refunds that are done are among those that are not absent or failed.
LEMMA DoneIsReserved ==
  ASSUME TypeOK
  PROVE  RefundSum({"SUCCEEDED"}) <= RefundSum(Live)
  <1> USE GraphFacts
  <1> DEFINE done == Shares({"SUCCEEDED"})
             live == Shares(Live)
  <1>1. \A q \in Refunds : done[q] \in Int /\ live[q] \in Int /\ done[q] <= live[q]
    BY DEF TypeOK, Shares, Live, Ops, OpStatus
  <1>2. /\ RefundSum({"SUCCEEDED"}) = SumFunctionOnSet(done, Refunds)
        /\ RefundSum(Live) = SumFunctionOnSet(live, Refunds)
    BY Zenon, SumOfShares
  <1> HIDE DEF done, live
  <1> QED BY Zenon, <1>1, <1>2, SumMono

\* Before the first refund nothing is reserved.
LEMMA NoRefundsNoSum ==
  ASSUME NEW states, "ABSENT" \notin states, \A r \in Refunds : op[r] = "ABSENT"
  PROVE  RefundSum(states) = 0
  <1>1. \A r \in Refunds : Shares(states)[r] = 0
    BY Zenon DEF Shares
  <1> QED BY Zenon, <1>1, SumZero, SumOfShares, GraphFacts

\* MoneyInv without GraphInv, sums named.
Money ==
    /\ \A o \in Ops : amount[o] = 0 <=> op[o] = "ABSENT"
    /\ op["auth"] # "ABSENT" => amount["auth"] = Amount
    /\ \A o \in Refunds \cup {"capture"} : op[o] = "SUCCEEDED" => journal[o] = amount[o]
    /\ RefundSum(Live) <= amount["capture"]
    /\ op["capture"] = "SUCCEEDED" =>
          payment = IF RefundSum({"SUCCEEDED"}) = 0 THEN "captured"
                    ELSE IF RefundSum({"SUCCEEDED"}) = amount["capture"] THEN "refunded"
                    ELSE "partially_refunded"

\* The two parts of MoneyInv.
LEMMA MoneySplit ==
  MoneyInv <=> GraphInv /\ Money
  BY Zenon DEF MoneyInv, Money, Live

\* The payment starts with no amounts.
LEMMA MoneyInit ==
  Init => MoneyInv
  <1> SUFFICES ASSUME Init PROVE MoneyInv
    BY Zenon
  <1>1. \A r \in Refunds : op[r] = "ABSENT"
    BY Zenon DEF Init, Ops
  <1>2. RefundSum(Live) = 0
    BY Zenon, <1>1, NoRefundsNoSum DEF Live
  <1>3. Money
    BY <1>2, GraphFacts DEF Money, Init, Ops
  <1> QED BY Zenon, <1>3, GraphInit, MoneySplit

\* While the capture is not done there is no refund and nothing to sum.
LEMMA NothingToSum ==
  ASSUME GraphInv, op["capture"] # "SUCCEEDED"
  PROVE  RefundSum(Live) = 0 /\ RefundSum({"SUCCEEDED"}) = 0
  <1>1. \A r \in Refunds : op[r] = "ABSENT"
    BY Zenon DEF GraphInv
  <1> QED BY Zenon, <1>1, NoRefundsNoSum DEF Live

\* A step that leaves the refunds alone keeps the amounts, if it keeps what the
\* rest says of the operations.
LEMMA AmountsFrame ==
  ASSUME TypeOK, Money,
         \A q \in Refunds : op'[q] = op[q] /\ amount'[q] = amount[q] /\ journal'[q] = journal[q],
         \A o \in {"auth", "capture", "void"} : amount'[o] = 0 <=> op'[o] = "ABSENT",
         op'["auth"] # "ABSENT" => amount'["auth"] = Amount,
         op'["capture"] = "SUCCEEDED" => journal'["capture"] = amount'["capture"],
         \/ amount'["capture"] = amount["capture"] /\ amount["capture"] \in Nat
         \/ RefundSum(Live) = 0 /\ amount'["capture"] \in Nat,
         \/ op'["capture"] # "SUCCEEDED"
         \/ /\ op["capture"] = "SUCCEEDED" /\ payment' = payment
            /\ amount'["capture"] = amount["capture"]
         \/ RefundSum({"SUCCEEDED"}) = 0 /\ payment' = "captured"
  PROVE  Money'
  <1>1. RefundSum(Live)' = RefundSum(Live)
    BY Zenon, RefundSumFrame
  <1>2. RefundSum({"SUCCEEDED"})' = RefundSum({"SUCCEEDED"})
    BY Zenon, RefundSumFrame
  <1>3. \A o \in Ops : amount'[o] = 0 <=> op'[o] = "ABSENT"
    BY Zenon DEF Money, Ops
  <1>4. \A o \in Refunds \cup {"capture"} : op'[o] = "SUCCEEDED" => journal'[o] = amount'[o]
    BY Zenon DEF Money
  <1>5. RefundSum(Live)' <= amount'["capture"]
    BY <1>1 DEF Money
  <1>6. op'["capture"] = "SUCCEEDED" =>
          payment' = IF RefundSum({"SUCCEEDED"})' = 0 THEN "captured"
                     ELSE IF RefundSum({"SUCCEEDED"})' = amount'["capture"] THEN "refunded"
                     ELSE "partially_refunded"
    BY Zenon, <1>2 DEF Money
  <1> QED BY Zenon, <1>3, <1>4, <1>5, <1>6 DEF Money

\* transition() accepts whatever outcome an open refund has.
LEMMA RefundLegal ==
  ASSUME GraphInv, Money, NEW r \in Refunds, op[r] \in {"PROCESSING", "REQUIRES_REVIEW"}
  PROVE  /\ payment \in {"captured", "partially_refunded"}
         /\ op["capture"] = "SUCCEEDED"
         /\ RefundSum({"SUCCEEDED"}) + amount[r] <= RefundSum(Live)
         /\ amount[r] \in Nat \ {0}
         /\ RefundSum({"SUCCEEDED"}) \in Nat
         /\ RefundSum(Live) \in Nat
         /\ amount["capture"] \in Nat
  <1>1. RefundSum({"SUCCEEDED"}) + amount[r] <= RefundSum(Live)
    BY Zenon, ReservedBesidesDone DEF GraphInv, Live
  <1>2. RefundSum({"SUCCEEDED"}) \in Nat /\ RefundSum(Live) \in Nat
    BY Zenon, SharesType DEF GraphInv
  <1>3. amount[r] \in Nat \ {0} /\ amount["capture"] \in Nat
    <2>1. r \in Ops /\ "capture" \in Ops
      BY Zenon DEF Ops
    <2>2. amount[r] # 0
      BY Zenon, <2>1 DEF Money
    <2>3. amount \in [Ops -> 0..Amount] /\ Amount \in Nat
      BY Zenon, GraphFacts DEF GraphInv, TypeOK
    <2> QED BY <2>1, <2>2, <2>3
  <1>4. op["capture"] = "SUCCEEDED"
    BY Zenon DEF GraphInv
  <1>5. RefundSum({"SUCCEEDED"}) # amount["capture"]
    BY <1>1, <1>2, <1>3 DEF Money
  <1> QED BY Zenon, <1>1, <1>2, <1>3, <1>4, <1>5 DEF Money

\* A refund request reserves its amount and keeps the reservations covered.
LEMMA MoneyInitiateRefund ==
  ASSUME GraphInv, GraphInv', Money, NEW r \in Refunds, NEW n \in 1..Amount,
         InitiateRefund(r, n)
  PROVE  Money'
  <1> USE GraphFacts
  <1>0. /\ TypeOK /\ TypeOK' /\ {"auth", "capture"} \subseteq Ops
        /\ r \in Ops /\ r # "capture" /\ r # "auth"
    BY Zenon DEF GraphInv, Ops
  <1>1. /\ op' = [op EXCEPT ![r] = "PROCESSING"] /\ amount' = [amount EXCEPT ![r] = n]
        /\ payment' = payment /\ journal' = journal
        /\ op[r] = "ABSENT"
    BY Zenon DEF InitiateRefund, Create
  <1>2. \A q \in Refunds \ {r} : op'[q] = op[q] /\ amount'[q] = amount[q]
    BY Zenon, <1>0, <1>1 DEF TypeOK, Ops
  <1>3. op'[r] = "PROCESSING" /\ amount'[r] = n /\ "PROCESSING" \in Live /\ "ABSENT" \notin Live
    BY Zenon, <1>0, <1>1 DEF TypeOK, Live, OpStatus
  <1>4. RefundSum(Live)' = RefundSum(Live) + n - 0
    BY <1>0, <1>1, <1>2, <1>3, RefundSumStep
  <1>5. RefundSum({"SUCCEEDED"})' = RefundSum({"SUCCEEDED"}) + 0 - 0
    BY Zenon, <1>0, <1>1, <1>2, <1>3, RefundSumStep
  <1>6. n + RefundSum(Live) <= amount["capture"]
    <2>1. Live = {"PROCESSING", "REQUIRES_REVIEW", "SUCCEEDED"}
      BY Zenon DEF Live, OpStatus
    <2> QED BY Zenon, <2>1 DEF InitiateRefund, Reserved
  <1>7. /\ RefundSum(Live) \in Nat /\ RefundSum({"SUCCEEDED"}) \in Nat
        /\ amount["capture"] \in Nat
    BY <1>0, SharesType DEF TypeOK
  <1>8. /\ amount'["capture"] = amount["capture"] /\ op'["capture"] = op["capture"]
        /\ amount'["auth"] = amount["auth"] /\ op'["auth"] = op["auth"]
    BY Zenon, <1>0, <1>1 DEF TypeOK
  <1>9. \A o \in Ops : amount'[o] = 0 <=> op'[o] = "ABSENT"
    BY <1>0, <1>1 DEF Money, TypeOK
  <1>10. \A o \in Refunds \cup {"capture"} : op'[o] = "SUCCEEDED" => journal'[o] = amount'[o]
    BY Zenon, <1>0, <1>1 DEF Money, TypeOK, Ops
  <1>11. RefundSum(Live)' <= amount'["capture"]
    BY <1>4, <1>6, <1>7, <1>8
  <1>12. RefundSum({"SUCCEEDED"})' = RefundSum({"SUCCEEDED"})
    BY <1>5, <1>7
  <1> QED BY Zenon, <1>1, <1>8, <1>9, <1>10, <1>11, <1>12 DEF Money

\* A refund parked for review keeps its reservation.
LEMMA MoneyMarkRefund ==
  ASSUME GraphInv, GraphInv', Money, NEW r \in Refunds, MarkForReview(r)
  PROVE  Money'
  <1> USE GraphFacts
  <1>0. /\ TypeOK /\ TypeOK' /\ {"auth", "capture"} \subseteq Ops
        /\ r \in Ops /\ r # "capture" /\ r # "auth"
    BY Zenon DEF GraphInv, Ops
  <1>1. /\ op' = [op EXCEPT ![r] = "REQUIRES_REVIEW"] /\ amount' = amount
        /\ payment' = payment /\ journal' = journal
        /\ op[r] = "PROCESSING"
    BY Zenon DEF MarkForReview
  <1>2. \A q \in Refunds \ {r} : op'[q] = op[q] /\ amount'[q] = amount[q]
    BY Zenon, <1>0, <1>1 DEF TypeOK, Ops
  <1>3. op'[r] = "REQUIRES_REVIEW" /\ "PROCESSING" \in Live /\ "REQUIRES_REVIEW" \in Live
    BY Zenon, <1>0, <1>1 DEF TypeOK, Live, OpStatus
  <1>4. RefundSum(Live)' = RefundSum(Live) + amount[r] - amount[r]
    BY <1>0, <1>1, <1>2, <1>3, RefundSumStep
  <1>5. RefundSum({"SUCCEEDED"})' = RefundSum({"SUCCEEDED"}) + 0 - 0
    BY Zenon, <1>0, <1>1, <1>2, <1>3, RefundSumStep
  <1>7. /\ RefundSum(Live) \in Nat /\ RefundSum({"SUCCEEDED"}) \in Nat
        /\ amount[r] \in Nat
    BY <1>0, SharesType DEF TypeOK
  <1>8. /\ RefundSum(Live)' = RefundSum(Live)
        /\ RefundSum({"SUCCEEDED"})' = RefundSum({"SUCCEEDED"})
    BY <1>4, <1>5, <1>7
  <1>9. \A o \in Ops : amount'[o] = 0 <=> op'[o] = "ABSENT"
    BY Zenon, <1>0, <1>1 DEF Money, TypeOK
  <1>10. \A o \in Refunds \cup {"capture"} : op'[o] = "SUCCEEDED" => journal'[o] = amount'[o]
    BY Zenon, <1>0, <1>1 DEF Money, TypeOK, Ops
  <1>11. op'["capture"] = op["capture"] /\ op'["auth"] = op["auth"]
    BY Zenon, <1>0, <1>1 DEF TypeOK
  <1> QED BY Zenon, <1>1, <1>8, <1>9, <1>10, <1>11 DEF Money

\* A finalized refund moves the payment to the status its sum calls for.
LEMMA MoneyFinalizeRefund ==
  ASSUME GraphInv, GraphInv', Money, NEW r \in Refunds, NEW outcome \in {"SUCCEEDED", "FAILED"},
         Finalize(r, outcome)
  PROVE  Money'
  <1> USE GraphFacts
  <1>0. /\ TypeOK /\ TypeOK' /\ r \in Ops /\ r \notin {"capture", "auth", "void"}
        /\ "capture" \in Ops /\ "auth" \in Ops
    BY Zenon DEF GraphInv, Ops
  <1>1. /\ op' = [op EXCEPT ![r] = outcome] /\ amount' = amount
        /\ op[r] \in {"PROCESSING", "REQUIRES_REVIEW"}
        /\ journal' = IF outcome = "SUCCEEDED" THEN [journal EXCEPT ![r] = amount[r]] ELSE journal
        /\ payment' = IF Target(r, outcome) = None THEN payment ELSE Target(r, outcome)
    BY Zenon, <1>0 DEF Finalize, Open
  <1>2. \A q \in Refunds \ {r} : op'[q] = op[q] /\ amount'[q] = amount[q]
    BY Zenon, <1>0, <1>1 DEF TypeOK, Ops
  <1>3. op'[r] = outcome /\ op[r] \in Live /\ "SUCCEEDED" \in Live /\ "FAILED" \notin Live
    BY Zenon, <1>0, <1>1 DEF TypeOK, Live, OpStatus
  <1>4. RefundSum(Live)' = RefundSum(Live)
            + (IF outcome \in Live THEN amount[r] ELSE 0) - amount[r]
    BY Zenon, <1>0, <1>1, <1>2, <1>3, RefundSumStep
  <1>5. RefundSum({"SUCCEEDED"})' = RefundSum({"SUCCEEDED"})
                                      + (IF outcome \in {"SUCCEEDED"} THEN amount[r] ELSE 0) - 0
    BY <1>0, <1>1, <1>2, <1>3, RefundSumStep
  <1>6. /\ payment \in {"captured", "partially_refunded"}
        /\ op["capture"] = "SUCCEEDED"
        /\ RefundSum({"SUCCEEDED"}) + amount[r] <= RefundSum(Live)
        /\ amount[r] \in Nat \ {0}
        /\ RefundSum({"SUCCEEDED"}) \in Nat
        /\ RefundSum(Live) \in Nat
        /\ amount["capture"] \in Nat
    BY Zenon, <1>1, RefundLegal
  <1>7. /\ Target(r, outcome) = IF outcome = "FAILED" THEN None ELSE RefundTarget(r)
        /\ RefundTarget(r) # None
    BY Zenon, <1>0 DEF Target, RefundTarget, PaymentStatus
  <1>8. op'["capture"] = op["capture"] /\ op'["auth"] = op["auth"]
    BY Zenon, <1>0, <1>1 DEF TypeOK
  <1>9. \A o \in Ops : amount'[o] = 0 <=> op'[o] = "ABSENT"
    BY Zenon, <1>0, <1>1 DEF Money, TypeOK
  <1>10. \A o \in Refunds \cup {"capture"} : op'[o] = "SUCCEEDED" => journal'[o] = amount'[o]
    BY Zenon, <1>0, <1>1 DEF Money, TypeOK, Ops
  <1>11. RefundSum(Live)' <= amount'["capture"]
    BY <1>1, <1>3, <1>4, <1>6 DEF Money
  <1>12. CASE outcome = "FAILED"
    <2>1. RefundSum({"SUCCEEDED"})' = RefundSum({"SUCCEEDED"}) /\ payment' = payment
      BY <1>1, <1>5, <1>6, <1>7, <1>12
    <2> QED BY Zenon, <1>1, <1>8, <1>9, <1>10, <1>11, <2>1 DEF Money
  <1>13. CASE outcome = "SUCCEEDED"
    <2>1. /\ RefundSum({"SUCCEEDED"})' = RefundSum({"SUCCEEDED"}) + amount[r]
          /\ payment' = RefundTarget(r)
      BY <1>1, <1>5, <1>6, <1>7, <1>13
    <2>2. RefundSum({"SUCCEEDED"})' # 0
      BY <1>6, <2>1
    <2>3. payment' = IF RefundSum({"SUCCEEDED"})' = amount'["capture"] THEN "refunded"
                     ELSE "partially_refunded"
      BY Zenon, <1>1, <2>1 DEF RefundTarget
    <2> QED BY Zenon, <1>1, <1>8, <1>9, <1>10, <1>11, <2>2, <2>3 DEF Money
  <1> QED BY Zenon, <1>12, <1>13

\* Every step keeps the amounts.
LEMMA MoneyNext ==
  MoneyInv /\ [Next]_vars => MoneyInv'
  <1> SUFFICES ASSUME GraphInv, Money, [Next]_vars PROVE MoneyInv'
    BY Zenon, MoneySplit
  <1>g. GraphInv'
    BY Zenon, GraphNext
  <1> SUFFICES Money'
    BY <1>g, MoneySplit, PTL
  <1> USE GraphFacts
  <1>0. /\ TypeOK /\ TypeOK'
        /\ {"auth", "capture", "void"} \subseteq Ops /\ Refunds \subseteq Ops
        /\ \A r \in Refunds : r \notin {"auth", "capture", "void"}
    BY Zenon, <1>g DEF Ops, GraphInv
  <1>z. /\ \A o \in {"auth", "capture", "void"} : amount[o] = 0 <=> op[o] = "ABSENT"
        /\ op["auth"] # "ABSENT" => amount["auth"] = Amount
        /\ op["capture"] = "SUCCEEDED" => journal["capture"] = amount["capture"]
        /\ \A o \in Ops : amount[o] \in Nat
    BY <1>0 DEF Money, TypeOK
  <1>n. op["capture"] # "SUCCEEDED" => RefundSum(Live) = 0 /\ RefundSum({"SUCCEEDED"}) = 0
    BY Zenon, NothingToSum
  <1>1. CASE InitiateAuthorization
    <2>1. /\ op' = [op EXCEPT !["auth"] = "PROCESSING"]
          /\ amount' = [amount EXCEPT !["auth"] = Amount]
          /\ payment' = payment /\ journal' = journal
      BY Zenon, <1>1 DEF InitiateAuthorization, Create
    <2> QED BY Zenon, <1>0, <1>z, <1>n, <2>1, AmountsFrame DEF TypeOK
  <1>2. ASSUME NEW n \in 1..MaxAsked, InitiateCapture(n) PROVE Money'
    <2>1. /\ op' = [op EXCEPT !["capture"] = "PROCESSING"]
          /\ amount' = [amount EXCEPT !["capture"] = n]
          /\ payment' = payment /\ journal' = journal /\ op["capture"] = "ABSENT"
          /\ n \in Nat \ {0}
      BY <1>2 DEF InitiateCapture, Create, MaxAsked
    <2> QED BY Zenon, <1>0, <1>z, <1>n, <2>1, AmountsFrame DEF TypeOK
  <1>3. CASE InitiateVoid
    <2>1. /\ op' = [op EXCEPT !["void"] = "PROCESSING"]
          /\ amount' = [amount EXCEPT !["void"] = amount["auth"]]
          /\ payment' = payment /\ journal' = journal /\ op["auth"] = "SUCCEEDED"
      BY Zenon, <1>3 DEF InitiateVoid, Create
    <2> QED BY Zenon, <1>0, <1>z, <1>n, <2>1, AmountsFrame DEF TypeOK
  <1>4. ASSUME NEW r \in Refunds, NEW n \in 1..Amount, InitiateRefund(r, n) PROVE Money'
    BY Zenon, <1>4, <1>g, MoneyInitiateRefund
  <1>5. ASSUME NEW r \in Refunds, NEW outcome \in {"SUCCEEDED", "FAILED"}, Finalize(r, outcome)
        PROVE  Money'
    BY Zenon, <1>5, <1>g, MoneyFinalizeRefund
  <1>6. ASSUME NEW r \in Refunds, MarkForReview(r) PROVE Money'
    BY Zenon, <1>6, <1>g, MoneyMarkRefund
  <1>7. ASSUME NEW o \in {"auth", "capture", "void"}, MarkForReview(o) PROVE Money'
    <2>1. /\ op' = [op EXCEPT ![o] = "REQUIRES_REVIEW"] /\ op[o] = "PROCESSING"
          /\ amount' = amount /\ payment' = payment /\ journal' = journal
      BY Zenon, <1>7 DEF MarkForReview
    <2> QED BY Zenon, <1>0, <1>z, <1>n, <2>1, AmountsFrame DEF TypeOK
  <1>8. ASSUME NEW outcome \in {"SUCCEEDED", "FAILED"}, Finalize("capture", outcome)
        PROVE  Money'
    <2>1. /\ op' = [op EXCEPT !["capture"] = outcome] /\ amount' = amount
          /\ op["capture"] \in {"PROCESSING", "REQUIRES_REVIEW"}
          /\ journal' = IF outcome = "SUCCEEDED" THEN [journal EXCEPT !["capture"] = amount["capture"]]
                        ELSE journal
      BY Zenon, <1>8 DEF Finalize, Open
    <2>2. outcome = "SUCCEEDED" => payment' = "captured"
      BY Zenon, <1>8 DEF Finalize, Target, PaymentStatus
    <2> QED BY Zenon, <1>0, <1>z, <1>n, <2>1, <2>2, AmountsFrame DEF TypeOK
  <1>9. ASSUME NEW o \in {"auth", "void"}, NEW outcome \in {"SUCCEEDED", "FAILED"},
               Finalize(o, outcome)
        PROVE  Money'
    <2>1. /\ op' = [op EXCEPT ![o] = outcome] /\ amount' = amount
          /\ op[o] \in {"PROCESSING", "REQUIRES_REVIEW"} /\ journal' = journal
      BY Zenon, <1>9 DEF Finalize, Open
    <2>2. op["capture"] = "ABSENT"
      BY Zenon, <2>1 DEF GraphInv, EndsExclude
    <2> QED BY Zenon, <1>0, <1>z, <1>n, <2>1, <2>2, AmountsFrame DEF TypeOK
  <1>10. CASE ExpireSelected
    <2>1. /\ UNCHANGED <<op, amount, journal>>
          /\ payment' = payment \/ op["capture"] # "SUCCEEDED"
      BY Zenon, <1>10 DEF ExpireSelected, InFlight
    <2> QED BY Zenon, <1>0, <1>z, <1>n, <2>1, AmountsFrame
  <1>11. CASE SelectLapsed \/ SkipSelected \/ Tick \/ UNCHANGED vars
    <2>1. UNCHANGED <<op, amount, journal, payment>>
      BY Zenon, <1>11 DEF SelectLapsed, SkipSelected, Tick, vars
    <2> QED BY Zenon, <1>0, <1>z, <1>n, <2>1, AmountsFrame
  <1> QED BY Zenon, <1>1, <1>2, <1>3, <1>4, <1>5, <1>6, <1>7, <1>8, <1>9, <1>10, <1>11 DEF Next,
      Request, Settle, Ops

\* The amounts and the status of the payment fit together in every reachable state.
THEOREM MoneyInvariance ==
  Spec => []MoneyInv
  <1>1. Init => MoneyInv
    BY Zenon, MoneyInit
  <1>2. MoneyInv /\ [Next]_vars => MoneyInv'
    BY Zenon, MoneyNext
  <1> QED BY <1>1, <1>2, PTL DEF Spec

\* Refunds in flight and done stay within the capture, and so do their journals.
THEOREM RefundsCoveredTheorem ==
  Spec => []RefundsCovered
  <1>1. MoneyInv => RefundsCovered
    <2> SUFFICES ASSUME GraphInv, Money PROVE RefundsCovered
      BY Zenon, MoneySplit
    <2> USE GraphFacts
    <2>0. TypeOK /\ {"auth", "capture", "void"} \subseteq Ops /\ Refunds \subseteq Ops
      BY Zenon DEF GraphInv, Ops
    <2>1. amount["capture"] <= amount["auth"]
      BY <2>0 DEF Money, GraphInv, TypeOK
    <2>2. SumFunction([r \in Refunds |-> journal[r]]) = RefundSum({"SUCCEEDED"})
      <3> DEFINE booked == [r \in Refunds |-> journal[r]]
      <3>1. \A r \in Refunds : Shares({"SUCCEEDED"})[r] \in Int /\ booked[r] = Shares({"SUCCEEDED"})[r]
        BY <2>0 DEF Shares, Money, GraphInv, TypeOK
      <3>2. SumFunction(booked) = SumFunctionOnSet(booked, Refunds)
        BY Zenon, PaySum
      <3> HIDE DEF booked
      <3>3. SumFunctionOnSet(booked, Refunds) = SumFunctionOnSet(Shares({"SUCCEEDED"}), Refunds)
        BY Zenon, <3>1, SumSame
      <3> QED BY Zenon, <3>2, <3>3, SumOfShares DEF booked
    <2>3. RefundSum({"SUCCEEDED"}) <= journal["capture"]
      <3>1. RefundSum({"SUCCEEDED"}) \in Nat /\ RefundSum(Live) \in Nat
        BY Zenon, <2>0, SharesType
      <3>2. RefundSum({"SUCCEEDED"}) <= RefundSum(Live)
        BY Zenon, <2>0, DoneIsReserved DEF Live
      <3>3. amount["capture"] \in Nat /\ journal["capture"] \in Nat
        BY <2>0 DEF TypeOK
      <3>4. CASE op["capture"] = "SUCCEEDED"
        BY <3>1, <3>2, <3>3, <3>4 DEF Money
      <3>5. CASE op["capture"] # "SUCCEEDED"
        BY <3>3, <3>5, NothingToSum
      <3> QED BY Zenon, <3>4, <3>5
    <2> QED BY Zenon, <2>1, <2>2, <2>3 DEF RefundsCovered, Money, Live
  <1>2. Spec => []MoneyInv
    BY Zenon, MoneyInvariance
  <1> QED BY <1>1, <1>2, PTL

\* The payment's status is always one its resources allow.
THEOREM NoStatusDriftTheorem ==
  Spec => []NoStatusDrift
  <1>1. MoneyInv => NoStatusDrift
    <2> SUFFICES ASSUME GraphInv, Money PROVE NoStatusDrift
      BY Zenon, MoneySplit
    <2>1. /\ RefundSum({"SUCCEEDED"}) \in Nat /\ RefundSum(Live) \in Nat
          /\ RefundSum({"SUCCEEDED"}) <= RefundSum(Live)
      BY Zenon, SharesType, DoneIsReserved DEF GraphInv, Live
    <2>2. amount["capture"] \in Nat
      BY GraphFacts DEF GraphInv, TypeOK, Ops
    <2>3. CASE op["capture"] = "SUCCEEDED"
      BY <2>1, <2>2, <2>3 DEF Money, NoStatusDrift
    <2>4. CASE op["capture"] # "SUCCEEDED"
      <3>1. RefundSum({"SUCCEEDED"}) = 0
        BY Zenon, <2>4, NothingToSum
      <3>2. CASE op["auth"] = "SUCCEEDED"
        <4>1. payment \in {"authorised", "failed", "expired", "cancelled"}
          BY Zenon, <2>4, <3>2 DEF GraphInv, TypeOK, PaymentStatus
        <4> QED BY <2>4, <3>1, <3>2, <4>1 DEF NoStatusDrift
      <3>3. CASE op["auth"] = "FAILED"
        <4>1. payment = "failed"
          BY Zenon, <2>4, <3>3 DEF GraphInv, TypeOK, PaymentStatus, EndsExclude
        <4> QED BY <2>4, <3>1, <3>3, <4>1 DEF NoStatusDrift
      <3>4. CASE op["auth"] \notin {"SUCCEEDED", "FAILED"}
        <4>1. payment = "created"
          BY Zenon, <3>4 DEF GraphInv
        <4> QED BY <2>4, <3>1, <3>4, <4>1 DEF NoStatusDrift
      <3> QED BY Zenon, <3>2, <3>3, <3>4
    <2> QED BY Zenon, <2>3, <2>4
  <1>2. Spec => []MoneyInv
    BY Zenon, MoneyInvariance
  <1> QED BY <1>1, <1>2, PTL

\* transition() accepts every outcome of every operation in flight.
THEOREM FinalizationNeverRefusedTheorem ==
  Spec => []FinalizationNeverRefused
  <1>1. MoneyInv => FinalizationNeverRefused
    <2> SUFFICES ASSUME GraphInv, Money, NEW o \in Ops, NEW outcome \in {"SUCCEEDED", "FAILED"},
                        op[o] \in {"PROCESSING", "REQUIRES_REVIEW"}
                 PROVE  Legal(o, outcome)
      BY Zenon, MoneySplit DEF FinalizationNeverRefused
    <2>1. CASE o \in {"auth", "capture", "void"}
      BY Zenon, <2>1 DEF GraphInv, Legal, Target, ALLOWED
    <2>2. CASE o \in Refunds
      <3>1. payment \in {"captured", "partially_refunded"}
        BY Zenon, <2>2, RefundLegal
      <3>2. o \notin {"auth", "capture", "void"}
        BY Zenon, <2>2, GraphFacts
      <3> QED BY Zenon, <3>1, <3>2 DEF Legal, Target, RefundTarget, ALLOWED
    <2> QED BY Zenon, <2>1, <2>2 DEF Ops
  <1>2. Spec => []MoneyInv
    BY Zenon, MoneyInvariance
  <1> QED BY <1>1, <1>2, PTL

-----------------------------------------------------------------------------
(* The fees.                                                               *)

\* What the model assumes of its constants.
LEMMA FeeFacts ==
  /\ Amounts \subseteq Nat \ {0}
  /\ Nothing \notin Nat
  /\ MaxVersion \in Nat /\ MaxTime \in Nat
  /\ \A t \in Schedules :
        /\ t.mdr \in Rates /\ t.gst \in Rates /\ t.fixed \in Nat
        /\ t.min # Nothing => t.min \in Nat
        /\ t.max # Nothing => t.max \in Nat
        /\ t.min # Nothing /\ t.max # Nothing => t.min <= t.max
  BY FeeAssumption DEF FeeConstants

\* A row of the schedule.
Versions == [terms : Schedules, from : Nat]

\* The inductive invariant.
FInv ==
    /\ now \in Nat
    /\ schedule \in Seq(Versions)
    /\ DOMAIN capture = Captures /\ DOMAIN posted = Captures
    /\ StoredSplitsExact
    /\ PostedAsStarted

\* _round_half_up_bps gives the nearest integer, halves up.
LEMMA RoundsToNearest ==
  ASSUME NEW n \in Nat
  PROVE  /\ RoundHalfUp(n) \in Nat
         /\ 2 * BPS_DENOMINATOR * RoundHalfUp(n) <= 2 * n + BPS_DENOMINATOR
         /\ 2 * n + BPS_DENOMINATOR < 2 * BPS_DENOMINATOR * (RoundHalfUp(n) + 1)
  BY DEF RoundHalfUp, BPS_DENOMINATOR

\* A rate is at most the whole.
LEMMA RateRange ==
  ASSUME NEW b \in Rates
  PROVE  b \in Nat /\ b <= 10000
  BY DEF Rates, BPS_DENOMINATOR

\* A product with a rate in basis points is a natural number.
LEMMA RateProduct ==
  ASSUME NEW a \in Nat, NEW b \in Rates
  PROVE  a * b \in Nat
  BY DEF Rates, BPS_DENOMINATOR

\* The tax of a fee is never more than the fee, for gst_bps <= 10000
\* (compute_capture_fee, the CHECK of the table).
THEOREM TaxWithinFee ==
  ASSUME NEW fee \in Nat, NEW t \in Schedules
  PROVE  Gst(fee, t) \in Nat /\ Gst(fee, t) <= fee
  <1>0. t.gst \in Rates
    BY FeeFacts
  <1>1. t.gst \in Nat /\ t.gst <= 10000
    BY <1>0, RateRange
  <1>2. fee * t.gst \in Nat /\ fee * t.gst <= fee * 10000
    BY <1>1
  <1> QED
    BY <1>2 DEF Gst, RoundHalfUp, BPS_DENOMINATOR

\* The fee is a natural number, keeps to both bounds, and is the rounded rate
\* plus the fixed part unless it is one of them.
LEMMA FeeBounds ==
  ASSUME NEW paid \in Nat, NEW t \in Schedules
  PROVE  /\ Fee(paid, t) \in Nat
         /\ t.min # Nothing => Fee(paid, t) >= t.min
         /\ t.max # Nothing => Fee(paid, t) <= t.max
         /\ Fee(paid, t) \notin {t.min, t.max} =>
              Fee(paid, t) = RoundHalfUp(paid * t.mdr) + t.fixed
  <1> DEFINE r == RoundHalfUp(paid * t.mdr) + t.fixed
  <1>1. r \in Nat
    BY FeeFacts, RateProduct, RoundsToNearest
  <1>2. /\ t.min # Nothing => t.min \in Nat
        /\ t.max # Nothing => t.max \in Nat
        /\ t.min # Nothing /\ t.max # Nothing => t.min <= t.max
    BY Zenon, FeeFacts
  <1>3. Fee(paid, t) = AtMost(AtLeast(r, t.min), t.max)
    BY Zenon DEF Fee
  <1> HIDE DEF r
  <1>4. CASE t.min = Nothing
    BY <1>1, <1>2, <1>3, <1>4 DEF AtMost, AtLeast, r
  <1>5. CASE t.min # Nothing
    BY <1>1, <1>2, <1>3, <1>5 DEF AtMost, AtLeast, r
  <1> QED
    BY Zenon, <1>4, <1>5

\* A split whose net is not negative is exact (compute_capture_fee).
THEOREM SplitIsExact ==
  ASSUME NEW paid \in Nat, NEW t \in Schedules, NEW version,
         Split(paid, t, version).net >= 0
  PROVE  ExactSplit(Split(paid, t, version), t)
  <1> DEFINE s == Split(paid, t, version)
  <1>1. /\ s.amount = paid
        /\ s.fee = Fee(paid, t)
        /\ s.gst = Gst(Fee(paid, t), t)
        /\ s.net = paid - s.fee - s.gst
    BY Zenon DEF Split, Net
  <1> HIDE DEF s
  <1>2. s.fee \in Nat /\ s.gst \in Nat
    BY Zenon, <1>1, FeeBounds, TaxWithinFee
  <1>3. s.fee + s.gst + s.net = s.amount
    BY <1>1, <1>2
  <1>4. s.net >= 0
    BY Zenon DEF s
  <1>5. /\ 2 * BPS_DENOMINATOR * s.gst <= 2 * (s.fee * t.gst) + BPS_DENOMINATOR
        /\ 2 * (s.fee * t.gst) + BPS_DENOMINATOR < 2 * BPS_DENOMINATOR * (s.gst + 1)
    <2>1. s.fee * t.gst \in Nat
      BY Zenon, <1>2, RateProduct, FeeFacts
    <2>2. s.gst = RoundHalfUp(s.fee * t.gst)
      BY Zenon, <1>1 DEF Gst
    <2> QED
      BY Zenon, <2>1, <2>2, RoundsToNearest
  <1>6. ASSUME s.fee \notin {t.min, t.max}
        PROVE  /\ 2 * BPS_DENOMINATOR * (s.fee - t.fixed)
                    <= 2 * (s.amount * t.mdr) + BPS_DENOMINATOR
               /\ 2 * (s.amount * t.mdr) + BPS_DENOMINATOR
                    < 2 * BPS_DENOMINATOR * ((s.fee - t.fixed) + 1)
    <2>1. paid * t.mdr \in Nat
      BY Zenon, RateProduct, FeeFacts
    <2>2. s.fee = RoundHalfUp(paid * t.mdr) + t.fixed
      BY Zenon, <1>1, <1>6, FeeBounds
    <2>3. s.fee - t.fixed = RoundHalfUp(paid * t.mdr)
      BY <2>1, <2>2, RoundsToNearest, FeeFacts
    <2> QED
      BY Zenon, <1>1, <2>1, <2>3, RoundsToNearest
  <1>7. /\ t.min # Nothing => s.fee >= t.min
        /\ t.max # Nothing => s.fee <= t.max
    BY Zenon, <1>1, FeeBounds
  <1> QED
    BY <1>2, <1>3, <1>4, <1>5, <1>6, <1>7 DEF ExactSplit, s

\* A set of numbers that is not empty and has a bound has a greatest element.
LEMMA GreatestExists ==
  ASSUME NEW n \in Nat, NEW T, T \subseteq 0 .. n, T # {}
  PROVE  \E v \in T : \A w \in T : w <= v
  <1> DEFINE D == {n - v : v \in T}
  <1>1. D \subseteq Nat /\ D # {}
    <2>1. \A v \in T : v \in Nat /\ n - v \in Nat
      OBVIOUS
    <2>2. D # {}
      <3>1. PICK v \in T : TRUE
        BY Zenon
      <3>2. n - v \in D
        BY Zenon, <3>1
      <3> QED
        BY Zenon, <3>2
    <2> QED
      BY Zenon, <2>1, <2>2
  <1>2. \E x \in D : \A y \in D : ~(<<y, x>> \in OpToRel(<, Nat))
    BY Zenon, <1>1, NatLessThanWellFounded, WFMin
  <1>3. \E x \in D : \A y \in D : x <= y
    <2>1. PICK x \in D : \A y \in D : ~(<<y, x>> \in OpToRel(<, Nat))
      BY Zenon, <1>2
    <2>2. ASSUME NEW y \in D PROVE x <= y
      <3>1. x \in Nat /\ y \in Nat
        BY Zenon, <1>1
      <3>2. ~(<<y, x>> \in OpToRel(<, Nat))
        BY Zenon, <2>1
      <3>3. ~(y < x)
        BY Zenon, <3>1, <3>2 DEF OpToRel
      <3> QED
        BY <3>1, <3>3
    <2> QED
      BY Zenon, <2>2
  <1>4. PICK v \in T : \A y \in D : n - v <= y
    BY Zenon, <1>3
  <1>5. \A w \in T : n - v <= n - w
    BY Zenon, <1>4
  <1> QED
    BY <1>4, <1>5

\* active_fee_schedule is 0 or a version of the schedule that is in effect.
LEMMA ActiveInEffect ==
  ASSUME schedule \in Seq(Versions)
  PROVE  \/ ActiveFeeSchedule = 0
         \/ /\ ActiveFeeSchedule \in DOMAIN schedule
            /\ schedule[ActiveFeeSchedule].from <= now
  <1> DEFINE effective == {v \in DOMAIN schedule : schedule[v].from <= now}
  <1>1. CASE effective = {}
    BY Zenon, <1>1 DEF ActiveFeeSchedule
  <1>2. CASE effective # {}
    <2>1. Len(schedule) \in Nat /\ effective \subseteq 0 .. Len(schedule)
      OBVIOUS
    <2>2. \E v \in effective : \A w \in effective : w <= v
      <3> HIDE DEF effective
      <3> QED
        BY Zenon, <1>2, <2>1, GreatestExists
    <2>3. ActiveFeeSchedule = CHOOSE v \in effective : \A w \in effective : w <= v
      BY Zenon, <1>2 DEF ActiveFeeSchedule
    <2>4. ActiveFeeSchedule \in effective
      <3> HIDE DEF effective
      <3> QED
        BY Zenon, <2>2, <2>3
    <2> QED
      BY Zenon, <2>4
  <1> QED
    BY Zenon, <1>1, <1>2

\* A row of the schedule has terms and a date.
LEMMA RowOfSchedule ==
  ASSUME NEW rows \in Seq(Versions), NEW v \in DOMAIN rows
  PROVE  rows[v].terms \in Schedules /\ rows[v].from \in Nat
  <1>1. rows[v] \in Versions
    OBVIOUS
  <1> QED
    BY Zenon, <1>1 DEF Versions

\* What StoredSplitsExact says of one split, whoever stores it.
Exact(s, versions, time) ==
    IF s.version = 0
    THEN s.fee = 0 /\ s.gst = 0 /\ s.net = s.amount
    ELSE /\ s.version \in DOMAIN versions
         /\ versions[s.version].from <= time
         /\ ExactSplit(s, versions[s.version].terms)

\* The split a capture is about to store is exact now (initiate_capture).
LEMMA CurrentSplitExact ==
  ASSUME schedule \in Seq(Versions), NEW paid \in Nat, CurrentSplit(paid).net >= 0
  PROVE  Exact(CurrentSplit(paid), schedule, now)
  <1>1. CASE ActiveFeeSchedule = 0
    BY Zenon, <1>1 DEF CurrentSplit, NoFee, Exact
  <1>2. CASE ActiveFeeSchedule # 0
    <2> DEFINE v == ActiveFeeSchedule
               t == schedule[v].terms
    <2>1. v \in DOMAIN schedule /\ schedule[v].from <= now
      BY Zenon, <1>2, ActiveInEffect
    <2>2. t \in Schedules
      BY Zenon, <2>1, RowOfSchedule
    <2>3. CurrentSplit(paid) = Split(paid, t, v)
      BY Zenon, <1>2 DEF CurrentSplit
    <2> HIDE DEF v, t
    <2>4. ExactSplit(Split(paid, t, v), t)
      BY Zenon, <2>2, <2>3, SplitIsExact
    <2>5. Split(paid, t, v).version = v
      BY Zenon DEF Split
    <2> QED
      BY Zenon, <1>2, <2>1, <2>3, <2>4, <2>5 DEF Exact, v, t
  <1> QED
    BY Zenon, <1>1, <1>2

\* A split stays exact when time passes and versions are appended.
LEMMA ExactStays ==
  ASSUME schedule \in Seq(Versions), now \in Nat, NEW s, Exact(s, schedule, now),
         NEW time \in Nat, now <= time,
         NEW versions \in Seq(Versions), Len(schedule) <= Len(versions),
         \A v \in DOMAIN schedule : versions[v] = schedule[v]
  PROVE  Exact(s, versions, time)
  <1>1. CASE s.version = 0
    BY Zenon, <1>1 DEF Exact
  <1>2. CASE s.version # 0
    <2>1. /\ s.version \in DOMAIN schedule
          /\ schedule[s.version].from <= now
          /\ ExactSplit(s, schedule[s.version].terms)
      BY Zenon, <1>2 DEF Exact
    <2>2. s.version \in DOMAIN versions /\ versions[s.version] = schedule[s.version]
      BY <2>1
    <2>3. schedule[s.version].from \in Nat
      BY Zenon, <2>1, RowOfSchedule
    <2>4. versions[s.version].from <= time
      BY <2>1, <2>2, <2>3
    <2> QED
      BY Zenon, <1>2, <2>1, <2>2, <2>4 DEF Exact
  <1> QED
    BY Zenon, <1>1, <1>2

\* Every step keeps the invariant: versions are only appended, a capture stores
\* its split once, and posted copies it.
LEMMA StepKeepsFInv ==
  FInv /\ [FeeNext]_feeVars => FInv'
  <1> SUFFICES ASSUME FInv, [FeeNext]_feeVars PROVE FInv'
    BY Zenon
  <1>0. /\ now \in Nat /\ schedule \in Seq(Versions)
        /\ DOMAIN capture = Captures /\ DOMAIN posted = Captures
        /\ \A c \in Captures : capture[c] # Nothing => Exact(capture[c], schedule, now)
        /\ PostedAsStarted
    BY Zenon DEF FInv, StoredSplitsExact, Exact
  <1>s. SUFFICES /\ now' \in Nat /\ schedule' \in Seq(Versions)
                 /\ DOMAIN capture' = Captures /\ DOMAIN posted' = Captures
                 /\ \A c \in Captures : capture'[c] # Nothing => Exact(capture'[c], schedule', now')
                 /\ PostedAsStarted'
    BY Zenon, <1>s DEF FInv, StoredSplitsExact, Exact
  <1>1. ASSUME NEW t \in Schedules, NEW from \in 0 .. MaxTime, CreateFeeScheduleVersion(t, from)
        PROVE  /\ now' \in Nat /\ schedule' \in Seq(Versions)
               /\ DOMAIN capture' = Captures /\ DOMAIN posted' = Captures
               /\ \A c \in Captures : capture'[c] # Nothing => Exact(capture'[c], schedule', now')
               /\ PostedAsStarted'
    <2> DEFINE row == [terms |-> t, from |-> from]
    <2>1. row \in Versions
      BY FeeFacts DEF Versions
    <2>2. /\ schedule' = Append(schedule, row) /\ now' = now
          /\ capture' = capture /\ posted' = posted
      BY Zenon, <1>1 DEF CreateFeeScheduleVersion
    <2> HIDE DEF row
    <2>3. /\ schedule' \in Seq(Versions) /\ Len(schedule) <= Len(schedule')
          /\ \A v \in DOMAIN schedule : schedule'[v] = schedule[v]
      BY <1>0, <2>1, <2>2
    <2>4. now' \in Nat /\ now <= now'
      BY <1>0, <2>2
    <2>5. \A c \in Captures : capture'[c] # Nothing => Exact(capture'[c], schedule', now')
      BY Zenon, <1>0, <2>2, <2>3, <2>4, ExactStays
    <2> QED
      BY Zenon, <1>0, <2>2, <2>3, <2>5 DEF PostedAsStarted
  <1>2. ASSUME NEW c \in Captures, PostCapture(c)
        PROVE  /\ now' \in Nat /\ schedule' \in Seq(Versions)
               /\ DOMAIN capture' = Captures /\ DOMAIN posted' = Captures
               /\ \A d \in Captures : capture'[d] # Nothing => Exact(capture'[d], schedule', now')
               /\ PostedAsStarted'
    BY Zenon, <1>0, <1>2 DEF PostCapture, StoredLegs, PostedAsStarted
  <1>3. ASSUME NEW c \in Captures, NEW paid \in Amounts, StartCapture(c, paid)
        PROVE  /\ now' \in Nat /\ schedule' \in Seq(Versions)
               /\ DOMAIN capture' = Captures /\ DOMAIN posted' = Captures
               /\ \A d \in Captures : capture'[d] # Nothing => Exact(capture'[d], schedule', now')
               /\ PostedAsStarted'
    <2>1. paid \in Nat
      BY Zenon, FeeFacts
    <2>2. /\ capture[c] = Nothing /\ CurrentSplit(paid).net >= 0
          /\ capture' = [capture EXCEPT ![c] = CurrentSplit(paid)]
          /\ now' = now /\ schedule' = schedule /\ posted' = posted
      BY Zenon, <1>3 DEF StartCapture
    <2>3. Exact(CurrentSplit(paid), schedule, now)
      BY Zenon, <1>0, <2>1, <2>2, CurrentSplitExact
    <2>4. ASSUME NEW d \in Captures, capture'[d] # Nothing
          PROVE  Exact(capture'[d], schedule', now')
      BY Zenon, <1>0, <2>2, <2>3, <2>4
    <2>5. PostedAsStarted'
      BY Zenon, <1>0, <2>2 DEF PostedAsStarted
    <2> QED
      BY Zenon, <1>0, <2>2, <2>4, <2>5
  <1>4. ASSUME ClockTick
        PROVE  /\ now' \in Nat /\ schedule' \in Seq(Versions)
               /\ DOMAIN capture' = Captures /\ DOMAIN posted' = Captures
               /\ \A c \in Captures : capture'[c] # Nothing => Exact(capture'[c], schedule', now')
               /\ PostedAsStarted'
    <2>1. /\ now' = now + 1 /\ schedule' = schedule
          /\ capture' = capture /\ posted' = posted
      BY Zenon, <1>4 DEF ClockTick
    <2>2. now' \in Nat /\ now <= now'
      BY <1>0, <2>1
    <2>3. \A c \in Captures : capture'[c] # Nothing => Exact(capture'[c], schedule', now')
      BY <1>0, <2>1, <2>2, ExactStays
    <2> QED
      BY Zenon, <1>0, <2>1, <2>2, <2>3 DEF PostedAsStarted
  <1>5. CASE UNCHANGED feeVars
    BY Zenon, <1>0, <1>5 DEF feeVars, PostedAsStarted
  <1> QED
    BY Zenon, <1>1, <1>2, <1>3, <1>4, <1>5 DEF FeeNext

\* The invariant holds of every behaviour.
LEMMA FInvHolds ==
  FeeSpec => []FInv
  <1>1. FeeInit => FInv
    BY DEF FeeInit, FInv, StoredSplitsExact, PostedAsStarted
  <1>2. FInv /\ [FeeNext]_feeVars => FInv'
    BY Zenon, StepKeepsFInv
  <1> QED
    BY <1>1, <1>2, PTL DEF FeeSpec

\* Whatever the captures, the amounts and the terms, a capture is charged by the
\* version in effect when it started, to the paisa, and its journal has the legs
\* fixed then (initiate_capture, compute_capture_fee, post_capture_journal).
THEOREM ChargedExactlyTheorem ==
  FeeSpec => []ChargedExactly
  <1>1. FInv => ChargedExactly
    BY Zenon DEF FInv, ChargedExactly
  <1>2. FeeSpec => []FInv
    BY Zenon, FInvHolds
  <1> QED
    BY <1>1, <1>2, PTL

==============================================================================
