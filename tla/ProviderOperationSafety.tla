----------------------- MODULE ProviderOperationSafety ----------------------
(***************************************************************************)
(* Every step keeps the delays, on which absence rests, and Absence: with  *)
(* the delay bounds a not-found after the grace is a real absence.  Every  *)
(* step keeps Inbox: webhook rows, attempts and the jobs on them agree.    *)
(* So the inductive invariant holds for every value of the constants; the  *)
(* safety properties and the contract follow from it.                      *)
(***************************************************************************)
EXTENDS ProviderOperationProofs

-----------------------------------------------------------------------------
(* Delays.                                                                  *)

\* A send is pending only from its record on, only a pending send has an
\* effect, and only time ages it.
SendProgress ==
    /\ Sent /\ SendPending' => SendPending
    /\ ~Sent /\ SendPending' => sentAge' = 0
    /\ effect' # effect => SendPending
    /\ Sent /\ sentAge' # sentAge => Tick

\* A send is pending only from its record on, and only a pending send has an effect.
LEMMA SendStep ==
  ASSUME TypeOK, Control, Sends, [Next]_vars
  PROVE  SendProgress
  <1> USE ConstantsAssumption
  <1>0. ~Sent => ~SendPending
    BY Zenon DEF Sends, Sending, SendPending
  <1>1. ASSUME NEW w \in Workers, NEW k \in Keys, Initiate(w, k) PROVE SendProgress
    BY Zenon, <1>0, <1>1 DEF Initiate, Start, Goto, SendProgress, SendPending, Sent,
       opVars, providerVars, workerVars, TypeOK, WorkerTypeOK
  <1>2. ASSUME NEW w \in Workers, ClaimUnsent(w) PROVE SendProgress
    BY Zenon, <1>0, <1>2 DEF ClaimUnsent, Start, Goto, SendProgress, SendPending, Sent,
       opVars, providerVars, workerVars, TypeOK, WorkerTypeOK
  <1>3. ASSUME NEW w \in Workers, ClaimDue(w) \/ ClaimForReview(w) PROVE SendProgress
    BY Zenon, <1>0, <1>3 DEF ClaimDue, ClaimForReview, Claim, Start, Goto, SendProgress,
       SendPending, Sent, opVars, providerVars, workerVars, TypeOK, WorkerTypeOK
  <1>4. ASSUME NEW w \in Workers, NEW e \in Events, ClaimEvent(w, e) PROVE SendProgress
    BY Zenon, <1>0, <1>4 DEF ClaimEvent, Claimable, Start, Goto, SendProgress, SendPending,
       Sent, opVars, providerVars, workerVars, TypeOK, WorkerTypeOK
  <1>5. ASSUME NEW w \in Workers, PrepareFirstSend(w) PROVE SendProgress
    <2>1. CASE Terminal \/ Sent
      <3>1. UNCHANGED <<effect, wire, sentAge>>
        BY Zenon, <1>5, <2>1 DEF PrepareFirstSend, LookupOnly, opVars, providerVars
      <3>2. \A v \in Workers : pc'[v] = "mutate" => pc[v] = "mutate"
        BY Zenon, <1>5, <2>1 DEF PrepareFirstSend, LookupOnly, Finish, Goto, TypeOK, WorkerTypeOK
      <3>3. SendPending' => SendPending
        BY Zenon, <3>1, <3>2 DEF SendPending
      <3> QED BY Zenon, <1>0, <3>1, <3>3 DEF SendProgress
    <2>2. CASE ~Terminal /\ ~Sent
      BY Zenon, <1>5, <2>2 DEF PrepareFirstSend, LookupOnly, providerVars, SendProgress
    <2> QED BY Zenon, <2>1, <2>2
  <1>6. ASSUME NEW w \in Workers, SendMutation(w) PROVE SendProgress
    <2>1. SendPending /\ UNCHANGED <<effect, sentAge>>
      BY Zenon, <1>6 DEF SendMutation, SendPending, opVars
    <2>2. Sent
      BY Zenon, <1>6 DEF SendMutation, Sends, Sending
    <2> QED BY Zenon, <2>1, <2>2 DEF SendProgress
  <1>7. ASSUME NEW w \in Workers, ReceiveMutation(w) PROVE SendProgress
    BY Zenon, <1>0, <1>7 DEF ReceiveMutation, Goto, SendProgress, SendPending, Sent,
       opVars, providerVars, workerVars, TypeOK, WorkerTypeOK
  <1>8. ASSUME NEW w \in Workers, CompleteMutation(w) PROVE SendProgress
    <2>1. UNCHANGED <<effect, wire, sends, sentAge>>
      BY Zenon, <1>8 DEF CompleteMutation, providerVars
    <2>2. \A v \in Workers : pc'[v] = "mutate" => pc[v] = "mutate"
      BY Zenon, <1>8, CompleteMutationEffect DEF OthersUndisturbed
    <2>3. SendPending' => SendPending
      BY Zenon, <2>1, <2>2 DEF SendPending
    <2>4. ~Sent => ~SendPending
      BY Zenon DEF Sends, Sending, SendPending
    <2> QED BY Zenon, <2>1, <2>3, <2>4 DEF SendProgress
  <1>9. ASSUME NEW w \in Workers, Answer(w) PROVE SendProgress
    BY Zenon, <1>0, <1>9 DEF Answer, Goto, SendProgress, SendPending, Sent, opVars,
       providerVars, workerVars, TypeOK, WorkerTypeOK
  <1>10. ASSUME NEW w \in Workers, Lookup(w) PROVE SendProgress
    BY Zenon, <1>0, <1>10 DEF Lookup, Goto, SendProgress, SendPending, Sent, opVars,
       providerVars, workerVars, TypeOK, WorkerTypeOK
  <1>11. ASSUME NEW w \in Workers, RecordLookup(w) PROVE SendProgress
    <2>1. UNCHANGED <<effect, wire, sentAge>>
      BY Zenon, <1>11, RecordLookupEffect DEF RecordLookup, opVars, providerVars
    <2>2. \A v \in Workers : pc'[v] = "mutate" => pc[v] = "mutate"
      BY Zenon, <1>11, RecordLookupEffect DEF OthersUndisturbed
    <2>3. SendPending' => SendPending
      BY Zenon, <2>1, <2>2 DEF SendPending
    <2>4. Sent
      BY Zenon, <1>11, RecordLookupEffect
    <2> QED BY Zenon, <2>1, <2>3, <2>4 DEF SendProgress
  <1>12. ASSUME NEW w \in Workers, ApplyFinalize(w) PROVE SendProgress
    BY Zenon, <1>0, <1>12 DEF ApplyFinalize, FinalizeVerifiedAttempt, Settle, Finish,
       Forget, Goto, SendProgress, SendPending, Sent, opVars, providerVars,
       workerVars, TypeOK, WorkerTypeOK
  <1>13. ASSUME NEW w \in Workers, ApplyFails(w) PROVE SendProgress
    BY Zenon, <1>0, <1>13 DEF ApplyFails, Goto, SendProgress, SendPending, Sent, opVars,
       providerVars, workerVars, TypeOK, WorkerTypeOK
  <1>14. ASSUME NEW w \in Workers, RecordApplyFailure(w) PROVE SendProgress
    BY Zenon, <1>0, <1>14 DEF RecordApplyFailure, CountApplyFailure, Finish, Forget, Goto,
       SendProgress, SendPending, Sent, opVars, providerVars, workerVars, TypeOK,
       WorkerTypeOK
  <1>15. ASSUME NEW w \in Workers, ApplyReview(w) PROVE SendProgress
    BY Zenon, <1>0, <1>15 DEF ApplyReview, MarkOperationForReview, Finish, Forget, Goto,
       SendProgress, SendPending, Sent, opVars, providerVars, workerVars, TypeOK,
       WorkerTypeOK
  <1>16. ASSUME NEW e \in Events, AcceptEvent(e) PROVE SendProgress
    BY Zenon, <1>0, <1>16 DEF AcceptEvent, SendProgress, SendPending, Sent, opVars,
       providerVars, workerVars, TypeOK, WorkerTypeOK
  <1>17. ASSUME NEW e \in Events, DeadLetter(e) PROVE SendProgress
    BY Zenon, <1>0, <1>17 DEF DeadLetter, Closed, SendProgress, SendPending, Sent, opVars,
       providerVars, workerVars, TypeOK, WorkerTypeOK
  <1>18. ASSUME NEW w \in Workers, PrepareEvent(w) PROVE SendProgress
    <2>1. UNCHANGED <<effect, wire, sends, sentAge>>
      BY Zenon, <1>18 DEF PrepareEvent, providerVars
    <2>2. \A v \in Workers : pc'[v] = "mutate" => pc[v] = "mutate"
      BY Zenon, <1>18, PrepareEventEffect DEF OthersUndisturbed
    <2>3. SendPending' => SendPending
      BY Zenon, <2>1, <2>2 DEF SendPending
    <2>4. ~Sent => ~SendPending
      BY Zenon DEF Sends, Sending, SendPending
    <2> QED BY Zenon, <2>1, <2>3, <2>4 DEF SendProgress
  <1>19. ASSUME NEW w \in Workers, FinishEvent(w) PROVE SendProgress
    BY Zenon, <1>0, <1>19 DEF FinishEvent, Closed, Finish, Forget, Goto, SendProgress,
       SendPending, Sent, opVars, providerVars, workerVars, TypeOK, WorkerTypeOK
  <1>20. ASSUME ProviderReceives PROVE SendProgress
    BY Zenon, <1>0, <1>20 DEF ProviderReceives, SendProgress, SendPending, Sent, opVars,
       providerVars, workerVars, TypeOK, WorkerTypeOK
  <1>21. ASSUME NEW w \in Workers, Crash(w) PROVE SendProgress
    BY Zenon, <1>0, <1>21 DEF Crash, Forget, Goto, SendProgress, SendPending, Sent, opVars,
       providerVars, workerVars, TypeOK, WorkerTypeOK
  <1>22. ASSUME Tick PROVE SendProgress
    <2>1. SendPending' <=> SendPending
      BY Zenon, <1>22 DEF Tick, SendPending, providerVars
    <2>2. ~Sent => ~SendPending
      BY Zenon DEF Sends, Sending, SendPending
    <2> QED BY Zenon, <1>22, <2>1, <2>2 DEF Tick, providerVars, SendProgress
  <1>23. ASSUME UNCHANGED vars PROVE SendProgress
    BY Zenon, <1>0, <1>23 DEF vars, SendProgress, SendPending, Sent, opVars, providerVars,
       workerVars, TypeOK, WorkerTypeOK
  <1> QED
    BY Zenon, <1>1, <1>2, <1>3, <1>4, <1>5, <1>6, <1>7, <1>8, <1>9, <1>10, <1>11, <1>12,
       <1>13, <1>14, <1>15, <1>16, <1>17, <1>18, <1>19, <1>20, <1>21, <1>22, <1>23
       DEF Next, Proceed

\* A send that is pending is recent.
LEMMA SendInTimeNext ==
  ASSUME TypeOK, Control, Sends, Timely, SendInTime, [Next]_vars
  PROVE  SendInTime'
  <1> USE ConstantsAssumption
  <1> SUFFICES ASSUME SendPending' PROVE sentAge' <= SendDelay
    BY Zenon DEF SendInTime
  <1>1. CASE ~Sent
    BY <1>1, SendStep DEF SendProgress
  <1>2. CASE Sent /\ sentAge' = sentAge
    BY Zenon, <1>2, SendStep DEF SendInTime, SendProgress
  <1>3. CASE Sent /\ sentAge' # sentAge
    <2>1. Tick /\ SendPending
      BY Zenon, <1>3, SendStep DEF SendProgress
    <2>2. sentAge < SendDelay
      BY Zenon, <2>1 DEF Tick, InTime
    <2>3. sentAge \in Nat /\ sentAge' \in Nat /\ sentAge' <= sentAge + 1
      BY Zenon, <1>3, <2>1, TickSent DEF TypeOK
    <2> QED BY <2>2, <2>3
  <1> QED BY Zenon, <1>1, <1>2, <1>3

\* A lookup under way is recent.
LEMMA LookupsInTimeNext ==
  ASSUME TypeOK, Control, Sends, Timely, LookupsInTime, [Next]_vars
  PROVE  LookupsInTime'
  <1> USE ConstantsAssumption
  <1>0. ASSUME \A v \in Workers :
                 \/ age'[v] = 0
                 \/ age'[v] = age[v] /\ (Looking(v)' <=> Looking(v))
        PROVE  LookupsInTime'
    <2> SUFFICES ASSUME NEW v \in Workers
                 PROVE  age'[v] <= IF Looking(v)' THEN LookupDelay ELSE 0
      BY Zenon DEF LookupsInTime
    <2>1. age[v] <= IF Looking(v) THEN LookupDelay ELSE 0
      BY Zenon DEF LookupsInTime
    <2>2. CASE age'[v] = 0
      BY ONLY <2>2, ConstantsAssumption
    <2>3. CASE age'[v] = age[v] /\ (Looking(v)' <=> Looking(v))
      BY Zenon, <2>1, <2>3
    <2> QED BY Zenon, <1>0, <2>2, <2>3
  <1>00. \A v \in Workers : ~Looking(v) => age[v] = 0
    BY DEF LookupsInTime, TypeOK, WorkerTypeOK
  <1>1. ASSUME NEW w \in Workers, NEW k \in Keys, Initiate(w, k) PROVE LookupsInTime'
    BY Zenon, <1>0, <1>00, <1>1 DEF Initiate, Start, Goto, Looking, workerVars, TypeOK,
       WorkerTypeOK
  <1>2. ASSUME NEW w \in Workers, ClaimUnsent(w) PROVE LookupsInTime'
    BY Zenon, <1>0, <1>00, <1>2 DEF ClaimUnsent, Start, Goto, Looking, workerVars, TypeOK,
       WorkerTypeOK
  <1>3. ASSUME NEW w \in Workers, ClaimDue(w) \/ ClaimForReview(w) PROVE LookupsInTime'
    <2>1. /\ age' = age /\ ~Looking(w)
          /\ \A v \in Workers \ {w} : pc'[v] = pc[v]
      BY Zenon, <1>3 DEF ClaimDue, ClaimForReview, Claim, Start, Goto, Looking, TypeOK, WorkerTypeOK
    <2> QED BY Zenon, <1>0, <1>00, <2>1 DEF Looking
  <1>4. ASSUME NEW w \in Workers, NEW e \in Events, ClaimEvent(w, e) PROVE LookupsInTime'
    BY Zenon, <1>0, <1>00, <1>4 DEF ClaimEvent, Claimable, Start, Goto, Looking,
       workerVars, TypeOK, WorkerTypeOK
  <1>5. ASSUME NEW w \in Workers, PrepareFirstSend(w) PROVE LookupsInTime'
    <2>1. pc[w] = "dispatch"
      BY Zenon, <1>5 DEF PrepareFirstSend
    <2>2. /\ age'[w] = 0
          /\ \A v \in Workers \ {w} : pc'[v] = pc[v] /\ age'[v] = age[v]
      BY Zenon, <1>00, <1>5, <2>1 DEF PrepareFirstSend, Finish, Forget, Goto, Looking, TypeOK,
         WorkerTypeOK
    <2> QED BY Zenon, <1>0, <2>2 DEF Looking
  <1>6. ASSUME NEW w \in Workers, SendMutation(w) PROVE LookupsInTime'
    BY Zenon, <1>0, <1>00, <1>6 DEF SendMutation, Goto, Looking, workerVars, TypeOK,
       WorkerTypeOK
  <1>7. ASSUME NEW w \in Workers, ReceiveMutation(w) PROVE LookupsInTime'
    BY Zenon, <1>0, <1>00, <1>7 DEF ReceiveMutation, Goto, Looking, workerVars, TypeOK,
       WorkerTypeOK
  <1>8. ASSUME NEW w \in Workers, CompleteMutation(w) PROVE LookupsInTime'
    <2>1. age'[w] = 0 /\ OthersUndisturbed(w)
      BY Zenon, <1>8, CompleteMutationEffect
    <2> QED BY Zenon, <1>0, <2>1 DEF OthersUndisturbed, Looking
  <1>9. ASSUME NEW w \in Workers, Answer(w) PROVE LookupsInTime'
    BY Zenon, <1>0, <1>00, <1>9 DEF Answer, Goto, Looking, workerVars, TypeOK, WorkerTypeOK
  <1>10. ASSUME NEW w \in Workers, Lookup(w) PROVE LookupsInTime'
    BY Zenon, <1>0, <1>00, <1>10 DEF Lookup, Goto, Looking, workerVars, TypeOK,
       WorkerTypeOK
  <1>11. ASSUME NEW w \in Workers, RecordLookup(w) PROVE LookupsInTime'
    <2>1. age'[w] = 0 /\ OthersUndisturbed(w)
      BY Zenon, <1>11, RecordLookupEffect
    <2> QED BY Zenon, <1>0, <2>1 DEF OthersUndisturbed, Looking
  <1>12. ASSUME NEW w \in Workers, ApplyFinalize(w) PROVE LookupsInTime'
    BY Zenon, <1>0, <1>00, <1>12 DEF ApplyFinalize, Finish, Forget, Goto, Looking,
       workerVars, TypeOK, WorkerTypeOK
  <1>13. ASSUME NEW w \in Workers, ApplyFails(w) PROVE LookupsInTime'
    BY Zenon, <1>0, <1>00, <1>13 DEF ApplyFails, Goto, Looking, workerVars, TypeOK,
       WorkerTypeOK
  <1>14. ASSUME NEW w \in Workers, RecordApplyFailure(w) PROVE LookupsInTime'
    BY Zenon, <1>0, <1>00, <1>14 DEF RecordApplyFailure, CountApplyFailure, Finish, Forget,
       Goto, Looking, workerVars, TypeOK, WorkerTypeOK
  <1>15. ASSUME NEW w \in Workers, ApplyReview(w) PROVE LookupsInTime'
    BY Zenon, <1>0, <1>00, <1>15 DEF ApplyReview, MarkOperationForReview, Finish, Forget,
       Goto, Looking, workerVars, TypeOK, WorkerTypeOK
  <1>16. ASSUME NEW e \in Events, AcceptEvent(e) PROVE LookupsInTime'
    BY Zenon, <1>0, <1>00, <1>16 DEF AcceptEvent, Looking, workerVars, TypeOK, WorkerTypeOK
  <1>17. ASSUME NEW e \in Events, DeadLetter(e) PROVE LookupsInTime'
    BY Zenon, <1>0, <1>00, <1>17 DEF DeadLetter, Looking, workerVars, TypeOK, WorkerTypeOK
  <1>18. ASSUME NEW w \in Workers, PrepareEvent(w) PROVE LookupsInTime'
    <2>1. age'[w] = 0 /\ OthersUndisturbed(w)
      BY Zenon, <1>18, PrepareEventEffect
    <2> QED BY Zenon, <1>0, <2>1 DEF OthersUndisturbed, Looking
  <1>19. ASSUME NEW w \in Workers, FinishEvent(w) PROVE LookupsInTime'
    BY Zenon, <1>0, <1>00, <1>19 DEF FinishEvent, Finish, Forget, Goto, Looking,
       workerVars, TypeOK, WorkerTypeOK
  <1>20. ASSUME ProviderReceives PROVE LookupsInTime'
    BY Zenon, <1>0, <1>00, <1>20 DEF ProviderReceives, Looking, workerVars, TypeOK,
       WorkerTypeOK
  <1>21. ASSUME NEW w \in Workers, Crash(w) PROVE LookupsInTime'
    <2>1. /\ age'[w] = 0
          /\ \A v \in Workers \ {w} : pc'[v] = pc[v] /\ age'[v] = age[v]
      BY Zenon, <1>21 DEF Crash, Forget, Goto, TypeOK, WorkerTypeOK
    <2> QED BY Zenon, <1>0, <2>1 DEF Looking
  <1>22. ASSUME Tick PROVE LookupsInTime'
    <2>1. \A v \in Workers : /\ Looking(v)' <=> Looking(v)
                             /\ age'[v] = IF Looking(v) THEN age[v] + 1 ELSE age[v]
                             /\ Looking(v) => age[v] < LookupDelay
      BY Zenon, <1>22 DEF Tick, InTime, Looking
    <2>2. \A v \in Workers : age[v] \in Nat
      BY Zenon DEF TypeOK, WorkerTypeOK
    <2> QED BY <2>1, <2>2 DEF LookupsInTime
  <1>23. ASSUME UNCHANGED vars PROVE LookupsInTime'
    BY Zenon, <1>0, <1>00, <1>23 DEF vars, Looking, workerVars, TypeOK, WorkerTypeOK
  <1> QED
    BY Zenon, <1>1, <1>2, <1>3, <1>4, <1>5, <1>6, <1>7, <1>8, <1>9, <1>10, <1>11, <1>12,
       <1>13, <1>14, <1>15, <1>16, <1>17, <1>18, <1>19, <1>20, <1>21, <1>22, <1>23
       DEF Next, Proceed

\* A lookup that missed an effect happened soon after the send.
LEMMA MissedEffectNext ==
  ASSUME TypeOK, Control, Sends, Timely, SendInTime, MissedEffectIsRecent, [Next]_vars
  PROVE  MissedEffectIsRecent'
  <1> USE ConstantsAssumption
  <1>0. ASSUME Sent => sentAge' = sentAge,
               \A v \in Workers : pc'[v] = "record" =>
                 /\ pc[v] = "record" /\ seen'[v] = seen[v] /\ age'[v] = age[v]
        PROVE  MissedEffectIsRecent'
    <2> SUFFICES ASSUME NEW v \in Workers, pc'[v] = "record", seen'[v] = "NOT_FOUND",
                        effect' # None \/ SendPending'
                 PROVE  sentAge' <= SendDelay + age'[v]
      BY Zenon DEF MissedEffectIsRecent
    <2>1. pc[v] = "record" /\ seen[v] = "NOT_FOUND" /\ age'[v] = age[v]
      BY Zenon, <1>0
    <2>2. Sent
      BY Zenon, <2>1 DEF Control, Looking
    <2>3. effect # None \/ SendPending
      BY Zenon, <2>2, SendStep DEF SendProgress
    <2>4. sentAge' = sentAge
      BY Zenon, <1>0, <2>2
    <2> QED BY Zenon, <2>1, <2>3, <2>4 DEF MissedEffectIsRecent
  <1>1. ASSUME NEW w \in Workers, NEW k \in Keys, Initiate(w, k) PROVE MissedEffectIsRecent'
    BY Zenon, <1>0, <1>1 DEF Initiate, Start, Goto, Sent, opVars, workerVars, TypeOK,
       WorkerTypeOK
  <1>2. ASSUME NEW w \in Workers, ClaimUnsent(w) PROVE MissedEffectIsRecent'
    BY Zenon, <1>0, <1>2 DEF ClaimUnsent, Start, Goto, Sent, opVars, workerVars, TypeOK,
       WorkerTypeOK
  <1>3. ASSUME NEW w \in Workers, ClaimDue(w) \/ ClaimForReview(w) PROVE MissedEffectIsRecent'
    BY Zenon, <1>0, <1>3 DEF ClaimDue, ClaimForReview, Claim, Start, Goto, Sent, opVars,
       workerVars, TypeOK, WorkerTypeOK
  <1>4. ASSUME NEW w \in Workers, NEW e \in Events, ClaimEvent(w, e) PROVE MissedEffectIsRecent'
    BY Zenon, <1>0, <1>4 DEF ClaimEvent, Claimable, Start, Goto, Sent, opVars, workerVars,
       TypeOK, WorkerTypeOK
  <1>5. ASSUME NEW w \in Workers, PrepareFirstSend(w) PROVE MissedEffectIsRecent'
    BY Zenon, <1>0, <1>5 DEF PrepareFirstSend, LookupOnly, Finish, Forget, Goto, Sent,
       opVars, workerVars, TypeOK, WorkerTypeOK
  <1>6. ASSUME NEW w \in Workers, SendMutation(w) PROVE MissedEffectIsRecent'
    BY Zenon, <1>0, <1>6 DEF SendMutation, Goto, Sent, opVars, workerVars, TypeOK,
       WorkerTypeOK
  <1>7. ASSUME NEW w \in Workers, ReceiveMutation(w) PROVE MissedEffectIsRecent'
    BY Zenon, <1>0, <1>7 DEF ReceiveMutation, Goto, Sent, opVars, workerVars, TypeOK,
       WorkerTypeOK
  <1>8. ASSUME NEW w \in Workers, CompleteMutation(w) PROVE MissedEffectIsRecent'
    <2>1. sentAge' = sentAge
      BY Zenon, <1>8, CompleteMutationEffect DEF CompleteMutation
    <2>2. pc'[w] \in {"answer", "idle", "apply"} /\ OthersUndisturbed(w)
      BY Zenon, <1>8, CompleteMutationEffect
    <2> QED BY Zenon, <1>0, <2>1, <2>2 DEF OthersUndisturbed
  <1>9. ASSUME NEW w \in Workers, Answer(w) PROVE MissedEffectIsRecent'
    BY Zenon, <1>0, <1>9 DEF Answer, Goto, Sent, opVars, workerVars, TypeOK, WorkerTypeOK
  <1>10. ASSUME NEW w \in Workers, Lookup(w) PROVE MissedEffectIsRecent'
    <2> SUFFICES ASSUME NEW v \in Workers, pc'[v] = "record", seen'[v] = "NOT_FOUND",
                        effect' # None \/ SendPending'
                 PROVE  sentAge' <= SendDelay + age'[v]
      BY Zenon DEF MissedEffectIsRecent
    <2>1. UNCHANGED <<effect, sentAge, age>>
      BY Zenon, <1>10 DEF Lookup, providerVars, opVars
    <2>2. CASE v # w
      <3>1. pc[v] = "record" /\ seen[v] = "NOT_FOUND"
        BY Zenon, <1>10, <2>2 DEF Lookup, Goto, TypeOK, WorkerTypeOK
      <3>2. effect # None \/ SendPending
        BY Zenon, <2>1, <3>1, SendStep DEF SendProgress, Control, Looking
      <3> QED BY Zenon, <2>1, <3>1, <3>2 DEF MissedEffectIsRecent
    <2>3. CASE v = w
      <3>1. PICK o \in {"ERROR", "INVALID", IF effect = None THEN "NOT_FOUND" ELSE effect} :
              seen' = [seen EXCEPT ![w] = o]
        BY Zenon, <1>10 DEF Lookup
      <3>2. o = "NOT_FOUND"
        BY Zenon, <2>3, <3>1 DEF TypeOK, WorkerTypeOK
      <3>3. effect = None
        BY Zenon, <3>1, <3>2 DEF TypeOK, ProviderTypeOK, Outcome
      <3>4. SendPending /\ Sent
        BY Zenon, <1>10, <2>1, <3>3, SendStep DEF SendProgress, Lookup, Control, Looking
      <3>5. sentAge <= SendDelay /\ sentAge \in Nat /\ age[w] \in Nat
        BY Zenon, <3>4, Ages DEF SendInTime
      <3> QED BY <2>1, <2>3, <3>5
    <2> QED BY Zenon, <2>2, <2>3
  <1>11. ASSUME NEW w \in Workers, RecordLookup(w) PROVE MissedEffectIsRecent'
    <2>1. sentAge' = sentAge
      BY Zenon, <1>11, RecordLookupEffect DEF opVars
    <2>2. pc'[w] \in {"answer", "idle", "apply"} /\ OthersUndisturbed(w)
      BY Zenon, <1>11, RecordLookupEffect
    <2> QED BY Zenon, <1>0, <2>1, <2>2 DEF OthersUndisturbed
  <1>12. ASSUME NEW w \in Workers, ApplyFinalize(w) PROVE MissedEffectIsRecent'
    BY Zenon, <1>0, <1>12 DEF ApplyFinalize, FinalizeVerifiedAttempt, Settle, Finish,
       Forget, Goto, Sent, opVars, workerVars, TypeOK, WorkerTypeOK
  <1>13. ASSUME NEW w \in Workers, ApplyFails(w) PROVE MissedEffectIsRecent'
    BY Zenon, <1>0, <1>13 DEF ApplyFails, Goto, Sent, opVars, workerVars, TypeOK,
       WorkerTypeOK
  <1>14. ASSUME NEW w \in Workers, RecordApplyFailure(w) PROVE MissedEffectIsRecent'
    BY Zenon, <1>0, <1>14 DEF RecordApplyFailure, CountApplyFailure, Finish, Forget, Goto,
       Sent, opVars, workerVars, TypeOK, WorkerTypeOK
  <1>15. ASSUME NEW w \in Workers, ApplyReview(w) PROVE MissedEffectIsRecent'
    BY Zenon, <1>0, <1>15 DEF ApplyReview, MarkOperationForReview, Finish, Forget, Goto,
       Sent, opVars, workerVars, TypeOK, WorkerTypeOK
  <1>16. ASSUME NEW e \in Events, AcceptEvent(e) PROVE MissedEffectIsRecent'
    BY Zenon, <1>0, <1>16 DEF AcceptEvent, Sent, opVars, workerVars, TypeOK, WorkerTypeOK
  <1>17. ASSUME NEW e \in Events, DeadLetter(e) PROVE MissedEffectIsRecent'
    BY Zenon, <1>0, <1>17 DEF DeadLetter, Sent, opVars, workerVars, TypeOK, WorkerTypeOK
  <1>18. ASSUME NEW w \in Workers, PrepareEvent(w) PROVE MissedEffectIsRecent'
    <2>1. sentAge' = sentAge
      BY Zenon, <1>18, PrepareEventEffect DEF PrepareEvent
    <2>2. pc'[w] \in {"answer", "idle", "apply"} /\ OthersUndisturbed(w)
      BY Zenon, <1>18, PrepareEventEffect
    <2> QED BY Zenon, <1>0, <2>1, <2>2 DEF OthersUndisturbed
  <1>19. ASSUME NEW w \in Workers, FinishEvent(w) PROVE MissedEffectIsRecent'
    BY Zenon, <1>0, <1>19 DEF FinishEvent, Finish, Forget, Goto, Sent, opVars, workerVars,
       TypeOK, WorkerTypeOK
  <1>20. ASSUME ProviderReceives PROVE MissedEffectIsRecent'
    BY Zenon, <1>0, <1>20 DEF ProviderReceives, Sent, opVars, workerVars, TypeOK,
       WorkerTypeOK
  <1>21. ASSUME NEW w \in Workers, Crash(w) PROVE MissedEffectIsRecent'
    BY Zenon, <1>0, <1>21 DEF Crash, Forget, Goto, Sent, opVars, workerVars, TypeOK,
       WorkerTypeOK
  <1>22. ASSUME Tick PROVE MissedEffectIsRecent'
    <2> SUFFICES ASSUME NEW v \in Workers, pc'[v] = "record", seen'[v] = "NOT_FOUND",
                        effect' # None \/ SendPending'
                 PROVE  sentAge' <= SendDelay + age'[v]
      BY Zenon DEF MissedEffectIsRecent
    <2>1. pc[v] = "record" /\ seen[v] = "NOT_FOUND" /\ age'[v] = age[v] + 1
      BY Zenon, <1>22 DEF Tick, Looking
    <2>2. effect # None \/ SendPending
      BY Zenon, <1>22 DEF Tick, providerVars, SendPending
    <2>3. sentAge <= SendDelay + age[v]
      BY Zenon, <2>1, <2>2 DEF MissedEffectIsRecent
    <2>4. Sent
      BY Zenon, <2>1 DEF Control, Looking
    <2>5. sentAge \in Nat /\ sentAge' \in Nat /\ sentAge' <= sentAge + 1
      BY Zenon, <1>22, <2>4, TickSent DEF TypeOK
    <2>6. age[v] \in Nat
      BY Zenon DEF TypeOK, WorkerTypeOK
    <2>7. SendDelay \in Nat
      BY Zenon, ConstantsAssumption
    <2> QED BY ONLY <2>1, <2>3, <2>5, <2>6, <2>7
  <1>23. ASSUME UNCHANGED vars PROVE MissedEffectIsRecent'
    BY Zenon, <1>23 DEF vars, opVars, providerVars, workerVars, MissedEffectIsRecent, SendPending
  <1> QED
    BY Zenon, <1>1, <1>2, <1>3, <1>4, <1>5, <1>6, <1>7, <1>8, <1>9, <1>10, <1>11, <1>12,
       <1>13, <1>14, <1>15, <1>16, <1>17, <1>18, <1>19, <1>20, <1>21, <1>22, <1>23
       DEF Next, Proceed

-----------------------------------------------------------------------------
(* Absence.                                                                 *)

\* An absence that is final stays one.
LEMMA AbsenceStable ==
  ASSUME TypeOK, Control, Sends, [Next]_vars, Sent, effect = None, ~SendPending
  PROVE  effect' = None /\ ~SendPending'
  BY Zenon, SendStep DEF SendProgress

\* A lookup recorded as a final not-found really found nothing, and nothing is
\* on its way: it was made after the send could have had its effect.
LEMMA FinalLookupIsReal ==
  ASSUME TypeOK, Control, Timely, LookupsInTime, MissedEffectIsRecent, NEW w \in Workers,
         pc[w] = "record", LookupClass(w) = "NOT_FOUND_FINAL"
  PROVE  effect = None /\ ~SendPending
  <1> USE ConstantsAssumption
  <1>1. Sent /\ seen[w] \in Observation
    BY Zenon DEF Control, Looking
  <1>2. sentAge \in Nat /\ age[w] \in Nat
    BY Zenon, <1>1, Ages
  <1>3. seen[w] = "NOT_FOUND" /\ sentAge >= GraceFor(w)
    BY Zenon, <1>1, ClassOfType DEF LookupClass
  <1>4. SendDelay + LookupDelay < GraceFor(w) /\ GraceFor(w) \in Nat
    BY Zenon, GraceAssumption DEF GraceFor, Timely
  <1>5. age[w] <= LookupDelay
    BY Zenon, <1>2 DEF LookupsInTime, Looking
  <1>6. ~(sentAge <= SendDelay + age[w])
    BY <1>2, <1>3, <1>4, <1>5
  <1> QED BY Zenon, <1>3, <1>6 DEF MissedEffectIsRecent

\* Final not-founds stay absences when a step only adds real ones.
LEMMA FinalAbsenceFrame ==
  ASSUME TypeOK, Control, Sends, FinalAbsence, [Next]_vars,
         \A i \in DOMAIN attempts' : attempts'[i].class = "NOT_FOUND_FINAL" =>
           \/ i \in DOMAIN attempts /\ attempts[i].class = "NOT_FOUND_FINAL"
           \/ Sent /\ effect = None /\ ~SendPending
  PROVE  FinalAbsence'
  <1>1. \A i \in DOMAIN attempts : Sent
    BY DEF Sends
  <1>2. \A i \in DOMAIN attempts' : attempts'[i].class = "NOT_FOUND_FINAL" =>
          Sent /\ effect = None /\ ~SendPending
    BY Zenon, <1>1 DEF FinalAbsence
  <1>3. Sent /\ effect = None /\ ~SendPending => effect' = None /\ ~SendPending'
    BY Zenon, AbsenceStable
  <1> QED BY Zenon, <1>2, <1>3 DEF FinalAbsence

\* Every step keeps FinalAbsence.
LEMMA FinalAbsenceNext ==
  ASSUME TypeOK, Control, Sends, Timely, LookupsInTime, MissedEffectIsRecent, FinalAbsence, [Next]_vars
  PROVE  FinalAbsence'
  <1> USE ConstantsAssumption
  <1>0. UNCHANGED attempts => FinalAbsence'
    BY Zenon, FinalAbsenceFrame
  <1>1. ASSUME NEW w \in Workers, NEW k \in Keys, Initiate(w, k) PROVE FinalAbsence'
    BY Zenon, <1>0, <1>1 DEF Initiate, opVars
  <1>2. ASSUME NEW w \in Workers, ClaimUnsent(w) PROVE FinalAbsence'
    BY Zenon, <1>0, <1>2 DEF ClaimUnsent, opVars
  <1>3. ASSUME NEW w \in Workers, ClaimDue(w) \/ ClaimForReview(w) PROVE FinalAbsence'
    BY Zenon, <1>0, <1>3 DEF ClaimDue, ClaimForReview, Claim, opVars
  <1>4. ASSUME NEW w \in Workers, NEW e \in Events, ClaimEvent(w, e) PROVE FinalAbsence'
    BY Zenon, <1>0, <1>4 DEF ClaimEvent, Claimable, opVars
  <1>5. ASSUME NEW w \in Workers, PrepareFirstSend(w) PROVE FinalAbsence'
    <2>1. CASE Terminal \/ Sent
      BY Zenon, <1>5, <2>1, <1>0 DEF PrepareFirstSend, LookupOnly, opVars
    <2>2. CASE ~Terminal /\ ~Sent
      <3>1. attempts' = <<[kind |-> "MUTATION", class |-> "SENT", event |-> None]>>
        BY Zenon, <1>5, <2>2 DEF PrepareFirstSend, LookupOnly
      <3>2. \A i \in DOMAIN attempts' : attempts'[i].class = "SENT"
        BY ONLY <3>1
      <3> QED BY ONLY Zenon, <3>2 DEF FinalAbsence
    <2> QED BY Zenon, <2>1, <2>2
  <1>6. ASSUME NEW w \in Workers, SendMutation(w) PROVE FinalAbsence'
    BY Zenon, <1>0, <1>6 DEF SendMutation, opVars
  <1>7. ASSUME NEW w \in Workers, ReceiveMutation(w) PROVE FinalAbsence'
    BY Zenon, <1>0, <1>7 DEF ReceiveMutation, opVars
  <1>8. ASSUME NEW w \in Workers, CompleteMutation(w) PROVE FinalAbsence'
    <2>1. \A i \in DOMAIN attempts' : attempts'[i].class = "NOT_FOUND_FINAL" =>
            i \in DOMAIN attempts /\ attempts[i].class = "NOT_FOUND_FINAL"
      <3>1. /\ attempts \in Seq(Attempt) /\ attempts' \in Seq(Attempt)
            /\ Len(attempts') = Len(attempts)
            /\ attempts'[1].class = ClassOf(seen[w]) /\ seen[w] \in Observation
            /\ \A i \in 1..Len(attempts) :
                 i # 1 => attempts'[i].class = attempts[i].class
        BY Zenon, <1>8, CompleteMutationEffect DEF TypeOK, OpTypeOK
      <3>2. attempts'[1].class # "NOT_FOUND_FINAL"
        BY Zenon, <3>1, ClassOfType
      <3> QED BY <3>1, <3>2
    <2> QED BY Zenon, <2>1, FinalAbsenceFrame
  <1>9. ASSUME NEW w \in Workers, Answer(w) PROVE FinalAbsence'
    BY Zenon, <1>0, <1>9 DEF Answer, opVars
  <1>10. ASSUME NEW w \in Workers, Lookup(w) PROVE FinalAbsence'
    BY Zenon, <1>0, <1>10 DEF Lookup, opVars
  <1>11. ASSUME NEW w \in Workers, RecordLookup(w) PROVE FinalAbsence'
    <2>1. CASE UNCHANGED opVars
      BY Zenon, <2>1, <1>0 DEF opVars
    <2>2. CASE ~UNCHANGED opVars
      <3> DEFINE a == [kind |-> "LOOKUP", class |-> LookupClass(w), event |-> None]
      <3>1. /\ attempts' = Append(attempts, a) /\ a \in Attempt /\ a.class = LookupClass(w)
            /\ Sent /\ pc[w] = "record"
        BY Zenon, <1>11, <2>2, RecordLookupEffect
      <3>2. LookupClass(w) = "NOT_FOUND_FINAL" => effect = None /\ ~SendPending
        BY Zenon, <3>1, FinalLookupIsReal
      <3> HIDE DEF a
      <3>3. \A i \in DOMAIN attempts' :
              (i \in DOMAIN attempts /\ attempts'[i] = attempts[i]) \/ attempts'[i] = a
        BY Zenon, <3>1, AddedAttempt
      <3> QED BY Zenon, <3>1, <3>2, <3>3, FinalAbsenceFrame
    <2> QED BY Zenon, <2>1, <2>2
  <1>12. ASSUME NEW w \in Workers, ApplyFinalize(w) PROVE FinalAbsence'
    BY Zenon, <1>0, <1>12 DEF ApplyFinalize, FinalizeVerifiedAttempt, Settle, opVars
  <1>13. ASSUME NEW w \in Workers, ApplyFails(w) PROVE FinalAbsence'
    BY Zenon, <1>0, <1>13 DEF ApplyFails, opVars
  <1>14. ASSUME NEW w \in Workers, RecordApplyFailure(w) PROVE FinalAbsence'
    BY Zenon, <1>0, <1>14 DEF RecordApplyFailure, CountApplyFailure, opVars
  <1>15. ASSUME NEW w \in Workers, ApplyReview(w) PROVE FinalAbsence'
    BY <1>0, <1>15 DEF ApplyReview, MarkOperationForReview, opVars
  <1>16. ASSUME NEW e \in Events, AcceptEvent(e) PROVE FinalAbsence'
    BY Zenon, <1>0, <1>16 DEF AcceptEvent, opVars
  <1>17. ASSUME NEW e \in Events, DeadLetter(e) PROVE FinalAbsence'
    BY Zenon, <1>0, <1>17 DEF DeadLetter, opVars
  <1>18. ASSUME NEW w \in Workers, PrepareEvent(w) PROVE FinalAbsence'
    <2>1. CASE UNCHANGED attempts
      BY Zenon, <2>1, <1>0
    <2>2. CASE ~UNCHANGED attempts
      <3>1. PICK a \in Attempt : /\ attempts' = Append(attempts, a)
                                /\ a.class = ClassOf(inbox[event[w]].says)
        BY <1>18, <2>2, PrepareEventEffect
      <3>2. inbox[event[w]].says \in {"SUCCEEDED", "DECLINED"}
        BY Zenon, <1>18, <2>2, PrepareEventEffect
      <3>3. a.class # "NOT_FOUND_FINAL"
        BY Zenon, <3>1, <3>2, ClassOfType DEF Observation, Outcome
      <3>4. \A i \in DOMAIN attempts' :
              (i \in DOMAIN attempts /\ attempts'[i] = attempts[i]) \/ attempts'[i] = a
        BY Zenon, <3>1, AddedAttempt
      <3> QED BY Zenon, <3>3, <3>4, FinalAbsenceFrame
    <2> QED BY Zenon, <2>1, <2>2
  <1>19. ASSUME NEW w \in Workers, FinishEvent(w) PROVE FinalAbsence'
    BY Zenon, <1>0, <1>19 DEF FinishEvent, opVars
  <1>20. ASSUME ProviderReceives PROVE FinalAbsence'
    BY Zenon, <1>0, <1>20 DEF ProviderReceives, opVars
  <1>21. ASSUME NEW w \in Workers, Crash(w) PROVE FinalAbsence'
    BY Zenon, <1>0, <1>21 DEF Crash, opVars
  <1>22. ASSUME Tick PROVE FinalAbsence'
    BY Zenon, <1>0, <1>22 DEF Tick, opVars
  <1>23. ASSUME UNCHANGED vars PROVE FinalAbsence'
    BY Zenon, <1>0, <1>23 DEF vars, opVars
  <1> QED
    BY Zenon, <1>1, <1>2, <1>3, <1>4, <1>5, <1>6, <1>7, <1>8, <1>9, <1>10, <1>11, <1>12,
       <1>13, <1>14, <1>15, <1>16, <1>17, <1>18, <1>19, <1>20, <1>21, <1>22, <1>23
       DEF Next, Proceed

\* Every step keeps AbsenceIsReal.
LEMMA AbsenceIsRealNext ==
  ASSUME TypeOK, Control, Sends, Evidence, FinalAbsence, AbsenceIsReal, [Next]_vars
  PROVE  AbsenceIsReal'
  <1> USE ConstantsAssumption
  <1>0. ASSUME response' = response PROVE AbsenceIsReal'
    BY Zenon, <1>0, AbsenceStable DEF AbsenceIsReal, Evidence, ResponseHolds, PastAGrace
  <1>1. ASSUME NEW w \in Workers, NEW k \in Keys, Initiate(w, k) PROVE AbsenceIsReal'
    BY Zenon, <1>0, <1>1 DEF Initiate, opVars
  <1>2. ASSUME NEW w \in Workers, ClaimUnsent(w) PROVE AbsenceIsReal'
    BY Zenon, <1>0, <1>2 DEF ClaimUnsent, opVars
  <1>3. ASSUME NEW w \in Workers, ClaimDue(w) \/ ClaimForReview(w) PROVE AbsenceIsReal'
    BY Zenon, <1>0, <1>3 DEF ClaimDue, ClaimForReview, Claim
  <1>4. ASSUME NEW w \in Workers, NEW e \in Events, ClaimEvent(w, e) PROVE AbsenceIsReal'
    BY Zenon, <1>0, <1>4 DEF ClaimEvent, Claimable, opVars
  <1>5. ASSUME NEW w \in Workers, PrepareFirstSend(w) PROVE AbsenceIsReal'
    BY Zenon, <1>0, <1>5 DEF PrepareFirstSend, LookupOnly, opVars
  <1>6. ASSUME NEW w \in Workers, SendMutation(w) PROVE AbsenceIsReal'
    BY Zenon, <1>0, <1>6 DEF SendMutation, opVars
  <1>7. ASSUME NEW w \in Workers, ReceiveMutation(w) PROVE AbsenceIsReal'
    BY Zenon, <1>0, <1>7 DEF ReceiveMutation, opVars
  <1>8. ASSUME NEW w \in Workers, CompleteMutation(w) PROVE AbsenceIsReal'
    BY Zenon, <1>0, <1>8 DEF CompleteMutation, Conclude, opVars
  <1>9. ASSUME NEW w \in Workers, Answer(w) PROVE AbsenceIsReal'
    BY Zenon, <1>0, <1>9 DEF Answer, opVars
  <1>10. ASSUME NEW w \in Workers, Lookup(w) PROVE AbsenceIsReal'
    BY Zenon, <1>0, <1>10 DEF Lookup, opVars
  <1>11. ASSUME NEW w \in Workers, RecordLookup(w) PROVE AbsenceIsReal'
    BY Zenon, <1>0, <1>11 DEF RecordLookup, Conclude, opVars
  <1>12. ASSUME NEW w \in Workers, ApplyFinalize(w) PROVE AbsenceIsReal'
    <2>1. CASE Terminal
      BY Zenon, <1>0, <1>12, <2>1 DEF ApplyFinalize, FinalizeVerifiedAttempt, opVars
    <2>2. CASE ~Terminal
      <3> DEFINE c == attempts[verdict[w].n].class
      <3>1. /\ pc[w] = "apply" /\ verdict[w].action = "FINALIZE"
            /\ response' = ResponseOf(c) /\ c \in Finalizing
        BY Zenon, <1>12, <2>2 DEF ApplyFinalize, FinalizeVerifiedAttempt, Settle
      <3>2. verdict[w].n \in DOMAIN attempts
        BY Zenon, <3>1 DEF Evidence, VerdictsGrounded
      <3>3. response' = "NOT_FOUND" => c = "NOT_FOUND_FINAL"
        BY Zenon, <3>1 DEF ResponseOf, Finalizing
      <3>4. response' = "NOT_FOUND" => Sent /\ effect = None /\ ~SendPending
        BY <3>2, <3>3 DEF FinalAbsence, Sends
      <3> QED BY Zenon, <3>4, AbsenceStable DEF AbsenceIsReal
    <2> QED BY Zenon, <2>1, <2>2
  <1>13. ASSUME NEW w \in Workers, ApplyFails(w) PROVE AbsenceIsReal'
    BY Zenon, <1>0, <1>13 DEF ApplyFails, opVars
  <1>14. ASSUME NEW w \in Workers, RecordApplyFailure(w) PROVE AbsenceIsReal'
    BY Zenon, <1>0, <1>14 DEF RecordApplyFailure, CountApplyFailure, opVars
  <1>15. ASSUME NEW w \in Workers, ApplyReview(w) PROVE AbsenceIsReal'
    BY Zenon, <1>0, <1>15 DEF ApplyReview, MarkOperationForReview, opVars
  <1>16. ASSUME NEW e \in Events, AcceptEvent(e) PROVE AbsenceIsReal'
    BY Zenon, <1>0, <1>16 DEF AcceptEvent, opVars
  <1>17. ASSUME NEW e \in Events, DeadLetter(e) PROVE AbsenceIsReal'
    BY Zenon, <1>0, <1>17 DEF DeadLetter, opVars
  <1>18. ASSUME NEW w \in Workers, PrepareEvent(w) PROVE AbsenceIsReal'
    BY Zenon, <1>0, <1>18 DEF PrepareEvent, HoldsEvent, Conclude, opVars
  <1>19. ASSUME NEW w \in Workers, FinishEvent(w) PROVE AbsenceIsReal'
    BY Zenon, <1>0, <1>19 DEF FinishEvent, opVars
  <1>20. ASSUME ProviderReceives PROVE AbsenceIsReal'
    BY Zenon, <1>0, <1>20 DEF ProviderReceives, opVars
  <1>21. ASSUME NEW w \in Workers, Crash(w) PROVE AbsenceIsReal'
    BY Zenon, <1>0, <1>21 DEF Crash, opVars
  <1>22. ASSUME Tick PROVE AbsenceIsReal'
    BY Zenon, <1>0, <1>22 DEF Tick, opVars
  <1>23. ASSUME UNCHANGED vars PROVE AbsenceIsReal'
    BY Zenon, <1>0, <1>23 DEF vars, opVars
  <1> QED
    BY Zenon, <1>1, <1>2, <1>3, <1>4, <1>5, <1>6, <1>7, <1>8, <1>9, <1>10, <1>11, <1>12,
       <1>13, <1>14, <1>15, <1>16, <1>17, <1>18, <1>19, <1>20, <1>21, <1>22, <1>23
       DEF Next, Proceed

\* Every step keeps Absence.
LEMMA AbsenceNext == IInv /\ [Next]_vars => Absence'
  <1> SUFFICES ASSUME IInv, [Next]_vars, Timely
               PROVE  /\ SendInTime' /\ LookupsInTime' /\ MissedEffectIsRecent'
                      /\ FinalAbsence' /\ AbsenceIsReal'
    BY Zenon DEF Absence, Timely
  <1> QED
    BY Zenon, SendInTimeNext, LookupsInTimeNext, MissedEffectNext, FinalAbsenceNext, AbsenceIsRealNext
       DEF IInv, Absence

-----------------------------------------------------------------------------
(* Inbox.                                                                   *)

\* A decided operation stays decided.
LEMMA TerminalStable ==
  ASSUME TypeOK, Control, [Next]_vars
  PROVE  Terminal => Terminal'
  <1> USE ConstantsAssumption
  <1>1. ASSUME NEW w \in Workers, NEW k \in Keys, Initiate(w, k) PROVE Terminal => Terminal'
    BY Zenon, <1>1 DEF Initiate, Terminal, Decided
  <1>2. ASSUME NEW w \in Workers, ClaimUnsent(w) PROVE Terminal => Terminal'
    BY Zenon, <1>2 DEF ClaimUnsent, Terminal, opVars
  <1>3. ASSUME NEW w \in Workers, ClaimDue(w) \/ ClaimForReview(w) PROVE Terminal => Terminal'
    BY Zenon, <1>3 DEF ClaimDue, ClaimForReview, Claim, Terminal
  <1>4. ASSUME NEW w \in Workers, NEW e \in Events, ClaimEvent(w, e) PROVE Terminal => Terminal'
    BY Zenon, <1>4 DEF ClaimEvent, Claimable, Terminal, opVars
  <1>5. ASSUME NEW w \in Workers, PrepareFirstSend(w) PROVE Terminal => Terminal'
    BY Zenon, <1>5 DEF PrepareFirstSend, LookupOnly, Terminal, opVars
  <1>6. ASSUME NEW w \in Workers, SendMutation(w) PROVE Terminal => Terminal'
    BY Zenon, <1>6 DEF SendMutation, Terminal, opVars
  <1>7. ASSUME NEW w \in Workers, ReceiveMutation(w) PROVE Terminal => Terminal'
    BY Zenon, <1>7 DEF ReceiveMutation, Terminal, opVars
  <1>8. ASSUME NEW w \in Workers, CompleteMutation(w) PROVE Terminal => Terminal'
    BY Zenon, <1>8 DEF CompleteMutation, Conclude, Terminal, opVars
  <1>9. ASSUME NEW w \in Workers, Answer(w) PROVE Terminal => Terminal'
    BY Zenon, <1>9 DEF Answer, Terminal, opVars
  <1>10. ASSUME NEW w \in Workers, Lookup(w) PROVE Terminal => Terminal'
    BY Zenon, <1>10 DEF Lookup, Terminal, opVars
  <1>11. ASSUME NEW w \in Workers, RecordLookup(w) PROVE Terminal => Terminal'
    BY Zenon, <1>11, RecordLookupEffect DEF Terminal, opVars
  <1>12. ASSUME NEW w \in Workers, ApplyFinalize(w) PROVE Terminal => Terminal'
    BY Zenon, <1>12 DEF ApplyFinalize, FinalizeVerifiedAttempt, Settle, Terminal, opVars
  <1>13. ASSUME NEW w \in Workers, ApplyFails(w) PROVE Terminal => Terminal'
    BY Zenon, <1>13 DEF ApplyFails, Terminal, opVars
  <1>14. ASSUME NEW w \in Workers, RecordApplyFailure(w) PROVE Terminal => Terminal'
    BY Zenon, <1>14 DEF RecordApplyFailure, CountApplyFailure, Terminal, opVars
  <1>15. ASSUME NEW w \in Workers, ApplyReview(w) PROVE Terminal => Terminal'
    BY Zenon, <1>15 DEF ApplyReview, MarkOperationForReview, Terminal, opVars
  <1>16. ASSUME NEW e \in Events, AcceptEvent(e) PROVE Terminal => Terminal'
    BY Zenon, <1>16 DEF AcceptEvent, Terminal, opVars
  <1>17. ASSUME NEW e \in Events, DeadLetter(e) PROVE Terminal => Terminal'
    BY Zenon, <1>17 DEF DeadLetter, Terminal, opVars
  <1>18. ASSUME NEW w \in Workers, PrepareEvent(w) PROVE Terminal => Terminal'
    BY Zenon, <1>18 DEF PrepareEvent, HoldsEvent, Conclude, Terminal, opVars
  <1>19. ASSUME NEW w \in Workers, FinishEvent(w) PROVE Terminal => Terminal'
    BY Zenon, <1>19 DEF FinishEvent, Terminal, opVars
  <1>20. ASSUME ProviderReceives PROVE Terminal => Terminal'
    BY Zenon, <1>20 DEF ProviderReceives, Terminal, opVars
  <1>21. ASSUME NEW w \in Workers, Crash(w) PROVE Terminal => Terminal'
    BY Zenon, <1>21 DEF Crash, Terminal, opVars
  <1>22. ASSUME Tick PROVE Terminal => Terminal'
    BY Zenon, <1>22 DEF Tick, Terminal, opVars
  <1>23. ASSUME UNCHANGED vars PROVE Terminal => Terminal'
    BY Zenon, <1>23 DEF vars, Terminal, opVars
  <1> QED
    BY Zenon, <1>1, <1>2, <1>3, <1>4, <1>5, <1>6, <1>7, <1>8, <1>9, <1>10, <1>11, <1>12,
       <1>13, <1>14, <1>15, <1>16, <1>17, <1>18, <1>19, <1>20, <1>21, <1>22, <1>23
       DEF Next, Proceed

\* What an event reports does not change.
LEMMA SaysStable ==
  ASSUME TypeOK, Control, Inbox, [Next]_vars
  PROVE  \A f \in Events : Reports(f) => inbox'[f].says = inbox[f].says
  <1> USE ConstantsAssumption
  <1>1. ASSUME NEW w \in Workers, NEW k \in Keys, Initiate(w, k) PROVE \A f \in Events : Reports(f) => inbox'[f].says = inbox[f].says
    BY Zenon, <1>1 DEF Initiate
  <1>2. ASSUME NEW w \in Workers, ClaimUnsent(w) PROVE \A f \in Events : Reports(f) => inbox'[f].says = inbox[f].says
    BY Zenon, <1>2 DEF ClaimUnsent
  <1>3. ASSUME NEW w \in Workers, ClaimDue(w) \/ ClaimForReview(w) PROVE \A f \in Events : Reports(f) => inbox'[f].says = inbox[f].says
    BY Zenon, <1>3 DEF ClaimDue, ClaimForReview, Claim
  <1>4. ASSUME NEW w \in Workers, NEW e \in Events, ClaimEvent(w, e) PROVE \A f \in Events : Reports(f) => inbox'[f].says = inbox[f].says
    BY Zenon, <1>4, ClaimEventEffect DEF TypeOK
  <1>5. ASSUME NEW w \in Workers, PrepareFirstSend(w) PROVE \A f \in Events : Reports(f) => inbox'[f].says = inbox[f].says
    BY Zenon, <1>5 DEF PrepareFirstSend
  <1>6. ASSUME NEW w \in Workers, SendMutation(w) PROVE \A f \in Events : Reports(f) => inbox'[f].says = inbox[f].says
    BY Zenon, <1>6 DEF SendMutation
  <1>7. ASSUME NEW w \in Workers, ReceiveMutation(w) PROVE \A f \in Events : Reports(f) => inbox'[f].says = inbox[f].says
    BY Zenon, <1>7 DEF ReceiveMutation
  <1>8. ASSUME NEW w \in Workers, CompleteMutation(w) PROVE \A f \in Events : Reports(f) => inbox'[f].says = inbox[f].says
    BY Zenon, <1>8 DEF CompleteMutation
  <1>9. ASSUME NEW w \in Workers, Answer(w) PROVE \A f \in Events : Reports(f) => inbox'[f].says = inbox[f].says
    BY Zenon, <1>9 DEF Answer
  <1>10. ASSUME NEW w \in Workers, Lookup(w) PROVE \A f \in Events : Reports(f) => inbox'[f].says = inbox[f].says
    BY Zenon, <1>10 DEF Lookup
  <1>11. ASSUME NEW w \in Workers, RecordLookup(w) PROVE \A f \in Events : Reports(f) => inbox'[f].says = inbox[f].says
    BY Zenon, <1>11 DEF RecordLookup
  <1>12. ASSUME NEW w \in Workers, ApplyFinalize(w) PROVE \A f \in Events : Reports(f) => inbox'[f].says = inbox[f].says
    BY Zenon, <1>12 DEF ApplyFinalize
  <1>13. ASSUME NEW w \in Workers, ApplyFails(w) PROVE \A f \in Events : Reports(f) => inbox'[f].says = inbox[f].says
    BY Zenon, <1>13 DEF ApplyFails
  <1>14. ASSUME NEW w \in Workers, RecordApplyFailure(w) PROVE \A f \in Events : Reports(f) => inbox'[f].says = inbox[f].says
    BY Zenon, <1>14 DEF RecordApplyFailure
  <1>15. ASSUME NEW w \in Workers, ApplyReview(w) PROVE \A f \in Events : Reports(f) => inbox'[f].says = inbox[f].says
    BY Zenon, <1>15 DEF ApplyReview
  <1>16. ASSUME NEW e \in Events, AcceptEvent(e) PROVE \A f \in Events : Reports(f) => inbox'[f].says = inbox[f].says
    BY Zenon, <1>16, AcceptEventEffect DEF Reports, Inbox, InboxRows, TypeOK
  <1>17. ASSUME NEW e \in Events, DeadLetter(e) PROVE \A f \in Events : Reports(f) => inbox'[f].says = inbox[f].says
    BY <1>17, ClosedEffect DEF DeadLetter, EventStatus, TypeOK
  <1>18. ASSUME NEW w \in Workers, PrepareEvent(w) PROVE \A f \in Events : Reports(f) => inbox'[f].says = inbox[f].says
    BY Zenon, <1>18, PrepareEventEffect
  <1>19. ASSUME NEW w \in Workers, FinishEvent(w) PROVE \A f \in Events : Reports(f) => inbox'[f].says = inbox[f].says
    BY <1>19, ClosedEffect DEF FinishEvent, EventStatus, Control, TypeOK
  <1>20. ASSUME ProviderReceives PROVE \A f \in Events : Reports(f) => inbox'[f].says = inbox[f].says
    BY Zenon, <1>20 DEF ProviderReceives
  <1>21. ASSUME NEW w \in Workers, Crash(w) PROVE \A f \in Events : Reports(f) => inbox'[f].says = inbox[f].says
    BY Zenon, <1>21 DEF Crash
  <1>22. ASSUME Tick PROVE \A f \in Events : Reports(f) => inbox'[f].says = inbox[f].says
    BY Zenon, <1>22, TickInbox DEF TypeOK
  <1>23. ASSUME UNCHANGED vars PROVE \A f \in Events : Reports(f) => inbox'[f].says = inbox[f].says
    BY Zenon, <1>23 DEF vars
  <1> QED
    BY Zenon, <1>1, <1>2, <1>3, <1>4, <1>5, <1>6, <1>7, <1>8, <1>9, <1>10, <1>11, <1>12,
       <1>13, <1>14, <1>15, <1>16, <1>17, <1>18, <1>19, <1>20, <1>21, <1>22, <1>23
       DEF Next, Proceed

\* Every step keeps InboxRows.
LEMMA InboxRowsNext ==
  ASSUME TypeOK, Control, Sends, Inbox, [Next]_vars
  PROVE  InboxRows'
  <1> USE ConstantsAssumption
  <1>0. ASSUME \A f \in Events : inbox'[f].says = inbox[f].says /\ inbox'[f].status = inbox[f].status
        PROVE  InboxRows'
    BY Zenon, <1>0, Monotone, TerminalStable DEF Inbox, InboxRows, Reports
  <1>1. ASSUME NEW w \in Workers, NEW k \in Keys, Initiate(w, k) PROVE InboxRows'
    BY Zenon, <1>0, <1>1 DEF Initiate
  <1>2. ASSUME NEW w \in Workers, ClaimUnsent(w) PROVE InboxRows'
    BY Zenon, <1>0, <1>2 DEF ClaimUnsent
  <1>3. ASSUME NEW w \in Workers, ClaimDue(w) \/ ClaimForReview(w) PROVE InboxRows'
    BY Zenon, <1>0, <1>3 DEF ClaimDue, ClaimForReview, Claim
  <1>4. ASSUME NEW w \in Workers, NEW e \in Events, ClaimEvent(w, e) PROVE InboxRows'
    <2>1. inbox[e].status # "ABSENT"
      BY Zenon, <1>4 DEF ClaimEvent, Claimable
    <2>2. UNCHANGED <<effect, status>>
      BY Zenon, <1>4 DEF ClaimEvent, providerVars, opVars
    <2> QED
      BY Zenon, <1>4, <2>1, <2>2, ClaimEventEffect DEF Inbox, InboxRows, Reports, Terminal, TypeOK
  <1>5. ASSUME NEW w \in Workers, PrepareFirstSend(w) PROVE InboxRows'
    BY Zenon, <1>0, <1>5 DEF PrepareFirstSend
  <1>6. ASSUME NEW w \in Workers, SendMutation(w) PROVE InboxRows'
    BY Zenon, <1>0, <1>6 DEF SendMutation
  <1>7. ASSUME NEW w \in Workers, ReceiveMutation(w) PROVE InboxRows'
    BY Zenon, <1>0, <1>7 DEF ReceiveMutation
  <1>8. ASSUME NEW w \in Workers, CompleteMutation(w) PROVE InboxRows'
    BY Zenon, <1>0, <1>8 DEF CompleteMutation
  <1>9. ASSUME NEW w \in Workers, Answer(w) PROVE InboxRows'
    BY Zenon, <1>0, <1>9 DEF Answer
  <1>10. ASSUME NEW w \in Workers, Lookup(w) PROVE InboxRows'
    BY Zenon, <1>0, <1>10 DEF Lookup
  <1>11. ASSUME NEW w \in Workers, RecordLookup(w) PROVE InboxRows'
    BY Zenon, <1>0, <1>11 DEF RecordLookup
  <1>12. ASSUME NEW w \in Workers, ApplyFinalize(w) PROVE InboxRows'
    BY Zenon, <1>0, <1>12 DEF ApplyFinalize
  <1>13. ASSUME NEW w \in Workers, ApplyFails(w) PROVE InboxRows'
    BY Zenon, <1>0, <1>13 DEF ApplyFails
  <1>14. ASSUME NEW w \in Workers, RecordApplyFailure(w) PROVE InboxRows'
    BY Zenon, <1>0, <1>14 DEF RecordApplyFailure
  <1>15. ASSUME NEW w \in Workers, ApplyReview(w) PROVE InboxRows'
    BY Zenon, <1>0, <1>15 DEF ApplyReview
  <1>16. ASSUME NEW e \in Events, AcceptEvent(e) PROVE InboxRows'
    <2>1. UNCHANGED <<effect, status>>
      BY Zenon, <1>16 DEF AcceptEvent, providerVars, opVars
    <2> QED BY Zenon, <1>16, <2>1, AcceptEventEffect DEF Inbox, InboxRows, Reports, Terminal, TypeOK
  <1>17. ASSUME NEW e \in Events, DeadLetter(e) PROVE InboxRows'
    <2>1. inbox[e].status # "ABSENT" /\ inbox' = Closed(e, "DEAD_LETTER")
      BY Zenon, <1>17 DEF DeadLetter, Claimable
    <2>2. UNCHANGED <<effect, status>>
      BY Zenon, <1>17 DEF DeadLetter, providerVars, opVars
    <2> QED
      BY <2>1, <2>2, ClosedEffect DEF EventStatus, Inbox, InboxRows, Reports, Terminal, TypeOK
  <1>18. ASSUME NEW w \in Workers, PrepareEvent(w) PROVE InboxRows'
    <2>1. UNCHANGED <<effect, status>>
      BY Zenon, <1>18 DEF PrepareEvent, providerVars
    <2>2. \A f \in Events :
            /\ inbox'[f].says = inbox[f].says
            /\ \/ inbox'[f].status = inbox[f].status
               \/ inbox'[f].status \in {"IGNORED", "REVIEW"} /\ inbox[f].status = "PROCESSING"
      BY Zenon, <1>18, PrepareEventEffect
    <2> QED BY Zenon, <2>1, <2>2 DEF Inbox, InboxRows, Reports, Terminal
  <1>19. ASSUME NEW w \in Workers, FinishEvent(w) PROVE InboxRows'
    <2>1. /\ UNCHANGED <<effect, status>> /\ event[w] \in Events
          /\ Terminal /\ Reports(event[w])
      BY Zenon, <1>19 DEF FinishEvent, providerVars, opVars, Control, Inbox, EventJobs
    <2>2. \A f \in Events : /\ inbox'[f].says = inbox[f].says
                            /\ \/ inbox'[f].status = inbox[f].status
                               \/ f = event[w] /\ inbox'[f].status = "APPLIED"
      BY <1>19, <2>1, ClosedEffect DEF FinishEvent, EventStatus, TypeOK
    <2>3. inbox[event[w]].status # "ABSENT"
      BY Zenon, <2>1 DEF Inbox, InboxRows, Reports
    <2> QED BY Zenon, <2>1, <2>2, <2>3 DEF Inbox, InboxRows, Reports, Terminal
  <1>20. ASSUME ProviderReceives PROVE InboxRows'
    BY Zenon, <1>0, <1>20 DEF ProviderReceives
  <1>21. ASSUME NEW w \in Workers, Crash(w) PROVE InboxRows'
    BY Zenon, <1>0, <1>21 DEF Crash
  <1>22. ASSUME Tick PROVE InboxRows'
    BY Zenon, <1>0, <1>22, TickInbox DEF TypeOK
  <1>23. ASSUME UNCHANGED vars PROVE InboxRows'
    BY Zenon, <1>0, <1>23 DEF vars
  <1> QED
    BY Zenon, <1>1, <1>2, <1>3, <1>4, <1>5, <1>6, <1>7, <1>8, <1>9, <1>10, <1>11, <1>12,
       <1>13, <1>14, <1>15, <1>16, <1>17, <1>18, <1>19, <1>20, <1>21, <1>22, <1>23
       DEF Next, Proceed

\* Attempts made for events stay so when a step only adds such attempts.
LEMMA WebhookFrame ==
  ASSUME TypeOK, Control, Inbox, [Next]_vars,
         \A i \in DOMAIN attempts' :
           \/ /\ i \in DOMAIN attempts
              /\ attempts'[i].kind = attempts[i].kind
              /\ attempts'[i].event = attempts[i].event
           \/ attempts'[i].kind # "WEBHOOK"
           \/ attempts'[i].event \in Events /\ Reports(attempts'[i].event)
  PROVE  WebhookAttempts'
  <1>1. \A f \in Events : Reports(f) => inbox'[f].says \in {"SUCCEEDED", "DECLINED"}
    BY Zenon, SaysStable DEF Reports
  <1>2. \A i \in DOMAIN attempts' : attempts'[i].kind = "WEBHOOK" =>
          attempts'[i].event \in Events /\ Reports(attempts'[i].event)
    BY Zenon DEF Inbox, WebhookAttempts
  <1> QED BY Zenon, <1>1, <1>2 DEF WebhookAttempts, Reports

\* Every step keeps WebhookAttempts.
LEMMA WebhookAttemptsNext ==
  ASSUME TypeOK, Control, Sends, Inbox, [Next]_vars
  PROVE  WebhookAttempts'
  <1> USE ConstantsAssumption
  <1>0. UNCHANGED attempts => WebhookAttempts'
    BY Zenon, WebhookFrame
  <1>1. ASSUME NEW w \in Workers, NEW k \in Keys, Initiate(w, k) PROVE WebhookAttempts'
    BY Zenon, <1>0, <1>1 DEF Initiate, opVars
  <1>2. ASSUME NEW w \in Workers, ClaimUnsent(w) PROVE WebhookAttempts'
    BY Zenon, <1>0, <1>2 DEF ClaimUnsent, opVars
  <1>3. ASSUME NEW w \in Workers, ClaimDue(w) \/ ClaimForReview(w) PROVE WebhookAttempts'
    BY Zenon, <1>0, <1>3 DEF ClaimDue, ClaimForReview, Claim, opVars
  <1>4. ASSUME NEW w \in Workers, NEW e \in Events, ClaimEvent(w, e) PROVE WebhookAttempts'
    BY Zenon, <1>0, <1>4 DEF ClaimEvent, Claimable, opVars
  <1>5. ASSUME NEW w \in Workers, PrepareFirstSend(w) PROVE WebhookAttempts'
    <2>1. CASE Terminal \/ Sent
      BY Zenon, <1>5, <2>1, <1>0 DEF PrepareFirstSend, LookupOnly, opVars
    <2>2. CASE ~Terminal /\ ~Sent
      <3>1. attempts' = <<[kind |-> "MUTATION", class |-> "SENT", event |-> None]>>
        BY Zenon, <1>5, <2>2 DEF PrepareFirstSend, LookupOnly
      <3> QED BY <3>1 DEF WebhookAttempts
    <2> QED BY Zenon, <2>1, <2>2
  <1>6. ASSUME NEW w \in Workers, SendMutation(w) PROVE WebhookAttempts'
    BY Zenon, <1>0, <1>6 DEF SendMutation, opVars
  <1>7. ASSUME NEW w \in Workers, ReceiveMutation(w) PROVE WebhookAttempts'
    BY Zenon, <1>0, <1>7 DEF ReceiveMutation, opVars
  <1>8. ASSUME NEW w \in Workers, CompleteMutation(w) PROVE WebhookAttempts'
    <2>1. \A i \in DOMAIN attempts' : /\ i \in DOMAIN attempts
                                      /\ attempts'[i].kind = attempts[i].kind
                                      /\ attempts'[i].event = attempts[i].event
      <3>1. /\ attempts \in Seq(Attempt) /\ attempts' \in Seq(Attempt)
            /\ Len(attempts') = Len(attempts)
            /\ \A i \in 1..Len(attempts) :
                 /\ attempts'[i].kind = attempts[i].kind
                 /\ attempts'[i].event = attempts[i].event
        BY Zenon, <1>8, CompleteMutationEffect DEF TypeOK, OpTypeOK
      <3> QED BY <3>1
    <2> QED BY Zenon, <2>1, WebhookFrame
  <1>9. ASSUME NEW w \in Workers, Answer(w) PROVE WebhookAttempts'
    BY Zenon, <1>0, <1>9 DEF Answer, opVars
  <1>10. ASSUME NEW w \in Workers, Lookup(w) PROVE WebhookAttempts'
    BY Zenon, <1>0, <1>10 DEF Lookup, opVars
  <1>11. ASSUME NEW w \in Workers, RecordLookup(w) PROVE WebhookAttempts'
    <2>1. CASE UNCHANGED opVars
      BY Zenon, <2>1, <1>0 DEF opVars
    <2>2. CASE ~UNCHANGED opVars
      <3> DEFINE a == [kind |-> "LOOKUP", class |-> LookupClass(w), event |-> None]
      <3>1. attempts' = Append(attempts, a) /\ a \in Attempt /\ a.kind # "WEBHOOK"
        BY Zenon, <1>11, <2>2, RecordLookupEffect
      <3> HIDE DEF a
      <3>2. \A i \in DOMAIN attempts' :
              (i \in DOMAIN attempts /\ attempts'[i] = attempts[i]) \/ attempts'[i] = a
        BY Zenon, <3>1, AddedAttempt
      <3> QED BY Zenon, <3>1, <3>2, WebhookFrame
    <2> QED BY Zenon, <2>1, <2>2
  <1>12. ASSUME NEW w \in Workers, ApplyFinalize(w) PROVE WebhookAttempts'
    BY Zenon, <1>0, <1>12 DEF ApplyFinalize, FinalizeVerifiedAttempt, Settle, opVars
  <1>13. ASSUME NEW w \in Workers, ApplyFails(w) PROVE WebhookAttempts'
    BY Zenon, <1>0, <1>13 DEF ApplyFails, opVars
  <1>14. ASSUME NEW w \in Workers, RecordApplyFailure(w) PROVE WebhookAttempts'
    BY Zenon, <1>0, <1>14 DEF RecordApplyFailure, CountApplyFailure, opVars
  <1>15. ASSUME NEW w \in Workers, ApplyReview(w) PROVE WebhookAttempts'
    BY Zenon, <1>0, <1>15 DEF ApplyReview, MarkOperationForReview, opVars
  <1>16. ASSUME NEW e \in Events, AcceptEvent(e) PROVE WebhookAttempts'
    BY Zenon, <1>0, <1>16 DEF AcceptEvent, opVars
  <1>17. ASSUME NEW e \in Events, DeadLetter(e) PROVE WebhookAttempts'
    BY Zenon, <1>0, <1>17 DEF DeadLetter, opVars
  <1>18. ASSUME NEW w \in Workers, PrepareEvent(w) PROVE WebhookAttempts'
    <2>1. CASE UNCHANGED attempts
      BY Zenon, <2>1, <1>0
    <2>2. CASE ~UNCHANGED attempts
      <3>1. PICK a \in Attempt : attempts' = Append(attempts, a) /\ a.event = event[w]
        BY <1>18, <2>2, PrepareEventEffect
      <3>2. Reports(event[w]) /\ event[w] \in Events
        BY Zenon, <1>18, <2>2, PrepareEventEffect DEF Reports
      <3>3. \A i \in DOMAIN attempts' :
              (i \in DOMAIN attempts /\ attempts'[i] = attempts[i]) \/ attempts'[i] = a
        BY Zenon, <3>1, AddedAttempt
      <3> QED BY Zenon, <3>1, <3>2, <3>3, WebhookFrame
    <2> QED BY Zenon, <2>1, <2>2
  <1>19. ASSUME NEW w \in Workers, FinishEvent(w) PROVE WebhookAttempts'
    BY Zenon, <1>0, <1>19 DEF FinishEvent, opVars
  <1>20. ASSUME ProviderReceives PROVE WebhookAttempts'
    BY Zenon, <1>0, <1>20 DEF ProviderReceives, opVars
  <1>21. ASSUME NEW w \in Workers, Crash(w) PROVE WebhookAttempts'
    BY Zenon, <1>0, <1>21 DEF Crash, opVars
  <1>22. ASSUME Tick PROVE WebhookAttempts'
    BY Zenon, <1>0, <1>22 DEF Tick, opVars
  <1>23. ASSUME UNCHANGED vars PROVE WebhookAttempts'
    BY Zenon, <1>0, <1>23 DEF vars, opVars
  <1> QED
    BY Zenon, <1>1, <1>2, <1>3, <1>4, <1>5, <1>6, <1>7, <1>8, <1>9, <1>10, <1>11, <1>12,
       <1>13, <1>14, <1>15, <1>16, <1>17, <1>18, <1>19, <1>20, <1>21, <1>22, <1>23
       DEF Next, Proceed

\* Every step keeps EventJobs.
LEMMA EventJobsNext ==
  ASSUME TypeOK, Control, Sends, Inbox, [Next]_vars
  PROVE  EventJobs'
  <1> USE ConstantsAssumption
  <1>0. ASSUME \A v \in Workers :
                 \/ /\ pc'[v] \notin {"apply", "applyFailed", "finishEvent"}
                 \/ /\ verdict'[v] = verdict[v] /\ task'[v] = task[v] /\ event'[v] = event[v]
                    /\ \/ pc'[v] \in {"apply", "applyFailed"} /\ pc[v] \in {"apply", "applyFailed"}
                       \/ pc'[v] = "finishEvent" /\ pc[v] = "finishEvent"
                 \/ pc'[v] = "apply" /\ task'[v] # "event"
                 \/ pc'[v] = "apply" /\ verdict'[v].action # "FINALIZE"
                 \/ pc'[v] = "apply" /\ event'[v] \in Events /\ Reports(event'[v])
        PROVE  EventJobs'
    <2>1. \A f \in Events : Reports(f) => inbox'[f].says \in {"SUCCEEDED", "DECLINED"}
      BY Zenon, SaysStable DEF Reports
    <2>2. Terminal => Terminal'
      BY Zenon, TerminalStable
    <2>3. \A v \in Workers : pc[v] = "finishEvent" => event[v] \in Events
      BY Zenon DEF Control
    <2> QED BY Zenon, <1>0, <2>1, <2>2, <2>3 DEF Inbox, EventJobs, Reports
  <1>1. ASSUME NEW w \in Workers, NEW k \in Keys, Initiate(w, k) PROVE EventJobs'
    BY Zenon, <1>0, <1>1 DEF Initiate, Start, Goto, workerVars, TypeOK, WorkerTypeOK
  <1>2. ASSUME NEW w \in Workers, ClaimUnsent(w) PROVE EventJobs'
    BY Zenon, <1>0, <1>2 DEF ClaimUnsent, Start, Goto, workerVars, TypeOK, WorkerTypeOK
  <1>3. ASSUME NEW w \in Workers, ClaimDue(w) \/ ClaimForReview(w) PROVE EventJobs'
    BY Zenon, <1>0, <1>3 DEF ClaimDue, ClaimForReview, Claim, Start, Goto, workerVars,
       TypeOK, WorkerTypeOK
  <1>4. ASSUME NEW w \in Workers, NEW e \in Events, ClaimEvent(w, e) PROVE EventJobs'
    BY Zenon, <1>0, <1>4 DEF ClaimEvent, Claimable, Start, Goto, workerVars, TypeOK,
       WorkerTypeOK
  <1>5. ASSUME NEW w \in Workers, PrepareFirstSend(w) PROVE EventJobs'
    <2>1. CASE Finish(w)
      BY Zenon, <1>0, <2>1, FinishEffect DEF OthersUndisturbed, TypeOK
    <2>2. CASE UNCHANGED <<task, verdict, event>> /\ (Goto(w, "lookup") \/ Goto(w, "mutate"))
      BY Zenon, <1>0, <2>2 DEF Goto, TypeOK, WorkerTypeOK
    <2> QED BY Zenon, <1>5, <2>1, <2>2 DEF PrepareFirstSend
  <1>6. ASSUME NEW w \in Workers, SendMutation(w) PROVE EventJobs'
    BY Zenon, <1>0, <1>6 DEF SendMutation, Goto, workerVars, TypeOK, WorkerTypeOK
  <1>7. ASSUME NEW w \in Workers, ReceiveMutation(w) PROVE EventJobs'
    BY Zenon, <1>0, <1>7 DEF ReceiveMutation, Goto, workerVars, TypeOK, WorkerTypeOK
  <1>8. ASSUME NEW w \in Workers, CompleteMutation(w) PROVE EventJobs'
    <2>1. task[w] # "event"
      BY Zenon, <1>8 DEF CompleteMutation, Control, Sending
    <2>2. /\ pc'[w] \in {"answer", "idle", "apply"} /\ OthersUndisturbed(w)
          /\ pc'[w] = "apply" /\ verdict'[w].action = "FINALIZE" => task'[w] = task[w]
      BY Zenon, <1>8, CompleteMutationEffect
    <2> QED BY Zenon, <1>0, <2>1, <2>2 DEF OthersUndisturbed
  <1>9. ASSUME NEW w \in Workers, Answer(w) PROVE EventJobs'
    BY Zenon, <1>0, <1>9 DEF Answer, Goto, workerVars, TypeOK, WorkerTypeOK
  <1>10. ASSUME NEW w \in Workers, Lookup(w) PROVE EventJobs'
    BY Zenon, <1>0, <1>10 DEF Lookup, Goto, workerVars, TypeOK, WorkerTypeOK
  <1>11. ASSUME NEW w \in Workers, RecordLookup(w) PROVE EventJobs'
    <2>1. task[w] # "event"
      BY Zenon, <1>11 DEF RecordLookup, Control, Looking
    <2>2. /\ pc'[w] \in {"answer", "idle", "apply"} /\ OthersUndisturbed(w)
          /\ pc'[w] = "apply" /\ verdict'[w].action = "FINALIZE" => task'[w] = task[w]
      BY Zenon, <1>11, RecordLookupEffect
    <2> QED BY Zenon, <1>0, <2>1, <2>2 DEF OthersUndisturbed
  <1>12. ASSUME NEW w \in Workers, ApplyFinalize(w) PROVE EventJobs'
    <2>1. CASE task[w] = "event"
      <3>1. Terminal'
        BY Zenon, <1>12 DEF ApplyFinalize, FinalizeVerifiedAttempt, Settle, opVars, Terminal, Decided
      <3>2. event[w] \in Events /\ Reports(event[w])
        BY Zenon, <1>12, <2>1 DEF ApplyFinalize, Inbox, EventJobs
      <3>3. /\ UNCHANGED <<inbox, task, verdict, event>> /\ pc'[w] = "finishEvent"
            /\ \A v \in Workers \ {w} : pc'[v] = pc[v]
        BY Zenon, <1>12, <2>1 DEF ApplyFinalize, Goto, TypeOK, WorkerTypeOK
      <3> QED BY Zenon, <3>1, <3>2, <3>3 DEF Inbox, EventJobs, Reports
    <2>2. CASE task[w] # "event"
      BY Zenon, <1>0, <1>12, <2>2, FinishEffect DEF ApplyFinalize, OthersUndisturbed, TypeOK
    <2> QED BY Zenon, <2>1, <2>2
  <1>13. ASSUME NEW w \in Workers, ApplyFails(w) PROVE EventJobs'
    BY Zenon, <1>0, <1>13 DEF ApplyFails, Goto, workerVars, TypeOK, WorkerTypeOK
  <1>14. ASSUME NEW w \in Workers, RecordApplyFailure(w) PROVE EventJobs'
    BY Zenon, <1>0, <1>14 DEF RecordApplyFailure, CountApplyFailure, Finish, Forget, Goto,
       workerVars, TypeOK, WorkerTypeOK
  <1>15. ASSUME NEW w \in Workers, ApplyReview(w) PROVE EventJobs'
    BY Zenon, <1>0, <1>15 DEF ApplyReview, MarkOperationForReview, Finish, Forget, Goto,
       workerVars, TypeOK, WorkerTypeOK
  <1>16. ASSUME NEW e \in Events, AcceptEvent(e) PROVE EventJobs'
    BY Zenon, <1>0, <1>16 DEF AcceptEvent, workerVars, TypeOK, WorkerTypeOK
  <1>17. ASSUME NEW e \in Events, DeadLetter(e) PROVE EventJobs'
    BY Zenon, <1>0, <1>17 DEF DeadLetter, workerVars, TypeOK, WorkerTypeOK
  <1>18. ASSUME NEW w \in Workers, PrepareEvent(w) PROVE EventJobs'
    <2>1. pc'[w] \in {"answer", "idle", "apply"} /\ OthersUndisturbed(w)
      BY Zenon, <1>18, PrepareEventEffect
    <2>2. CASE pc'[w] = "apply" /\ verdict'[w].action = "FINALIZE"
      <3>1. /\ event'[w] = event[w] /\ event[w] \in Events
            /\ verdict'[w].n \in DOMAIN attempts' /\ attempts'[verdict'[w].n].kind = "WEBHOOK"
            /\ attempts'[verdict'[w].n].event = event[w]
        BY Zenon, <1>18, <2>2, PrepareEventEffect
      <3>2. WebhookAttempts'
        BY Zenon, WebhookAttemptsNext
      <3>3. inbox'[event[w]].says \in {"SUCCEEDED", "DECLINED"}
        BY Zenon, <3>1, <3>2 DEF WebhookAttempts, Reports
      <3>4. Reports(event'[w])
        <4>1. inbox'[event[w]].says = inbox[event[w]].says
          BY <1>18, <3>1, PrepareEventEffect
        <4> QED BY ONLY Zenon, <3>1, <3>3, <4>1 DEF Reports
      <3> QED BY Zenon, <1>0, <2>1, <2>2, <3>1, <3>4 DEF OthersUndisturbed
    <2>3. CASE ~(pc'[w] = "apply" /\ verdict'[w].action = "FINALIZE")
      BY Zenon, <1>0, <2>1, <2>3 DEF OthersUndisturbed
    <2> QED BY Zenon, <2>2, <2>3
  <1>19. ASSUME NEW w \in Workers, FinishEvent(w) PROVE EventJobs'
    BY Zenon, <1>0, <1>19 DEF FinishEvent, Finish, Forget, Goto, workerVars, TypeOK,
       WorkerTypeOK
  <1>20. ASSUME ProviderReceives PROVE EventJobs'
    BY Zenon, <1>0, <1>20 DEF ProviderReceives, workerVars, TypeOK, WorkerTypeOK
  <1>21. ASSUME NEW w \in Workers, Crash(w) PROVE EventJobs'
    BY Zenon, <1>0, <1>21 DEF Crash, Forget, Goto, workerVars, TypeOK, WorkerTypeOK
  <1>22. ASSUME Tick PROVE EventJobs'
    BY Zenon, <1>0, <1>22 DEF Tick, workerVars, TypeOK, WorkerTypeOK
  <1>23. ASSUME UNCHANGED vars PROVE EventJobs'
    BY Zenon, <1>0, <1>23 DEF vars, workerVars, TypeOK, WorkerTypeOK
  <1> QED
    BY Zenon, <1>1, <1>2, <1>3, <1>4, <1>5, <1>6, <1>7, <1>8, <1>9, <1>10, <1>11, <1>12,
       <1>13, <1>14, <1>15, <1>16, <1>17, <1>18, <1>19, <1>20, <1>21, <1>22, <1>23
       DEF Next, Proceed

\* Every step keeps Inbox.
LEMMA InboxNext == IInv /\ [Next]_vars => Inbox'
  BY Zenon, InboxRowsNext, WebhookAttemptsNext, EventJobsNext DEF IInv, Inbox

-----------------------------------------------------------------------------
(* The theorems.                                                            *)

\* The inductive invariant holds initially.
LEMMA IInvInit == Init => IInv
  <1> SUFFICES ASSUME Init PROVE IInv
    BY Zenon
  <1> USE ConstantsAssumption
  <1>1. TypeOK
    BY Zenon, TypeInit
  <1>2. Control /\ Sends
    <2>1. /\ ~Sent /\ sends = 0 /\ attempts = <<>> /\ wire = "empty" /\ effect = None
          /\ \A w \in Workers : pc[w] = "idle"
          /\ \A e \in Events : inbox[e].status = "ABSENT"
      BY Zenon DEF Init, Sent
    <2>2. \A w \in Workers : ~Sending(w) /\ ~Looking(w)
      BY Zenon, <2>1 DEF Sending, Looking
    <2>3. Control
      BY Zenon, <2>1, <2>2 DEF Control
    <2>4. Sends
      BY <2>1, <2>2 DEF Sends
    <2> QED BY Zenon, <2>3, <2>4
  <1>3. Decision
    BY Zenon DEF Init, Decision, Terminal, Decided, Response, PostedOnce, OneAnswer, AlwaysScheduled
  <1>4. Evidence
    <2>1. DOMAIN attempts = {} /\ response = None /\ \A w \in Workers : pc[w] = "idle" /\ seen[w] = None
      BY DEF Init
    <2>2. \A e \in Events : inbox[e].says = None
      BY Zenon DEF Init
    <2> QED BY Zenon, <2>1, <2>2 DEF Evidence, AttemptsHold, SeenHolds, VerdictsGrounded, EventsHold,
              ResponseHolds, AnswerMatchesEffect
  <1>5. Inbox
    <2>1. DOMAIN attempts = {} /\ \A w \in Workers : pc[w] = "idle"
      BY DEF Init
    <2>2. \A e \in Events : inbox[e].says = None /\ inbox[e].status = "ABSENT"
      BY Zenon DEF Init
    <2> QED BY Zenon, <2>1, <2>2 DEF Inbox, InboxRows, WebhookAttempts, EventJobs
  <1>6. Absence
    <2>1. /\ DOMAIN attempts = {} /\ response = None /\ wire = "empty"
          /\ \A w \in Workers : pc[w] = "idle" /\ age[w] = 0
      BY DEF Init
    <2> QED BY <2>1 DEF Absence, SendInTime, LookupsInTime, MissedEffectIsRecent, FinalAbsence,
              AbsenceIsReal, SendPending, Looking
  <1> QED BY Zenon, <1>1, <1>2, <1>3, <1>4, <1>5, <1>6 DEF IInv

\* IInv is an invariant: it holds initially and every step of requests,
\* pollers, operators, webhooks, the provider, crashes and time keeps it.
THEOREM Invariance == Spec => []IInv
  <1>1. IInv /\ [Next]_vars => IInv'
    BY Zenon, TypeNext, ControlNext, SendsNext, DecisionNext, EvidenceNext, InboxNext, AbsenceNext DEF IInv
  <1> QED BY IInvInit, <1>1, PTL DEF Spec

\* The rows and the workers of every run are well formed.
THEOREM TypeCorrect == Spec => []TypeOK
  <1>1. IInv => TypeOK
    BY Zenon DEF IInv
  <1> QED BY <1>1, Invariance, PTL

\* The mutation is put on the wire at most once (prepare_first_send).
THEOREM SentOnce == Spec => []SendAtMostOnce
  <1>1. IInv => SendAtMostOnce
    BY Zenon DEF IInv, Sends, SendAtMostOnce
  <1> QED BY <1>1, Invariance, PTL

\* All keys and all clients hold the operation's one response.
THEOREM AnsweredOnce == Spec => []OneAnswer
  <1>1. IInv => OneAnswer
    BY Zenon DEF IInv, Decision
  <1> QED BY <1>1, Invariance, PTL

\* The finalizer posts once for a success and never for a failure.
THEOREM PostsOnce == Spec => []PostedOnce
  <1>1. IInv => PostedOnce
    BY Zenon DEF IInv, Decision
  <1> QED BY <1>1, Invariance, PTL

\* A finalized success or decline is what the provider did.
THEOREM AnswerIsTrue == Spec => []AnswerMatchesEffect
  <1>1. IInv => AnswerMatchesEffect
    BY Zenon DEF IInv, Evidence, ResponseHolds
  <1> QED BY <1>1, Invariance, PTL

\* No path leaves a sent PROCESSING operation without a next lookup.
THEOREM Scheduled == Spec => []AlwaysScheduled
  <1>1. IInv => AlwaysScheduled
    BY Zenon DEF IInv, Decision
  <1> QED BY <1>1, Invariance, PTL

\* With the delay bounds, an operation failed as not found has no effect at the
\* provider and never gets one (ADR-011).
THEOREM AbsenceTheorem == ASSUME Timely PROVE Spec => []AbsenceIsReal
  <1>1. IInv => AbsenceIsReal
    BY Zenon DEF IInv, Absence
  <1> QED BY <1>1, Invariance, PTL

\* If the configured grace is at most the dispatcher's, no not-found fails an
\* operation before the configured grace has passed.
THEOREM GraceTheorem == ASSUME Grace <= DispatchGrace PROVE Spec => []GraceRespected
  <1>1. IInv => GraceRespected
    <2> SUFFICES ASSUME TypeOK, ResponseHolds PROVE GraceRespected
      BY Zenon DEF IInv, Evidence
    <2>1. Sent => sentAge \in Nat
      BY ConstantsAssumption DEF TypeOK, OpTypeOK, Sent, Horizon
    <2> QED BY <2>1, ConstantsAssumption DEF ResponseHolds, PastAGrace, GraceRespected
  <1> QED BY <1>1, Invariance, PTL

\* With the delay bounds, an event is marked APPLIED only for an operation that
\* ended the way the event says.
THEOREM AppliedTheorem == ASSUME Timely PROVE Spec => []AppliedEventAgrees
  <1>1. IInv => AppliedEventAgrees
    <2> SUFFICES ASSUME IInv, NEW e \in Events, inbox[e].status = "APPLIED"
                 PROVE  status = IF inbox[e].says = "SUCCEEDED" THEN "SUCCEEDED" ELSE "FAILED"
      BY Zenon DEF AppliedEventAgrees
    <2>1. Terminal /\ inbox[e].says \in {"SUCCEEDED", "DECLINED"} /\ inbox[e].says = effect
      BY Zenon DEF IInv, Inbox, InboxRows, Reports, Evidence, EventsHold
    <2>2. response \in {"SUCCEEDED", "DECLINED", "NOT_FOUND"}
          /\ (status = "SUCCEEDED" <=> response = "SUCCEEDED")
      BY Zenon, <2>1 DEF IInv, Decision, Response
    <2>3. response = effect
      BY Zenon, <2>1, <2>2, ConstantsAssumption DEF IInv, Absence, AbsenceIsReal, Evidence, ResponseHolds,
         AnswerMatchesEffect
    <2> QED BY Zenon, <2>1, <2>2, <2>3 DEF Terminal, Decided
  <1> QED BY <1>1, Invariance, PTL

\* With the delay bounds, every step is a step of the contract or changes nothing
\* the contract sees.
LEMMA StepImplements ==
  ASSUME IInv, Timely, [Next]_vars
  PROVE  [Contract!Next]_(Contract!vars)
  <1> USE ConstantsAssumption
  <1>0. TypeOK /\ Control /\ Sends /\ Decision /\ Evidence
    BY Zenon DEF IInv
  <1> USE <1>0
  <1>1. ASSUME NEW w \in Workers, NEW k \in Keys, Initiate(w, k) PROVE [Contract!Next]_(Contract!vars)
    <2>1. /\ UNCHANGED <<response, postings, effect>>
          /\ status' = (IF status = "ABSENT" THEN "PROCESSING" ELSE status)
          /\ IF AnswerFor(k) # None THEN told' = told \cup {AnswerFor(k)} ELSE told' = told
      BY Zenon, <1>1 DEF Initiate, providerVars
    <2>2. CASE AnswerFor(k) # None
      <3>1. AnswerFor(k) = response
        BY Zenon DEF AnswerFor, Decision, OneAnswer
      <3>2. response \in Response
        BY Zenon, <2>2, <3>1 DEF TypeOK, OpTypeOK
      <3>3. status \in {"SUCCEEDED", "FAILED"}
        BY Zenon, <3>2 DEF Decision, Terminal, Decided
      <3> QED BY Zenon, <2>1, <2>2, <3>1, <3>3 DEF Contract!Next, Contract!Tell
    <2>3. CASE AnswerFor(k) = None
      BY Zenon, <2>1, <2>3 DEF Contract!Next, Contract!Accept, Contract!vars
    <2> QED BY Zenon, <2>2, <2>3
  <1>2. ASSUME NEW w \in Workers, ClaimUnsent(w) PROVE [Contract!Next]_(Contract!vars)
    BY Zenon, <1>2 DEF ClaimUnsent, opVars, providerVars, Contract!vars
  <1>3. ASSUME NEW w \in Workers, ClaimDue(w) \/ ClaimForReview(w) PROVE [Contract!Next]_(Contract!vars)
    BY Zenon, <1>3 DEF ClaimDue, ClaimForReview, Claim, providerVars, Contract!vars
  <1>4. ASSUME NEW w \in Workers, NEW e \in Events, ClaimEvent(w, e) PROVE [Contract!Next]_(Contract!vars)
    BY Zenon, <1>4 DEF ClaimEvent, Claimable, opVars, providerVars, Contract!vars
  <1>5. ASSUME NEW w \in Workers, PrepareFirstSend(w) PROVE [Contract!Next]_(Contract!vars)
    BY Zenon, <1>5 DEF PrepareFirstSend, LookupOnly, opVars, providerVars, Contract!vars
  <1>6. ASSUME NEW w \in Workers, SendMutation(w) PROVE [Contract!Next]_(Contract!vars)
    BY Zenon, <1>6 DEF SendMutation, opVars, providerVars, Contract!vars
  <1>7. ASSUME NEW w \in Workers, ReceiveMutation(w) PROVE [Contract!Next]_(Contract!vars)
    BY Zenon, <1>7 DEF ReceiveMutation, opVars, providerVars, Contract!vars
  <1>8. ASSUME NEW w \in Workers, CompleteMutation(w) PROVE [Contract!Next]_(Contract!vars)
    BY Zenon, <1>8 DEF CompleteMutation, Conclude, opVars, providerVars, Contract!vars
  <1>9. ASSUME NEW w \in Workers, Answer(w) PROVE [Contract!Next]_(Contract!vars)
    <2>1. UNCHANGED <<status, response, postings, effect>>
      BY Zenon, <1>9 DEF Answer, opVars, providerVars
    <2> QED BY Zenon, <1>9, <2>1 DEF Answer, Terminal, Decided, Contract!Next, Contract!Tell, Contract!vars
  <1>10. ASSUME NEW w \in Workers, Lookup(w) PROVE [Contract!Next]_(Contract!vars)
    BY Zenon, <1>10 DEF Lookup, opVars, providerVars, Contract!vars
  <1>11. ASSUME NEW w \in Workers, RecordLookup(w) PROVE [Contract!Next]_(Contract!vars)
    BY Zenon, <1>11, RecordLookupEffect DEF RecordLookup, opVars, providerVars, Contract!vars
  <1>12. ASSUME NEW w \in Workers, ApplyFinalize(w) PROVE [Contract!Next]_(Contract!vars)
    <2>1. CASE Terminal
      BY Zenon, <1>12, <2>1 DEF ApplyFinalize, FinalizeVerifiedAttempt, opVars, providerVars, Contract!vars
    <2>2. CASE ~Terminal
      <3>1. Settle(verdict[w].n) /\ UNCHANGED <<effect, told>>
        BY Zenon, <1>12, <2>2 DEF ApplyFinalize, FinalizeVerifiedAttempt, providerVars
      <3>2. status \in {"PROCESSING", "REQUIRES_REVIEW"}
        BY Zenon, <1>12, <2>2 DEF ApplyFinalize, Control, Terminal, Decided, TypeOK, OpTypeOK, Status
      <3>3. postings = 0
        BY Zenon, <2>2 DEF Decision, PostedOnce, Terminal, Decided
      <3>4. response' \in Response
        BY Zenon, <3>1 DEF Settle, ResponseOf, Response
      <3>5. /\ response' = "SUCCEEDED" => effect = "SUCCEEDED"
            /\ response' = "DECLINED" => effect = "DECLINED"
            /\ response' = "NOT_FOUND" => effect = None
        BY Zenon, <3>1, ResponseHoldsNext, AbsenceNext DEF IInv, ResponseHolds, AnswerMatchesEffect, Absence,
           AbsenceIsReal
      <3>6. status' = IF response' = "SUCCEEDED" THEN "SUCCEEDED" ELSE "FAILED"
        BY Zenon, <3>1 DEF Settle
      <3>7. postings' = IF response' = "SUCCEEDED" THEN 1 ELSE 0
        BY <3>1, <3>3 DEF Settle
      <3> QED BY Zenon, <3>1, <3>2, <3>4, <3>5, <3>6, <3>7 DEF Response, Contract!Next, Contract!Decide
    <2> QED BY Zenon, <2>1, <2>2
  <1>13. ASSUME NEW w \in Workers, ApplyFails(w) PROVE [Contract!Next]_(Contract!vars)
    BY Zenon, <1>13 DEF ApplyFails, opVars, providerVars, Contract!vars
  <1>14. ASSUME NEW w \in Workers, RecordApplyFailure(w) PROVE [Contract!Next]_(Contract!vars)
    <2>1. UNCHANGED <<response, postings, effect, told>> /\ pc[w] = "applyFailed"
      BY Zenon, <1>14 DEF RecordApplyFailure, CountApplyFailure, opVars, providerVars
    <2>2. status' = status \/ (~Terminal /\ status' = "REQUIRES_REVIEW")
      BY Zenon, <1>14 DEF RecordApplyFailure, CountApplyFailure, opVars
    <2>3. ~Terminal => status \in {"PROCESSING", "REQUIRES_REVIEW"}
      BY Zenon, <2>1 DEF Control, Terminal, Decided, TypeOK, OpTypeOK, Status
    <2> QED BY Zenon, <2>1, <2>2, <2>3 DEF Contract!Next, Contract!Park, Contract!vars
  <1>15. ASSUME NEW w \in Workers, ApplyReview(w) PROVE [Contract!Next]_(Contract!vars)
    <2>1. UNCHANGED <<response, postings, effect, told>> /\ pc[w] = "apply"
      BY Zenon, <1>15 DEF ApplyReview, MarkOperationForReview, opVars, providerVars
    <2>2. status' = status \/ (~Terminal /\ status' = "REQUIRES_REVIEW")
      BY Zenon, <1>15 DEF ApplyReview, MarkOperationForReview, opVars
    <2>3. ~Terminal => status \in {"PROCESSING", "REQUIRES_REVIEW"}
      BY Zenon, <2>1 DEF Control, Terminal, Decided, TypeOK, OpTypeOK, Status
    <2> QED BY Zenon, <2>1, <2>2, <2>3 DEF Contract!Next, Contract!Park, Contract!vars
  <1>16. ASSUME NEW e \in Events, AcceptEvent(e) PROVE [Contract!Next]_(Contract!vars)
    BY Zenon, <1>16 DEF AcceptEvent, opVars, providerVars, Contract!vars
  <1>17. ASSUME NEW e \in Events, DeadLetter(e) PROVE [Contract!Next]_(Contract!vars)
    BY Zenon, <1>17 DEF DeadLetter, opVars, providerVars, Contract!vars
  <1>18. ASSUME NEW w \in Workers, PrepareEvent(w) PROVE [Contract!Next]_(Contract!vars)
    BY Zenon, <1>18 DEF PrepareEvent, HoldsEvent, Conclude, opVars, providerVars,
       Contract!vars
  <1>19. ASSUME NEW w \in Workers, FinishEvent(w) PROVE [Contract!Next]_(Contract!vars)
    BY Zenon, <1>19 DEF FinishEvent, opVars, providerVars, Contract!vars
  <1>20. ASSUME ProviderReceives PROVE [Contract!Next]_(Contract!vars)
    <2>1. wire = "request" /\ UNCHANGED <<status, response, postings, told>>
      BY Zenon, <1>20 DEF ProviderReceives, opVars
    <2>2. effect' \in {"SUCCEEDED", "DECLINED", "PENDING", None}
      BY Zenon, <1>20 DEF ProviderReceives, Outcome
    <2>3. effect = None /\ SendPending
      BY Zenon, <2>1 DEF Sends, SendPending
    <2>4. status # "ABSENT"
      BY Zenon, <2>1 DEF Sends, Control
    <2>5. ~Terminal
      BY Zenon, <2>3 DEF Decision, Response, Evidence, ResponseHolds, AnswerMatchesEffect, IInv, Absence, AbsenceIsReal
    <2>6. status \in {"PROCESSING", "REQUIRES_REVIEW"}
      BY Zenon, <2>4, <2>5 DEF Terminal, Decided, TypeOK, OpTypeOK, Status
    <2> QED BY Zenon, <2>1, <2>2, <2>3, <2>6 DEF Contract!Next, Contract!Act, Contract!vars
  <1>21. ASSUME NEW w \in Workers, Crash(w) PROVE [Contract!Next]_(Contract!vars)
    BY Zenon, <1>21 DEF Crash, opVars, providerVars, Contract!vars
  <1>22. ASSUME Tick PROVE [Contract!Next]_(Contract!vars)
    BY Zenon, <1>22 DEF Tick, opVars, providerVars, Contract!vars
  <1>23. ASSUME UNCHANGED vars PROVE [Contract!Next]_(Contract!vars)
    BY Zenon, <1>23 DEF vars, opVars, providerVars, Contract!vars
  <1> QED
    BY Zenon, <1>1, <1>2, <1>3, <1>4, <1>5, <1>6, <1>7, <1>8, <1>9, <1>10, <1>11, <1>12,
       <1>13, <1>14, <1>15, <1>16, <1>17, <1>18, <1>19, <1>20, <1>21, <1>22, <1>23
       DEF Next, Proceed

\* With the delay bounds, the machinery of sends, lookups, leases, webhooks and
\* reviews implements the contract the payment graph builds on.
THEOREM Implementation == ASSUME Timely PROVE Spec => ImplementsContract
  <1>1. Init => Contract!Init
    BY Zenon DEF Init, Contract!Init
  <1>2. IInv /\ [Next]_vars => [Contract!Next]_(Contract!vars)
    BY Zenon, StepImplements
  <1> QED BY <1>1, <1>2, Invariance, PTL DEF Spec, ImplementsContract, Contract!Spec

\* What a step may do to a decided operation: nothing but repeat its response.
StandsFast ==
    Terminal => /\ UNCHANGED <<status, response, postings>>
                /\ told' \subseteq told \cup {response}

\* No step changes a decision.
LEMMA StepStands ==
  ASSUME IInv, [Next]_vars
  PROVE  StandsFast
  <1> USE ConstantsAssumption
  <1>0. TypeOK /\ Control /\ Decision
    BY Zenon DEF IInv
  <1> USE <1>0
  <1> USE DEF StandsFast
  <1>1. ASSUME NEW w \in Workers, NEW k \in Keys, Initiate(w, k) PROVE StandsFast
    <2>1. AnswerFor(k) # None => AnswerFor(k) = response
      BY Zenon DEF AnswerFor, Decision, OneAnswer
    <2> QED BY Zenon, <1>1, <2>1 DEF Initiate, Terminal, Decided
  <1>2. ASSUME NEW w \in Workers, ClaimUnsent(w) PROVE StandsFast
    BY Zenon, <1>2 DEF ClaimUnsent, opVars
  <1>3. ASSUME NEW w \in Workers, ClaimDue(w) \/ ClaimForReview(w) PROVE StandsFast
    BY Zenon, <1>3 DEF ClaimDue, ClaimForReview, Claim
  <1>4. ASSUME NEW w \in Workers, NEW e \in Events, ClaimEvent(w, e) PROVE StandsFast
    BY Zenon, <1>4 DEF ClaimEvent, Claimable, opVars
  <1>5. ASSUME NEW w \in Workers, PrepareFirstSend(w) PROVE StandsFast
    BY Zenon, <1>5 DEF PrepareFirstSend, LookupOnly, opVars
  <1>6. ASSUME NEW w \in Workers, SendMutation(w) PROVE StandsFast
    BY Zenon, <1>6 DEF SendMutation, opVars
  <1>7. ASSUME NEW w \in Workers, ReceiveMutation(w) PROVE StandsFast
    BY Zenon, <1>7 DEF ReceiveMutation, opVars
  <1>8. ASSUME NEW w \in Workers, CompleteMutation(w) PROVE StandsFast
    BY Zenon, <1>8 DEF CompleteMutation, Conclude, opVars
  <1>9. ASSUME NEW w \in Workers, Answer(w) PROVE StandsFast
    BY Zenon, <1>9 DEF Answer, opVars
  <1>10. ASSUME NEW w \in Workers, Lookup(w) PROVE StandsFast
    BY Zenon, <1>10 DEF Lookup, opVars
  <1>11. ASSUME NEW w \in Workers, RecordLookup(w) PROVE StandsFast
    BY Zenon, <1>11, RecordLookupEffect DEF RecordLookup, opVars
  <1>12. ASSUME NEW w \in Workers, ApplyFinalize(w) PROVE StandsFast
    BY Zenon, <1>12 DEF ApplyFinalize, FinalizeVerifiedAttempt, Settle, opVars
  <1>13. ASSUME NEW w \in Workers, ApplyFails(w) PROVE StandsFast
    BY Zenon, <1>13 DEF ApplyFails, opVars
  <1>14. ASSUME NEW w \in Workers, RecordApplyFailure(w) PROVE StandsFast
    BY Zenon, <1>14 DEF RecordApplyFailure, CountApplyFailure, opVars
  <1>15. ASSUME NEW w \in Workers, ApplyReview(w) PROVE StandsFast
    BY Zenon, <1>15 DEF ApplyReview, MarkOperationForReview, opVars
  <1>16. ASSUME NEW e \in Events, AcceptEvent(e) PROVE StandsFast
    BY Zenon, <1>16 DEF AcceptEvent, opVars
  <1>17. ASSUME NEW e \in Events, DeadLetter(e) PROVE StandsFast
    BY Zenon, <1>17 DEF DeadLetter, opVars
  <1>18. ASSUME NEW w \in Workers, PrepareEvent(w) PROVE StandsFast
    BY Zenon, <1>18 DEF PrepareEvent, HoldsEvent, Conclude, opVars
  <1>19. ASSUME NEW w \in Workers, FinishEvent(w) PROVE StandsFast
    BY Zenon, <1>19 DEF FinishEvent, opVars
  <1>20. ASSUME ProviderReceives PROVE StandsFast
    BY Zenon, <1>20 DEF ProviderReceives, opVars
  <1>21. ASSUME NEW w \in Workers, Crash(w) PROVE StandsFast
    BY Zenon, <1>21 DEF Crash, opVars
  <1>22. ASSUME Tick PROVE StandsFast
    BY Zenon, <1>22 DEF Tick, opVars
  <1>23. ASSUME UNCHANGED vars PROVE StandsFast
    BY Zenon, <1>23 DEF vars, opVars
  <1> QED
    BY Zenon, <1>1, <1>2, <1>3, <1>4, <1>5, <1>6, <1>7, <1>8, <1>9, <1>10, <1>11, <1>12,
       <1>13, <1>14, <1>15, <1>16, <1>17, <1>18, <1>19, <1>20, <1>21, <1>22, <1>23
       DEF Next, Proceed

\* A decision is never changed: late answers, lookups, webhooks and review
\* requests leave status, response and postings as they are.
THEOREM DecisionTheorem == Spec => DecisionStands
  <1>1. IInv /\ [Next]_vars => [StandsFast]_vars
    BY Zenon, StepStands
  <1> QED BY <1>1, Invariance, PTL DEF Spec, DecisionStands, StandsFast
=============================================================================
