---------------------- MODULE ProviderOperationProofs ----------------------
(***************************************************************************)
(* Proofs about ProviderOperation, for every value of its constants: types,*)
(* what the shared steps do, and that every step keeps Control, Sends,     *)
(* Decision and Evidence (attempts, answers in flight and events say what  *)
(* the provider did).                                                      *)
(***************************************************************************)
EXTENDS ProviderOperationInv, TLAPS

-----------------------------------------------------------------------------
(* Facts about the operators the actions are built from.                   *)

\* _next_lookup never returns a negative delay or one above its cap.
LEMMA NextLookupType == \A n : NextLookup(n) \in 0..MaxBackoff
  BY ConstantsAssumption DEF NextLookup

\* Counting up to a limit stays within it.
LEMMA LeastType ==
  ASSUME NEW m \in Nat, NEW n \in 0..m
  PROVE  Least(n + 1, m) \in 0..m /\ Least(n + 1, m) >= n
  BY DEF Least

\* The recorded attempts of an event are positions in the attempts.
LEMMA RecordedForType ==
  ASSUME attempts \in Seq(Attempt), NEW e
  PROVE  /\ Len(attempts) + 1 \in Nat
         /\ \A n \in RecordedFor(e) : n \in Nat /\ n \in DOMAIN attempts
  BY DEF RecordedFor

\* A classified observation is a class the attempts may carry.
LEMMA ClassOfType ==
  ASSUME NEW o \in Observation
  PROVE  /\ ClassOf(o) \in Class
         /\ ClassOf(o) = "VERIFIED_SUCCESS" <=> o = "SUCCEEDED"
         /\ ClassOf(o) = "VERIFIED_DECLINE" <=> o = "DECLINED"
         /\ ClassOf(o) = "WITHIN_GRACE" <=> o = "NOT_FOUND"
         /\ ClassOf(o) # "NOT_FOUND_FINAL"
         /\ ClassOf(o) # "SENT"
  BY Zenon DEF ClassOf, Class, Finalizing, Observation, Outcome

\* The attempts stay a sequence of attempts when the mutation is completed.
LEMMA CompleteFirst ==
  ASSUME NEW s \in Seq(Attempt), s # <<>>, NEW c \in Class
  PROVE  /\ [s EXCEPT ![1].class = c] \in Seq(Attempt)
         /\ Len([s EXCEPT ![1].class = c]) = Len(s)
         /\ \A i \in 1..Len(s) :
              /\ [s EXCEPT ![1].class = c][i].kind = s[i].kind
              /\ [s EXCEPT ![1].class = c][i].event = s[i].event
              /\ [s EXCEPT ![1].class = c][i].class = IF i = 1 THEN c ELSE s[i].class
  <1> DEFINE x == [s[1] EXCEPT !.class = c]
             t == [s EXCEPT ![1] = x]
  <1>1. s[1] \in Attempt
    OBVIOUS
  <1>2. x \in Attempt /\ x.kind = s[1].kind /\ x.event = s[1].event /\ x.class = c
    BY Zenon, <1>1 DEF Attempt
  <1>3. /\ t \in Seq(Attempt)
        /\ Len(t) = Len(s)
        /\ \A i \in 1..Len(s) : t[i] = IF i = 1 THEN x ELSE s[i]
    <2> HIDE DEF x
    <2> QED BY <1>2
  <1> QED BY <1>2, <1>3

\* The attempts stay a sequence of attempts when one is added.
LEMMA AddAttempt ==
  ASSUME NEW s \in Seq(Attempt), NEW a \in Attempt
  PROVE  /\ Append(s, a) \in Seq(Attempt)
         /\ Len(Append(s, a)) = Len(s) + 1
         /\ \A i \in 1..Len(s) : Append(s, a)[i] = s[i]
         /\ Append(s, a)[Len(s) + 1] = a
  OBVIOUS

\* When one attempt is added, every attempt is that one or an earlier one.
LEMMA AddedAttempt ==
  ASSUME TypeOK, NEW a \in Attempt, attempts' = Append(attempts, a)
  PROVE  \A i \in DOMAIN attempts' :
           (i \in DOMAIN attempts /\ attempts'[i] = attempts[i]) \/ attempts'[i] = a
  <1>1. attempts \in Seq(Attempt)
    BY Zenon DEF TypeOK, OpTypeOK
  <1> QED BY <1>1

\* The ages of a send and of a lookup are numbers.
LEMMA Ages ==
  ASSUME TypeOK
  PROVE  (Sent => sentAge \in Nat) /\ \A w \in Workers : age[w] \in Nat
  <1>1. Sent => sentAge \in Nat
    <2>1. sentAge \in (0..Horizon) \cup {None}
      BY Zenon DEF TypeOK, OpTypeOK
    <2> QED BY <2>1 DEF Sent
  <1>2. ASSUME NEW w \in Workers PROVE age[w] \in Nat
    BY Zenon DEF TypeOK, WorkerTypeOK
  <1> QED BY Zenon, <1>1, <1>2

-----------------------------------------------------------------------------
(* Type correctness.                                                       *)

\* The initial state is well typed.
LEMMA TypeInit == Init => TypeOK
  <1> SUFFICES ASSUME Init PROVE TypeOK
    BY Zenon
  <1>1. OpTypeOK
    BY ConstantsAssumption DEF Init, OpTypeOK, Status, Horizon
  <1>2. ProviderTypeOK /\ InboxTypeOK
    BY ConstantsAssumption DEF Init, ProviderTypeOK, InboxTypeOK, InboxEvent, EventStatus
  <1>3. WorkerTypeOK
    BY Zenon DEF Init, WorkerTypeOK, Pc, Verdict, NoVerdict
  <1> QED BY Zenon, <1>1, <1>2, <1>3 DEF Init, TypeOK, Usage

\* A worker that ends its job stays well typed.
LEMMA TypeFinish ==
  ASSUME WorkerTypeOK, NEW w \in Workers, Finish(w)
  PROVE  WorkerTypeOK'
  BY Zenon DEF WorkerTypeOK, Finish, Goto, Forget, Verdict, NoVerdict, Pc, Task

\* So does one that goes on to apply the verdict it reached.
LEMMA TypeConclude ==
  ASSUME WorkerTypeOK, NEW w \in Workers, NEW n \in Nat,
         NEW action \in {"NONE", "FINALIZE", "REVIEW"}, NEW why \in Reason \cup {None},
         Conclude(w, n, action, why)
  PROVE  WorkerTypeOK'
  <1>1. CASE action = "NONE"
    BY Zenon, <1>1, TypeFinish DEF Conclude
  <1>2. CASE action # "NONE"
    <2>1. [n |-> n, action |-> action, reason |-> why] \in Verdict
      BY Zenon DEF Verdict
    <2> QED BY <1>2, <2>1 DEF WorkerTypeOK, Conclude, Goto, Pc
  <1> QED BY Zenon, <1>1, <1>2

\* The finalizer's transactions keep the rows well typed.
LEMMA TypeFinalizer ==
  ASSUME OpTypeOK,
         \/ \E n \in Nat : FinalizeVerifiedAttempt(n)
         \/ \E why \in Reason \cup {None} : MarkOperationForReview(why)
         \/ CountApplyFailure
  PROVE  OpTypeOK'
  <1>1. ASSUME NEW n \in Nat, FinalizeVerifiedAttempt(n) PROVE OpTypeOK'
    <2>1. CASE Terminal
      BY Zenon, <1>1, <2>1 DEF OpTypeOK, FinalizeVerifiedAttempt, opVars
    <2>2. CASE ~Terminal
      <3>1. ResponseOf(attempts[n].class) \in Response
        BY Zenon DEF ResponseOf, Response
      <3> QED
        BY <1>1, <2>2, <3>1, ConstantsAssumption
           DEF OpTypeOK, FinalizeVerifiedAttempt, Settle, Status, Decided
    <2> QED BY Zenon, <2>1, <2>2
  <1>2. ASSUME NEW why \in Reason \cup {None}, MarkOperationForReview(why) PROVE OpTypeOK'
    BY <1>2, ConstantsAssumption DEF OpTypeOK, MarkOperationForReview, opVars, Status
  <1>3. ASSUME CountApplyFailure PROVE OpTypeOK'
    BY <1>3 DEF OpTypeOK, CountApplyFailure, opVars, Status, Reason
  <1> QED BY Zenon, <1>1, <1>2, <1>3

\* An inbox row stays well typed in every change the inbox actions make.
LEMMA TypeRow ==
  ASSUME NEW row \in InboxEvent
  PROVE  /\ \A says \in Outcome \cup {"INVALID"} :
              [row EXCEPT !.status = "PENDING", !.says = says] \in InboxEvent
         /\ \A as \in EventStatus :
              [row EXCEPT !.status = as, !.by = None, !.left = 0] \in InboxEvent
         /\ \A w \in Workers :
              [status |-> "PROCESSING", says |-> row.says, by |-> w,
               left |-> EventLease, claims |-> row.claims + 1] \in InboxEvent
         /\ [row EXCEPT !.left = Decrement(@)] \in InboxEvent
  <1>1. 0..EventLease \subseteq Nat /\ 0 \in 0..EventLease /\ EventLease \in 0..EventLease
        /\ \A n \in 0..EventLease : Decrement(n) \in 0..EventLease
    BY ConstantsAssumption DEF Decrement
  <1>2. "PENDING" \in EventStatus /\ "PROCESSING" \in EventStatus
    BY Zenon DEF EventStatus
  <1>3. ASSUME NEW says \in Outcome \cup {"INVALID"}
        PROVE  [row EXCEPT !.status = "PENDING", !.says = says] \in InboxEvent
    BY Zenon, <1>2 DEF InboxEvent
  <1>4. ASSUME NEW as \in EventStatus
        PROVE  [row EXCEPT !.status = as, !.by = None, !.left = 0] \in InboxEvent
    BY Zenon, <1>1 DEF InboxEvent
  <1>5. ASSUME NEW w \in Workers
        PROVE  [status |-> "PROCESSING", says |-> row.says, by |-> w,
                left |-> EventLease, claims |-> row.claims + 1] \in InboxEvent
    <2>1. row.claims + 1 \in Nat /\ row.says \in Outcome \cup {"INVALID", None}
      BY DEF InboxEvent
    <2> QED BY Zenon, <1>1, <1>2, <2>1 DEF InboxEvent
  <1>6. [row EXCEPT !.left = Decrement(@)] \in InboxEvent
    <2>1. row.left \in 0..EventLease
      BY Zenon DEF InboxEvent
    <2>2. Decrement(row.left) \in 0..EventLease
      BY Zenon, <1>1, <2>1
    <2> QED BY Zenon, <2>2 DEF InboxEvent
  <1> QED BY Zenon, <1>3, <1>4, <1>5, <1>6

\* The environment's counters stay naturals.
LEMMA TypeUsed ==
  ASSUME used \in Usage
  PROVE  /\ [used EXCEPT !.requests = @ + 1] \in Usage
         /\ [used EXCEPT !.admin = @ + 1] \in Usage
         /\ [used EXCEPT !.crashes = @ + 1] \in Usage
         /\ [used EXCEPT !.faults = @ + 1] \in Usage
  BY DEF Usage

\* What a step leaves alone keeps its type.
LEMMA TypeFrame ==
  /\ OpTypeOK /\ UNCHANGED opVars => OpTypeOK'
  /\ ProviderTypeOK /\ UNCHANGED providerVars => ProviderTypeOK'
  /\ InboxTypeOK /\ UNCHANGED inbox => InboxTypeOK'
  /\ WorkerTypeOK /\ UNCHANGED workerVars => WorkerTypeOK'
  BY Zenon DEF OpTypeOK, opVars, ProviderTypeOK, providerVars, InboxTypeOK, WorkerTypeOK, workerVars

\* Closing an event keeps the inbox well typed.
LEMMA TypeClosed ==
  ASSUME InboxTypeOK, NEW e \in Events, NEW as \in EventStatus
  PROVE  Closed(e, as) \in [Events -> InboxEvent]
  BY Zenon, TypeRow DEF InboxTypeOK, Closed

\* The verdict of a class is one the workers know.
LEMMA ActionOfType == \A c : ActionOf(c) \in {"NONE", "FINALIZE", "REVIEW"}
  BY Zenon DEF ActionOf

\* Every step of the specification keeps the state well typed.
LEMMA TypeNext == IInv /\ [Next]_vars => TypeOK'
  <1> SUFFICES ASSUME TypeOK, Control, Sends, Decision, [Next]_vars PROVE TypeOK'
    BY Zenon DEF IInv
  <1> USE ConstantsAssumption
  <1>1. ASSUME NEW w \in Workers, NEW k \in Keys, Initiate(w, k) PROVE TypeOK'
    <2>1. OpTypeOK'
      BY Zenon, <1>1 DEF TypeOK, OpTypeOK, Decision, Initiate, AttachKey, Status
    <2>2. WorkerTypeOK'
      BY Zenon, <1>1 DEF TypeOK, WorkerTypeOK, Initiate, Start, Goto, Pc, Task
    <2>3. told' \subseteq Response /\ used' \in Usage
      BY Zenon, <1>1, TypeUsed DEF TypeOK, OpTypeOK, Initiate, AnswerFor
    <2> QED BY Zenon, <1>1, <2>1, <2>2, <2>3, TypeFrame DEF TypeOK, Initiate
  <1>2. ASSUME NEW w \in Workers, ClaimUnsent(w) PROVE TypeOK'
    BY <1>2 DEF TypeOK, OpTypeOK, ProviderTypeOK, InboxTypeOK, WorkerTypeOK, ClaimUnsent,
       Start, Goto, providerVars, Pc, Task
  <1>3. ASSUME NEW w \in Workers, Claim(w), used' \in Usage PROVE TypeOK'
    <2>1. OpTypeOK'
      BY <1>3 DEF TypeOK, OpTypeOK, Claim
    <2>2. WorkerTypeOK'
      BY Zenon, <1>3 DEF TypeOK, WorkerTypeOK, Claim, Start, Goto, Pc, Task
    <2> QED BY Zenon, <1>3, <2>1, <2>2, TypeFrame DEF TypeOK, Claim
  <1>4. ASSUME NEW w \in Workers, NEW e \in Events, ClaimEvent(w, e) PROVE TypeOK'
    <2>1. InboxTypeOK'
      <3>1. [status |-> "PROCESSING", says |-> inbox[e].says, by |-> w,
             left |-> EventLease, claims |-> inbox[e].claims + 1] \in InboxEvent
        BY Zenon, TypeRow DEF TypeOK, InboxTypeOK
      <3> QED BY Zenon, <1>4, <3>1 DEF TypeOK, InboxTypeOK, ClaimEvent
    <2>2. WorkerTypeOK'
      BY Zenon, <1>4 DEF TypeOK, WorkerTypeOK, ClaimEvent, Start, Goto, Pc, Task
    <2> QED BY Zenon, <1>4, <2>1, <2>2, TypeFrame DEF TypeOK, ClaimEvent
  <1>5. ASSUME NEW w \in Workers, PrepareFirstSend(w) PROVE TypeOK'
    <2>1. CASE Terminal
      BY Zenon, <1>5, <2>1, TypeFinish DEF TypeOK, OpTypeOK, ProviderTypeOK, InboxTypeOK,
         PrepareFirstSend, LookupOnly, opVars, providerVars
    <2>2. CASE ~Terminal /\ Sent
      BY Zenon, <1>5, <2>2 DEF TypeOK, OpTypeOK, ProviderTypeOK, InboxTypeOK, WorkerTypeOK,
         PrepareFirstSend, LookupOnly, Goto, opVars, providerVars, Pc
    <2>3. CASE ~Terminal /\ ~Sent
      <3>1. [kind |-> "MUTATION", class |-> "SENT", event |-> None] \in Attempt
        BY Zenon DEF Attempt, Class
      <3>2. attempts' \in Seq(Attempt)
        <4> DEFINE a == [kind |-> "MUTATION", class |-> "SENT", event |-> None]
        <4>1. attempts' = <<a>>
          BY Zenon, <1>5, <2>3 DEF PrepareFirstSend, LookupOnly
        <4> HIDE DEF a
        <4> QED BY <3>1, <4>1 DEF a
      <3>3. OpTypeOK'
        <4>1. /\ sentAge' = 0 /\ lookupIn' = 0
              /\ UNCHANGED <<status, response, reason, createdAge, failures, records, postings>>
              /\ UNCHANGED <<leaseBy, leaseLeft>>
          BY Zenon, <1>5, <2>3 DEF PrepareFirstSend, LookupOnly
        <4>2. 0 \in 0..Horizon
          BY DEF Horizon
        <4> QED BY Zenon, <3>2, <4>1, <4>2 DEF TypeOK, OpTypeOK
      <3>4. WorkerTypeOK'
        BY Zenon, <1>5, <2>3 DEF TypeOK, WorkerTypeOK, PrepareFirstSend, LookupOnly, Goto, Pc
      <3> QED BY Zenon, <1>5, <3>3, <3>4, TypeFrame DEF TypeOK, PrepareFirstSend
    <2> QED BY Zenon, <2>1, <2>2, <2>3
  <1>6. ASSUME NEW w \in Workers, SendMutation(w) PROVE TypeOK'
    BY <1>6 DEF TypeOK, OpTypeOK, ProviderTypeOK, InboxTypeOK, WorkerTypeOK, SendMutation,
       Goto, opVars, Pc
  <1>7. ASSUME NEW w \in Workers, ReceiveMutation(w) \/ Lookup(w) PROVE TypeOK'
    <2>1. PICK o \in Observation : seen' = [seen EXCEPT ![w] = o]
      BY Zenon, <1>7 DEF TypeOK, ProviderTypeOK, ReceiveMutation, Lookup, Observation
    <2>2. WorkerTypeOK'
      BY Zenon, <1>7, <2>1 DEF TypeOK, WorkerTypeOK, ReceiveMutation, Lookup, Goto, Pc
    <2> QED BY Zenon, <1>7, <2>2, TypeFrame DEF TypeOK, ReceiveMutation, Lookup
  <1>8. ASSUME NEW w \in Workers, CompleteMutation(w) PROVE TypeOK'
    <2>1. ClassOf(seen[w]) \in Class
      BY Zenon, <1>8, ClassOfType DEF CompleteMutation, Control
    <2>2. attempts' \in Seq(Attempt)
      BY Zenon, <1>8, <2>1, CompleteFirst DEF CompleteMutation, Sends, Sending, TypeOK, OpTypeOK
    <2>3. lookupIn' \in Nat
      BY <1>8, NextLookupType DEF CompleteMutation
    <2>4. WorkerTypeOK'
      BY Zenon, <1>8, ActionOfType, TypeConclude DEF CompleteMutation, TypeOK, Reason
    <2> QED
      BY Zenon, <1>8, <2>2, <2>3, <2>4 DEF TypeOK, OpTypeOK, ProviderTypeOK, InboxTypeOK,
         CompleteMutation, providerVars
  <1>9. ASSUME NEW w \in Workers, Answer(w) PROVE TypeOK'
    <2>1. WorkerTypeOK'
      BY Zenon, <1>9 DEF TypeOK, WorkerTypeOK, Answer, Goto, Pc
    <2>2. told' \subseteq Response
      BY Zenon, <1>9 DEF TypeOK, OpTypeOK, Decision, Answer
    <2> QED BY Zenon, <1>9, <2>1, <2>2, TypeFrame DEF TypeOK, Answer
  <1>10. ASSUME NEW w \in Workers, RecordLookup(w) PROVE TypeOK'
    <2>1. CASE Terminal \/ Superseded(w)
      BY Zenon, <1>10, <2>1, TypeFinish DEF TypeOK, OpTypeOK, ProviderTypeOK, InboxTypeOK,
         RecordLookup, opVars, providerVars
    <2>2. CASE ~(Terminal \/ Superseded(w))
      <3>1. LookupClass(w) \in Class
        BY Zenon, <1>10, ClassOfType DEF RecordLookup, Control, LookupClass, Class, Finalizing
      <3>2. [kind |-> "LOOKUP", class |-> LookupClass(w), event |-> None] \in Attempt
        BY Zenon, <3>1 DEF Attempt
      <3>3. attempts' \in Seq(Attempt)
        BY <1>10, <2>2, <3>2, AddAttempt DEF RecordLookup, TypeOK, OpTypeOK
      <3>4. lookupIn' \in Nat
        <4>1. sentAge \in Nat
          BY Zenon, <1>10, Ages DEF RecordLookup, Control, Looking
        <4>2. LookupClass(w) = "WITHIN_GRACE" => sentAge < GraceFor(w)
          <5>1. seen[w] \in Observation
            BY Zenon, <1>10 DEF RecordLookup, Control
          <5>2. ClassOf(seen[w]) = "WITHIN_GRACE" => seen[w] = "NOT_FOUND"
            BY Zenon, <5>1, ClassOfType
          <5>3. GraceFor(w) \in Nat
            BY Zenon DEF GraceFor
          <5> QED BY <4>1, <5>2, <5>3 DEF LookupClass
        <4>3. GraceFor(w) \in Nat
          BY Zenon DEF GraceFor
        <4>4. NextLookup(Lookups + 2) \in Nat
          BY NextLookupType
        <4>5. lookupIn' = IF LookupClass(w) = "WITHIN_GRACE"
                          THEN Least(NextLookup(Lookups + 2), GraceFor(w) - sentAge)
                          ELSE NextLookup(Lookups + 2)
          BY Zenon, <1>10, <2>2 DEF RecordLookup
        <4> QED BY <4>1, <4>2, <4>3, <4>4, <4>5 DEF Least
      <3>5. WorkerTypeOK'
        <4>1. Len(attempts) + 1 \in Nat
          BY DEF TypeOK, OpTypeOK
        <4>2. PICK action \in {"NONE", "FINALIZE", "REVIEW"}, why \in Reason \cup {None} :
                Conclude(w, Len(attempts) + 1, action, why)
          BY Zenon, <1>10, <2>2, ActionOfType DEF RecordLookup, Reason
        <4> QED BY Zenon, <4>1, <4>2, TypeConclude DEF TypeOK
      <3>6. OpTypeOK'
        <4>1. UNCHANGED <<status, response, reason, sentAge, createdAge, failures, records,
                          postings>> /\ leaseBy' = None /\ leaseLeft' = 0
          BY Zenon, <1>10, <2>2 DEF RecordLookup
        <4> QED BY <3>3, <3>4, <4>1 DEF TypeOK, OpTypeOK
      <3>7. UNCHANGED <<providerVars, inbox, told, used>>
        BY Zenon, <1>10 DEF RecordLookup
      <3> QED BY Zenon, <3>5, <3>6, <3>7, TypeFrame DEF TypeOK
    <2> QED BY Zenon, <2>1, <2>2
  <1>11. ASSUME NEW w \in Workers, ApplyFinalize(w) PROVE TypeOK'
    <2>1. OpTypeOK'
      BY Zenon, <1>11, TypeFinalizer DEF ApplyFinalize, TypeOK, WorkerTypeOK, Verdict
    <2>2. WorkerTypeOK'
      BY Zenon, <1>11, TypeFinish DEF ApplyFinalize, TypeOK, WorkerTypeOK, Goto, Pc
    <2> QED
      BY Zenon, <1>11, <2>1, <2>2 DEF TypeOK, ProviderTypeOK, InboxTypeOK, ApplyFinalize,
         providerVars
  <1>12. ASSUME NEW w \in Workers, ApplyFails(w) PROVE TypeOK'
    <2>1. WorkerTypeOK'
      BY Zenon, <1>12 DEF TypeOK, WorkerTypeOK, ApplyFails, Goto, Pc
    <2> QED BY Zenon, <1>12, <2>1, TypeFrame, TypeUsed DEF TypeOK, ApplyFails
  <1>13. ASSUME NEW w \in Workers, RecordApplyFailure(w) PROVE TypeOK'
    BY Zenon, <1>13, TypeFinalizer, TypeFinish DEF TypeOK, ProviderTypeOK, InboxTypeOK,
       RecordApplyFailure, providerVars
  <1>14. ASSUME NEW w \in Workers, ApplyReview(w) PROVE TypeOK'
    <2>1. verdict[w].reason \in Reason \cup {None}
      BY Zenon DEF TypeOK, WorkerTypeOK, Verdict
    <2> QED
      BY Zenon, <1>14, <2>1, TypeFinalizer, TypeFinish DEF TypeOK, ProviderTypeOK, InboxTypeOK,
         ApplyReview, providerVars
  <1>15. ASSUME NEW e \in Events, AcceptEvent(e) PROVE TypeOK'
    <2>1. InboxTypeOK'
      <3>1. PICK says \in Outcome \cup {"INVALID"} :
              inbox' = [inbox EXCEPT ![e] = [@ EXCEPT !.status = "PENDING", !.says = says]]
        BY Zenon, <1>15 DEF TypeOK, ProviderTypeOK, AcceptEvent
      <3>2. [inbox[e] EXCEPT !.status = "PENDING", !.says = says] \in InboxEvent
        BY Zenon, TypeRow DEF TypeOK, InboxTypeOK
      <3> QED BY Zenon, <3>1, <3>2 DEF TypeOK, InboxTypeOK
    <2> QED BY Zenon, <1>15, <2>1, TypeFrame DEF TypeOK, AcceptEvent
  <1>16. ASSUME NEW e \in Events, DeadLetter(e) PROVE TypeOK'
    <2>1. InboxTypeOK'
      BY Zenon, <1>16, TypeClosed DEF TypeOK, InboxTypeOK, DeadLetter, EventStatus
    <2> QED BY Zenon, <1>16, <2>1, TypeFrame DEF TypeOK, DeadLetter
  <1>17. ASSUME NEW w \in Workers, PrepareEvent(w) PROVE TypeOK'
    <2> DEFINE e == event[w]
    <2>1. e \in Events
      BY Zenon, <1>17 DEF PrepareEvent, Control
    <2>2. inbox' = inbox \/ \E as \in {"IGNORED", "REVIEW"} : inbox' = Closed(e, as)
      BY Zenon, <1>17 DEF PrepareEvent
    <2>3. InboxTypeOK'
      <3>1. {"IGNORED", "REVIEW"} \subseteq EventStatus /\ InboxTypeOK
        BY Zenon DEF EventStatus, TypeOK
      <3> HIDE DEF e
      <3>2. \A as \in {"IGNORED", "REVIEW"} : Closed(e, as) \in [Events -> InboxEvent]
        BY ONLY Zenon, <2>1, <3>1, TypeClosed
      <3> QED BY Zenon, <2>2, <3>1, <3>2 DEF InboxTypeOK
    <2>4. attempts' \in Seq(Attempt)
      <3>1. CASE attempts' = attempts
        BY Zenon, <3>1 DEF TypeOK, OpTypeOK
      <3>2. CASE attempts' # attempts
        <4>1. /\ HoldsEvent(w)
              /\ Decide(inbox[e].says) = "APPLY"
              /\ attempts' = Append(attempts, [kind |-> "WEBHOOK",
                     class |-> ClassOf(inbox[e].says), event |-> e])
          BY Zenon, <1>17, <3>2 DEF PrepareEvent
        <4>2. inbox[e].says \in Observation
          BY Zenon, <2>1, <4>1 DEF HoldsEvent, Control, Observation
        <4>3. [kind |-> "WEBHOOK", class |-> ClassOf(inbox[e].says), event |-> e] \in Attempt
          BY Zenon, <2>1, <4>2, ClassOfType DEF Attempt
        <4> QED BY Zenon, <4>1, <4>3, AddAttempt DEF TypeOK, OpTypeOK
      <3> QED BY Zenon, <3>1, <3>2
    <2>5. WorkerTypeOK'
      <3>1. Len(attempts) + 1 \in Nat /\ \A n \in RecordedFor(e) : n \in Nat
        BY Zenon, RecordedForType DEF TypeOK, OpTypeOK
      <3> QED BY Zenon, <1>17, <3>1, TypeFinish, TypeConclude DEF PrepareEvent, TypeOK, Reason
    <2> QED
      BY Zenon, <1>17, <2>3, <2>4, <2>5 DEF TypeOK, OpTypeOK, ProviderTypeOK, PrepareEvent,
         providerVars
  <1>18. ASSUME NEW w \in Workers, FinishEvent(w) PROVE TypeOK'
    <2>1. InboxTypeOK'
      BY Zenon, <1>18, TypeClosed DEF FinishEvent, Control, TypeOK, InboxTypeOK, EventStatus
    <2> QED
      BY Zenon, <1>18, <2>1, TypeFinish DEF TypeOK, OpTypeOK, ProviderTypeOK, FinishEvent,
         opVars, providerVars
  <1>19. ASSUME ProviderReceives PROVE TypeOK'
    BY Zenon, <1>19 DEF TypeOK, OpTypeOK, ProviderTypeOK, InboxTypeOK, WorkerTypeOK,
       ProviderReceives, opVars, workerVars
  <1>20. ASSUME NEW w \in Workers, Crash(w) PROVE TypeOK'
    <2>1. WorkerTypeOK'
      BY Zenon, <1>20 DEF TypeOK, WorkerTypeOK, Crash, Goto, Forget, Pc, Verdict, NoVerdict
    <2> QED BY Zenon, <1>20, <2>1, TypeFrame, TypeUsed DEF TypeOK, Crash
  <1>21. ASSUME Tick PROVE TypeOK'
    <2>1. sentAge' \in (0..Horizon) \cup {None}
      <3>1. Horizon \in Nat /\ sentAge \in (0..Horizon) \cup {None}
        BY Zenon, ConstantsAssumption DEF TypeOK, OpTypeOK, Horizon
      <3>2. sentAge' = IF sentAge # None THEN Least(sentAge + 1, Horizon) ELSE None
        BY Zenon, <1>21 DEF Tick, Sent
      <3> QED BY Zenon, <3>1, <3>2, LeastType
    <2>2. createdAge' \in 0..UnsentGrace
      <3>1. createdAge \in 0..UnsentGrace /\ createdAge' = Least(createdAge + 1, UnsentGrace)
        BY Zenon, <1>21 DEF TypeOK, OpTypeOK, Tick
      <3>2. UnsentGrace \in Nat
        BY Zenon, ConstantsAssumption
      <3> QED BY ONLY <3>1, <3>2 DEF Least
    <2>2b. lookupIn' \in Nat \cup {None}
      <3>1. /\ lookupIn \in Nat \cup {None}
            /\ lookupIn' = IF lookupIn = None THEN None ELSE Decrement(lookupIn)
        BY Zenon, <1>21 DEF TypeOK, OpTypeOK, Tick
      <3> QED BY <3>1 DEF Decrement
    <2>2c. leaseLeft' \in 0..Lease
      <3>1. leaseLeft \in 0..Lease /\ leaseLeft' = Decrement(leaseLeft)
        BY Zenon, <1>21 DEF TypeOK, OpTypeOK, Tick
      <3> QED BY <3>1, ConstantsAssumption DEF Decrement
    <2>3. OpTypeOK'
      BY Zenon, <1>21, <2>1, <2>2, <2>2b, <2>2c DEF TypeOK, OpTypeOK, Tick
    <2>4. InboxTypeOK'
      BY Zenon, <1>21, TypeRow DEF TypeOK, InboxTypeOK, Tick
    <2>5. WorkerTypeOK'
      BY <1>21 DEF TypeOK, WorkerTypeOK, Tick
    <2> QED
      BY Zenon, <1>21, <2>3, <2>4, <2>5, TypeFrame DEF TypeOK, Tick
  <1>22. ASSUME UNCHANGED vars PROVE TypeOK'
    BY Zenon, <1>22 DEF TypeOK, OpTypeOK, ProviderTypeOK, InboxTypeOK, WorkerTypeOK, vars,
       opVars, providerVars, workerVars
  <1>23. ASSUME NEW w \in Workers, ClaimDue(w) \/ ClaimForReview(w) PROVE TypeOK'
    BY Zenon, <1>3, <1>23, TypeUsed DEF ClaimDue, ClaimForReview, TypeOK
  <1> QED
    BY Zenon, <1>1, <1>2, <1>4, <1>5, <1>6, <1>7, <1>8, <1>9, <1>10, <1>11, <1>12,
       <1>13, <1>14, <1>15, <1>16, <1>17, <1>18, <1>19, <1>20, <1>21, <1>22, <1>23
       DEF Next, Proceed

-----------------------------------------------------------------------------
(* What the larger actions do, in the terms the invariants use.            *)

\* Another worker of the same step is left alone.
OthersUndisturbed(w) ==
    \A v \in Workers \ {w} :
      /\ pc'[v] = pc[v] /\ seen'[v] = seen[v] /\ age'[v] = age[v]
      /\ task'[v] = task[v] /\ verdict'[v] = verdict[v] /\ event'[v] = event[v]

\* A worker that finishes its job keeps nothing of it, and no other worker is
\* disturbed.
LEMMA FinishEffect ==
  ASSUME WorkerTypeOK, NEW w \in Workers, Finish(w)
  PROVE  /\ pc'[w] \in {"answer", "idle"}
         /\ seen'[w] = None /\ age'[w] = 0 /\ OthersUndisturbed(w)
  BY Zenon DEF WorkerTypeOK, Finish, Goto, Forget, OthersUndisturbed

\* A worker that concludes an attempt finishes, or goes on with the verdict.
LEMMA ConcludeEffect ==
  ASSUME WorkerTypeOK, NEW w \in Workers
  PROVE  \A n, action, why : Conclude(w, n, action, why) =>
           /\ pc'[w] \in {"answer", "idle", "apply"}
           /\ pc'[w] = "apply" =>
                /\ verdict'[w].n = n /\ verdict'[w].action = action
                /\ task'[w] = task[w] /\ event'[w] = event[w]
           /\ seen'[w] = None /\ age'[w] = 0 /\ OthersUndisturbed(w)
  <1> SUFFICES ASSUME NEW n, NEW action, NEW why, Conclude(w, n, action, why)
               PROVE  /\ pc'[w] \in {"answer", "idle", "apply"}
                      /\ pc'[w] = "apply" =>
                           /\ verdict'[w].n = n /\ verdict'[w].action = action
                           /\ task'[w] = task[w] /\ event'[w] = event[w]
                      /\ seen'[w] = None /\ age'[w] = 0 /\ OthersUndisturbed(w)
    BY Zenon
  <1>1. CASE action = "NONE"
    BY Zenon, <1>1, FinishEffect DEF Conclude
  <1>2. CASE action # "NONE"
    BY <1>2 DEF Conclude, WorkerTypeOK, Goto, OthersUndisturbed
  <1> QED BY Zenon, <1>1, <1>2

\* Closing an event changes its status and no event's content.
LEMMA ClosedEffect ==
  ASSUME InboxTypeOK, NEW e \in Events, NEW as \in EventStatus
  PROVE  \A f \in Events :
           /\ Closed(e, as)[f].says = inbox[f].says
           /\ Closed(e, as)[f].status = IF f = e THEN as ELSE inbox[f].status
  BY Zenon DEF InboxTypeOK, Closed, InboxEvent

\* Claiming an event changes its status and no event's content.
LEMMA ClaimEventEffect ==
  ASSUME InboxTypeOK, NEW w \in Workers, NEW e \in Events, ClaimEvent(w, e)
  PROVE  \A f \in Events :
           /\ inbox'[f].says = inbox[f].says
           /\ inbox'[f].status = IF f = e THEN "PROCESSING" ELSE inbox[f].status
  BY Zenon DEF InboxTypeOK, InboxEvent, ClaimEvent

\* Accepting an event fills a row that was absent.
LEMMA AcceptEventEffect ==
  ASSUME InboxTypeOK, NEW e \in Events, AcceptEvent(e)
  PROVE  /\ effect # None /\ inbox[e].status = "ABSENT"
         /\ inbox'[e].status = "PENDING" /\ inbox'[e].says \in {effect, "INVALID"}
         /\ \A f \in Events \ {e} : inbox'[f] = inbox[f]
  BY Zenon DEF InboxTypeOK, InboxEvent, AcceptEvent

\* Time changes neither the status nor the content of an event.
LEMMA TickInbox ==
  ASSUME InboxTypeOK, Tick
  PROVE  \A f \in Events : /\ inbox'[f].says = inbox[f].says
                           /\ inbox'[f].status = inbox[f].status
  BY Zenon DEF InboxTypeOK, InboxEvent, Tick

\* Time never takes a recorded send back, and its age only grows.
LEMMA TickSent ==
  ASSUME OpTypeOK, Tick
  PROVE  /\ Sent <=> Sent'
         /\ Sent => sentAge \in Nat /\ sentAge' \in Nat /\ sentAge' >= sentAge
         /\ Sent => sentAge' <= sentAge + 1
  <1>1. Horizon \in Nat /\ None \notin Nat
    BY Zenon, ConstantsAssumption DEF Horizon
  <1>2. CASE Sent
    <2>1. sentAge \in 0..Horizon /\ sentAge' = Least(sentAge + 1, Horizon)
      BY Zenon, <1>2 DEF OpTypeOK, Tick, Sent
    <2> QED BY <1>1, <2>1 DEF Sent, Least
  <1>3. CASE ~Sent
    BY Zenon, <1>3 DEF Tick, Sent
  <1> QED BY Zenon, <1>2, <1>3

\* Recording the answer of the mutation closes the first attempt with the class
\* of what was seen, and hands a verdict about that attempt on.
LEMMA CompleteMutationEffect ==
  ASSUME TypeOK, Control, Sends, NEW w \in Workers, CompleteMutation(w)
  PROVE  /\ pc'[w] \in {"answer", "idle", "apply"}
         /\ seen'[w] = None /\ age'[w] = 0 /\ OthersUndisturbed(w)
         /\ attempts' \in Seq(Attempt) /\ attempts # <<>> /\ Len(attempts') = Len(attempts)
         /\ attempts'[1].class = ClassOf(seen[w]) /\ seen[w] \in Observation \ {"NOT_FOUND"}
         /\ \A i \in 1..Len(attempts) :
              /\ attempts'[i].kind = attempts[i].kind
              /\ attempts'[i].event = attempts[i].event
              /\ i # 1 => attempts'[i].class = attempts[i].class
         /\ pc'[w] = "apply" /\ verdict'[w].action = "FINALIZE" =>
              /\ verdict'[w].n = 1
              /\ ClassOf(seen[w]) \in Finalizing
              /\ task'[w] = task[w] /\ event'[w] = event[w]
  <1> DEFINE c == ClassOf(seen[w])
  <1>1. seen[w] \in Observation \ {"NOT_FOUND"} /\ attempts # <<>> /\ attempts \in Seq(Attempt)
    BY Zenon DEF CompleteMutation, Control, Sends, Sending, TypeOK, OpTypeOK
  <1>2. c \in Class
    BY Zenon, <1>1, ClassOfType
  <1>3. Conclude(w, 1, ActionOf(c), IF c = "INVALID" THEN "INVALID_EVIDENCE" ELSE None)
    BY Zenon DEF CompleteMutation
  <1>4. attempts' = [attempts EXCEPT ![1].class = c]
    BY Zenon DEF CompleteMutation
  <1>5. ActionOf(c) = "FINALIZE" => c \in Finalizing
    BY Zenon DEF ActionOf
  <1> HIDE DEF c
  <1>6. /\ attempts' \in Seq(Attempt) /\ Len(attempts') = Len(attempts) /\ 1 \in 1..Len(attempts)
        /\ \A i \in 1..Len(attempts) :
              /\ attempts'[i].kind = attempts[i].kind
              /\ attempts'[i].event = attempts[i].event
              /\ attempts'[i].class = IF i = 1 THEN c ELSE attempts[i].class
    BY <1>1, <1>2, <1>4, CompleteFirst
  <1>7. /\ pc'[w] \in {"answer", "idle", "apply"}
        /\ seen'[w] = None /\ age'[w] = 0 /\ OthersUndisturbed(w)
        /\ pc'[w] = "apply" =>
             /\ verdict'[w].n = 1 /\ verdict'[w].action = ActionOf(c)
             /\ task'[w] = task[w] /\ event'[w] = event[w]
    BY Zenon, <1>3, ConcludeEffect DEF TypeOK
  <1> QED BY Zenon, <1>1, <1>5, <1>6, <1>7 DEF c

\* Recording a lookup does nothing once the operation is decided or the lease
\* lost; otherwise it adds one attempt and hands a verdict about it on.
LEMMA RecordLookupEffect ==
  ASSUME TypeOK, Control, NEW w \in Workers, RecordLookup(w)
  PROVE  /\ pc'[w] \in {"answer", "idle", "apply"}
         /\ seen'[w] = None /\ age'[w] = 0 /\ OthersUndisturbed(w)
         /\ Sent /\ seen[w] \in Observation /\ pc[w] = "record"
         /\ \/ UNCHANGED opVars /\ pc'[w] # "apply"
            \/ /\ ~Terminal
               /\ attempts' = Append(attempts,
                     [kind |-> "LOOKUP", class |-> LookupClass(w), event |-> None])
               /\ [kind |-> "LOOKUP", class |-> LookupClass(w), event |-> None] \in Attempt
               /\ lookupIn' \in Nat
               /\ UNCHANGED <<status, response, sentAge, records, postings>>
               /\ pc'[w] = "apply" /\ verdict'[w].action = "FINALIZE" =>
                    /\ verdict'[w].n = Len(attempts) + 1
                    /\ LookupClass(w) \in Finalizing
                    /\ task'[w] = task[w] /\ event'[w] = event[w]
  <1> DEFINE c == LookupClass(w)
  <1>1. Sent /\ seen[w] \in Observation /\ pc[w] = "record" /\ WorkerTypeOK
    BY Zenon DEF RecordLookup, Control, Looking, TypeOK
  <1>2. CASE Terminal \/ Superseded(w)
    <2>1. Finish(w) /\ UNCHANGED opVars
      BY Zenon, <1>2 DEF RecordLookup
    <2> QED BY Zenon, <1>1, <2>1, FinishEffect
  <1>3. CASE ~(Terminal \/ Superseded(w))
    <2>1. c \in Class
      BY Zenon, <1>1, ClassOfType DEF LookupClass, Class, Finalizing
    <2>2. [kind |-> "LOOKUP", class |-> c, event |-> None] \in Attempt
      BY Zenon, <2>1 DEF Attempt
    <2>3. /\ attempts' = Append(attempts, [kind |-> "LOOKUP", class |-> c, event |-> None])
          /\ UNCHANGED <<status, response, sentAge, records, postings>>
          /\ \/ Conclude(w, Len(attempts) + 1, "REVIEW", "PROVIDER_INDETERMINATE")
             \/ Conclude(w, Len(attempts) + 1, ActionOf(c),
                         IF c = "INVALID" THEN "INVALID_EVIDENCE" ELSE None)
      BY Zenon, <1>3 DEF RecordLookup
    <2>4. lookupIn' \in Nat
      <3>1. sentAge \in Nat
        BY <1>1, ConstantsAssumption DEF Sent, TypeOK, OpTypeOK, Horizon
      <3>2. c = "WITHIN_GRACE" => sentAge < GraceFor(w) /\ GraceFor(w) \in Nat
        BY <1>1, <3>1, ClassOfType, ConstantsAssumption DEF LookupClass, GraceFor
      <3>3. NextLookup(Lookups + 2) \in Nat
        BY NextLookupType, ConstantsAssumption
      <3>4. lookupIn' = IF c = "WITHIN_GRACE"
                        THEN Least(NextLookup(Lookups + 2), GraceFor(w) - sentAge)
                        ELSE NextLookup(Lookups + 2)
        BY Zenon, <1>3 DEF RecordLookup
      <3> HIDE DEF c
      <3> QED BY <3>1, <3>2, <3>3, <3>4 DEF Least
    <2>5. ActionOf(c) = "FINALIZE" => c \in Finalizing
      BY Zenon DEF ActionOf
    <2> HIDE DEF c
    <2>6. /\ pc'[w] \in {"answer", "idle", "apply"}
          /\ seen'[w] = None /\ age'[w] = 0 /\ OthersUndisturbed(w)
          /\ pc'[w] = "apply" =>
               /\ verdict'[w].n = Len(attempts) + 1
               /\ verdict'[w].action \in {"REVIEW", ActionOf(c)}
               /\ task'[w] = task[w] /\ event'[w] = event[w]
      <3>1. PICK action \in {"REVIEW", ActionOf(c)}, why \in Reason \cup {None} :
              Conclude(w, Len(attempts) + 1, action, why)
        BY Zenon, <2>3 DEF Reason
      <3>2. WorkerTypeOK
        BY Zenon, <1>1
      <3> QED BY ONLY Zenon, <3>1, <3>2, ConcludeEffect
    <2>7. ~Terminal
      BY Zenon, <1>3
    <2> QED BY Zenon, <1>1, <2>2, <2>3, <2>4, <2>5, <2>6, <2>7 DEF c
  <1> QED BY Zenon, <1>2, <1>3

\* Preparing an event closes it, or records at most one attempt for it and goes
\* on to finalize one that is recorded.
LEMMA PrepareEventEffect ==
  ASSUME TypeOK, Control, NEW w \in Workers, PrepareEvent(w)
  PROVE  /\ pc'[w] \in {"answer", "idle", "apply"}
         /\ seen'[w] = None /\ age'[w] = 0 /\ OthersUndisturbed(w)
         /\ event[w] \in Events /\ pc[w] = "prepareEvent"
         /\ \A f \in Events :
              /\ inbox'[f].says = inbox[f].says
              /\ \/ inbox'[f].status = inbox[f].status
                 \/ inbox'[f].status \in {"IGNORED", "REVIEW"} /\ inbox[f].status = "PROCESSING"
         /\ \/ UNCHANGED attempts
            \/ /\ inbox[event[w]].says \in {"SUCCEEDED", "DECLINED"}
               /\ \E a \in Attempt :
                    /\ attempts' = Append(attempts, a)
                    /\ a.kind = "WEBHOOK" /\ a.event = event[w]
                    /\ a.class = ClassOf(inbox[event[w]].says)
         /\ pc'[w] = "apply" /\ verdict'[w].action = "FINALIZE" =>
              /\ event'[w] = event[w]
              /\ verdict'[w].n \in DOMAIN attempts'
              /\ attempts'[verdict'[w].n].kind = "WEBHOOK"
              /\ attempts'[verdict'[w].n].event = event[w]
  <1> DEFINE e == event[w]
             says == inbox[e].says
             a == [kind |-> "WEBHOOK", class |-> ClassOf(says), event |-> e]
  <1>1. e \in Events /\ pc[w] = "prepareEvent" /\ WorkerTypeOK /\ InboxTypeOK
        /\ attempts \in Seq(Attempt)
    BY Zenon DEF PrepareEvent, Control, TypeOK, OpTypeOK
  <1>2. HoldsEvent(w) => says \in Outcome \cup {"INVALID"} /\ inbox[e].status = "PROCESSING"
    BY Zenon, <1>1 DEF HoldsEvent, Control
  <1>3. CASE ~HoldsEvent(w) /\ Finish(w) /\ UNCHANGED <<inbox, attempts>>
    BY Zenon, <1>1, <1>3, FinishEffect
  <1>4. CASE /\ \E n \in RecordedFor(e) : Conclude(w, n, "FINALIZE", None)
             /\ UNCHANGED <<inbox, attempts>>
    <2>1. PICK n \in RecordedFor(e) : Conclude(w, n, "FINALIZE", None)
      BY Zenon, <1>4
    <2>2. n \in DOMAIN attempts /\ attempts[n].kind = "WEBHOOK" /\ attempts[n].event = e
      BY Zenon, <2>1 DEF RecordedFor
    <2>3. /\ pc'[w] \in {"answer", "idle", "apply"}
          /\ seen'[w] = None /\ age'[w] = 0 /\ OthersUndisturbed(w)
          /\ pc'[w] = "apply" => verdict'[w].n = n /\ event'[w] = e
      BY Zenon, <1>1, <2>1, ConcludeEffect
    <2> QED BY Zenon, <1>1, <1>4, <2>2, <2>3
  <1>5. CASE /\ HoldsEvent(w)
             /\ \/ inbox' = Closed(e, "IGNORED") /\ Finish(w)
                \/ /\ inbox' = Closed(e, "REVIEW")
                   /\ Conclude(w, 0, "REVIEW", IF Decide(says) = "REJECT"
                         THEN "INVALID_EVIDENCE" ELSE "CONTRADICTS_TERMINAL_STATE")
             /\ UNCHANGED attempts
    <2>1. \A f \in Events :
              /\ inbox'[f].says = inbox[f].says
              /\ \/ inbox'[f].status = inbox[f].status
                 \/ inbox'[f].status \in {"IGNORED", "REVIEW"} /\ inbox[f].status = "PROCESSING"
      <3>1. PICK st \in {"IGNORED", "REVIEW"} : inbox' = Closed(e, st)
        BY Zenon, <1>5
      <3>2. /\ inbox[e].status = "PROCESSING"
            /\ st \in EventStatus /\ st \in {"IGNORED", "REVIEW"}
        BY Zenon, <1>2, <1>5 DEF EventStatus
      <3> HIDE DEF e
      <3>3. InboxTypeOK /\ e \in Events
        BY Zenon, <1>1
      <3>4. \A f \in Events :
              /\ inbox'[f].says = inbox[f].says
              /\ inbox'[f].status = IF f = e THEN st ELSE inbox[f].status
        BY ONLY <3>1, <3>2, <3>3, ClosedEffect
      <3> QED BY ONLY Zenon, <3>2, <3>4
    <2>2. /\ pc'[w] \in {"answer", "idle", "apply"}
          /\ seen'[w] = None /\ age'[w] = 0 /\ OthersUndisturbed(w)
          /\ pc'[w] = "apply" => verdict'[w].action = "REVIEW"
      <3>1. CASE Finish(w)
        BY Zenon, <1>1, <3>1, FinishEffect
      <3>2. CASE \E why : Conclude(w, 0, "REVIEW", why)
        <4>1. PICK why : Conclude(w, 0, "REVIEW", why)
          BY Zenon, <3>2
        <4>2. WorkerTypeOK
          BY Zenon, <1>1
        <4> QED BY ONLY <4>1, <4>2, ConcludeEffect
      <3> QED BY Zenon, <1>5, <3>1, <3>2
    <2> QED BY Zenon, <1>1, <1>5, <2>1, <2>2
  <1>6. CASE /\ HoldsEvent(w) /\ Decide(says) = "APPLY"
             /\ attempts' = Append(attempts, a)
             /\ Conclude(w, Len(attempts) + 1, "FINALIZE", None)
             /\ UNCHANGED inbox
    <2>1. says \in {"SUCCEEDED", "DECLINED"}
      <3>1. says # "INVALID" /\ says # "PENDING"
        BY Zenon, <1>6 DEF Decide
      <3> QED BY Zenon, <1>2, <1>6, <3>1 DEF Outcome
    <2>2. a \in Attempt
      BY Zenon, <1>1, <2>1, ClassOfType DEF Attempt, Observation, Outcome
    <2>3. /\ Len(attempts) + 1 \in DOMAIN attempts'
          /\ attempts'[Len(attempts) + 1] = a
      <3>1. attempts \in Seq(Attempt) /\ attempts' = Append(attempts, a)
        BY Zenon, <1>1, <1>6
      <3> HIDE DEF a
      <3> QED BY ONLY <2>2, <3>1
    <2>4. /\ pc'[w] \in {"answer", "idle", "apply"}
          /\ seen'[w] = None /\ age'[w] = 0 /\ OthersUndisturbed(w)
          /\ pc'[w] = "apply" => verdict'[w].n = Len(attempts) + 1 /\ event'[w] = e
      BY Zenon, <1>1, <1>6, ConcludeEffect
    <2>5. a.kind = "WEBHOOK" /\ a.event = e /\ a.class = ClassOf(says)
      BY Zenon
    <2>6. attempts' = Append(attempts, a) /\ UNCHANGED inbox
      BY Zenon, <1>6
    <2> HIDE DEF a
    <2> QED BY Zenon, <1>1, <2>1, <2>2, <2>3, <2>4, <2>5, <2>6
  <1> QED BY Zenon, <1>3, <1>4, <1>5, <1>6 DEF PrepareEvent

-----------------------------------------------------------------------------
(* Control.                                                                 *)

\* Every step keeps Control.
LEMMA ControlNext == IInv /\ [Next]_vars => Control'
  <1> SUFFICES ASSUME TypeOK, Control, Sends, Decision, Evidence, Inbox, [Next]_vars PROVE Control'
    BY Zenon DEF IInv
  <1> USE ConstantsAssumption
  <1>1. ASSUME NEW w \in Workers, NEW k \in Keys, Initiate(w, k) PROVE Control'
    <2>1. UNCHANGED <<sentAge, inbox, seen, event>> /\ status' # "ABSENT"
      BY Zenon, <1>1 DEF Initiate
    <2>2. \A v \in Workers : \/ pc'[v] = pc[v] /\ task'[v] = task[v]
                             \/ pc'[v] = "dispatch" /\ task'[v] = "request"
      BY Zenon, <1>1 DEF Initiate, Start, Goto, TypeOK, WorkerTypeOK
    <2> QED BY Zenon, <2>1, <2>2 DEF Control, Looking, Sending, Sent
  <1>2. ASSUME NEW w \in Workers, ClaimUnsent(w) PROVE Control'
    BY Zenon, <1>2 DEF ClaimUnsent, Start, Goto, opVars, providerVars, workerVars, Control,
       Looking, Sending, Sent, TypeOK, OpTypeOK, WorkerTypeOK, ProviderTypeOK,
       InboxTypeOK, Observation
  <1>3. ASSUME NEW w \in Workers, ClaimDue(w) \/ ClaimForReview(w) PROVE Control'
    <2>1. Sent /\ UNCHANGED <<status, sentAge, inbox, seen, event>>
      BY Zenon, <1>3 DEF ClaimDue, ClaimForReview, Claim
    <2>2. \A v \in Workers : \/ pc'[v] = pc[v] /\ task'[v] = task[v]
                             \/ pc'[v] = "lookup" /\ task'[v] = "recovery"
      BY Zenon, <1>3 DEF ClaimDue, ClaimForReview, Claim, Start, Goto, TypeOK, WorkerTypeOK
    <2> QED BY Zenon, <2>1, <2>2 DEF Control, Looking, Sending, Sent
  <1>4. ASSUME NEW w \in Workers, NEW e \in Events, ClaimEvent(w, e) PROVE Control'
    <2>1. status # "ABSENT"
      BY Zenon, <1>4 DEF ClaimEvent, Claimable, Control, Sends, Inbox, InboxRows
    <2>2. UNCHANGED <<status, sentAge>> /\ (event'[w] = e /\ pc'[w] = "prepareEvent")
          /\ \A v \in Workers \ {w} : pc'[v] = pc[v] /\ seen'[v] = seen[v]
                                     /\ task'[v] = task[v] /\ event'[v] = event[v]
      BY Zenon, <1>4 DEF ClaimEvent, Start, Goto, opVars, TypeOK, WorkerTypeOK
    <2>3. \A f \in Events : inbox'[f].status \in {"PENDING", "PROCESSING"} =>
            inbox'[f].says \in Outcome \cup {"INVALID"}
      BY <1>4, ClaimEventEffect DEF ClaimEvent, Claimable, Control, TypeOK
    <2> QED BY <2>1, <2>2, <2>3 DEF Control, Looking, Sending, Sent
  <1>5. ASSUME NEW w \in Workers, PrepareFirstSend(w) PROVE Control'
    <2>1. /\ pc[w] = "dispatch" /\ UNCHANGED <<status, inbox>>
          /\ sentAge' = sentAge \/ sentAge' = 0
      BY Zenon, <1>5 DEF PrepareFirstSend, opVars
    <2>2. CASE Finish(w)
      <3>1. pc'[w] \in {"answer", "idle", "apply"} /\ OthersUndisturbed(w)
        BY Zenon, <2>2, FinishEffect DEF TypeOK
      <3> QED BY <2>1, <3>1 DEF OthersUndisturbed, Control, Looking, Sending, Sent
    <2>3. CASE /\ UNCHANGED <<task, seen, event>>
               /\ \/ Goto(w, "lookup") /\ Sent
                  \/ Goto(w, "mutate")
      BY <2>1, <2>3 DEF Goto, Control, Looking, Sending, Sent, TypeOK, WorkerTypeOK
    <2> QED BY Zenon, <1>5, <2>2, <2>3 DEF PrepareFirstSend, LookupOnly
  <1>6. ASSUME NEW w \in Workers, SendMutation(w) PROVE Control'
    BY Zenon, <1>6 DEF SendMutation, Goto, opVars, providerVars, workerVars, Control,
       Looking, Sending, Sent, TypeOK, OpTypeOK, WorkerTypeOK, ProviderTypeOK,
       InboxTypeOK, Observation
  <1>7. ASSUME NEW w \in Workers, ReceiveMutation(w) PROVE Control'
    <2>1. PICK o \in Observation \ {"NOT_FOUND"} : seen' = [seen EXCEPT ![w] = o]
      BY Zenon, <1>7 DEF ReceiveMutation, TypeOK, ProviderTypeOK, Observation, Outcome
    <2> QED
      BY Zenon, <1>7, <2>1 DEF ReceiveMutation, Goto, opVars, Control, Looking, Sending, Sent, TypeOK,
         WorkerTypeOK
  <1>8. ASSUME NEW w \in Workers, CompleteMutation(w) PROVE Control'
    <2>1. UNCHANGED <<status, sentAge, inbox>> /\ pc[w] = "complete"
      BY Zenon, <1>8 DEF CompleteMutation
    <2>2. pc'[w] \in {"answer", "idle", "apply"} /\ OthersUndisturbed(w)
      BY Zenon, <1>8, CompleteMutationEffect
    <2>3. \A v \in Workers :
            \/ /\ pc'[v] = pc[v] /\ seen'[v] = seen[v] /\ task'[v] = task[v]
               /\ event'[v] = event[v]
            \/ pc[v] # "idle" /\ pc'[v] \in {"answer", "idle", "apply"}
      BY ONLY Zenon, <2>1, <2>2 DEF OthersUndisturbed
    <2> QED BY Zenon, <2>1, <2>3 DEF Control, Looking, Sending, Sent
  <1>9. ASSUME NEW w \in Workers, Answer(w) PROVE Control'
    BY Zenon, <1>9 DEF Answer, Goto, opVars, providerVars, workerVars, Control, Looking,
       Sending, Sent, TypeOK, OpTypeOK, WorkerTypeOK, ProviderTypeOK, InboxTypeOK,
       Observation
  <1>10. ASSUME NEW w \in Workers, Lookup(w) PROVE Control'
    BY Zenon, <1>10 DEF Lookup, Goto, opVars, providerVars, workerVars, Control, Looking,
       Sending, Sent, TypeOK, OpTypeOK, WorkerTypeOK, ProviderTypeOK, InboxTypeOK,
       Observation
  <1>11. ASSUME NEW w \in Workers, RecordLookup(w) PROVE Control'
    <2>1. UNCHANGED <<status, sentAge, inbox>> /\ pc[w] = "record"
      BY Zenon, <1>11, RecordLookupEffect DEF RecordLookup, opVars
    <2>2. pc'[w] \in {"answer", "idle", "apply"} /\ OthersUndisturbed(w) /\ Sent
      BY Zenon, <1>11, RecordLookupEffect
    <2>3. \A v \in Workers :
            \/ /\ pc'[v] = pc[v] /\ seen'[v] = seen[v] /\ task'[v] = task[v]
               /\ event'[v] = event[v]
            \/ pc[v] # "idle" /\ pc'[v] \in {"answer", "idle", "apply"}
      BY ONLY Zenon, <2>1, <2>2 DEF OthersUndisturbed
    <2> QED BY Zenon, <2>1, <2>3 DEF Control, Looking, Sending, Sent
  <1>12. ASSUME NEW w \in Workers, ApplyFinalize(w) PROVE Control'
    <2>1. /\ pc[w] = "apply" /\ verdict[w].action = "FINALIZE"
          /\ UNCHANGED <<sentAge, inbox>>
          /\ status' = status \/ status' \in Decided
      BY Zenon, <1>12 DEF ApplyFinalize, FinalizeVerifiedAttempt, Settle, opVars, Decided
    <2>2. status' # "ABSENT"
      BY Zenon, <2>1 DEF Control, Decided
    <2>3. CASE task[w] = "event"
      <3>1. event[w] \in Events
        BY Zenon, <2>1, <2>3 DEF Inbox, EventJobs
      <3>2. /\ UNCHANGED <<task, seen, event>> /\ pc'[w] = "finishEvent"
            /\ \A v \in Workers \ {w} : pc'[v] = pc[v]
        BY Zenon, <1>12, <2>3 DEF ApplyFinalize, Goto, TypeOK, WorkerTypeOK
      <3> QED BY Zenon, <2>1, <2>2, <3>1, <3>2 DEF Control, Looking, Sending, Sent
    <2>4. CASE task[w] # "event"
      <3>1. pc'[w] \in {"answer", "idle", "apply"} /\ OthersUndisturbed(w)
        BY Zenon, <1>12, <2>4, FinishEffect DEF ApplyFinalize, TypeOK
      <3>2. \A v \in Workers :
              \/ /\ pc'[v] = pc[v] /\ seen'[v] = seen[v] /\ task'[v] = task[v]
                 /\ event'[v] = event[v]
              \/ pc[v] # "idle" /\ pc'[v] \in {"answer", "idle", "apply"}
        BY ONLY Zenon, <2>1, <3>1 DEF OthersUndisturbed
      <3> QED BY Zenon, <2>1, <2>2, <3>2 DEF Control, Looking, Sending, Sent
    <2> QED BY Zenon, <2>3, <2>4
  <1>13. ASSUME NEW w \in Workers, ApplyFails(w) PROVE Control'
    BY Zenon, <1>13 DEF ApplyFails, Goto, opVars, providerVars, workerVars, Control,
       Looking, Sending, Sent, TypeOK, OpTypeOK, WorkerTypeOK, ProviderTypeOK,
       InboxTypeOK, Observation
  <1>14. ASSUME NEW w \in Workers, RecordApplyFailure(w) PROVE Control'
    BY Zenon, <1>14 DEF RecordApplyFailure, CountApplyFailure, Finish, Forget, Goto,
       opVars, providerVars, workerVars, Control, Looking, Sending, Sent, TypeOK,
       OpTypeOK, WorkerTypeOK, ProviderTypeOK, InboxTypeOK, Observation
  <1>15. ASSUME NEW w \in Workers, ApplyReview(w) PROVE Control'
    BY Zenon, <1>15 DEF ApplyReview, MarkOperationForReview, Finish, Forget, Goto, opVars,
       providerVars, workerVars, Control, Looking, Sending, Sent, TypeOK, OpTypeOK,
       WorkerTypeOK, ProviderTypeOK, InboxTypeOK, Observation
  <1>16. ASSUME NEW e \in Events, AcceptEvent(e) PROVE Control'
    <2>1. effect \in Outcome
      BY Zenon, <1>16, AcceptEventEffect DEF TypeOK, ProviderTypeOK
    <2>2. \A f \in Events : inbox'[f].status \in {"PENDING", "PROCESSING"} =>
            inbox'[f].says \in Outcome \cup {"INVALID"}
      BY Zenon, <1>16, <2>1, AcceptEventEffect DEF Control, TypeOK
    <2> QED BY Zenon, <1>16, <2>2 DEF AcceptEvent, opVars, workerVars, Control, Looking, Sending, Sent
  <1>17. ASSUME NEW e \in Events, DeadLetter(e) PROVE Control'
    <2>1. inbox' = Closed(e, "DEAD_LETTER") /\ UNCHANGED <<opVars, workerVars>>
      BY Zenon, <1>17 DEF DeadLetter
    <2>2. "DEAD_LETTER" \in EventStatus /\ InboxTypeOK
      BY Zenon DEF EventStatus, TypeOK
    <2>3. \A f \in Events :
            /\ inbox'[f].says = inbox[f].says
            /\ inbox'[f].status = IF f = e THEN "DEAD_LETTER" ELSE inbox[f].status
      BY ONLY <1>17, <2>1, <2>2, ClosedEffect
    <2>4. UNCHANGED <<status, sentAge, pc, task, seen, event>>
      BY Zenon, <2>1 DEF opVars, workerVars
    <2>5. \A f \in Events : inbox'[f].status \in {"PENDING", "PROCESSING"} =>
            inbox'[f].says \in Outcome \cup {"INVALID"}
      BY Zenon, <2>3 DEF Control
    <2> QED BY ONLY Zenon, Control, <2>4, <2>5 DEF Control, Looking, Sending, Sent
  <1>18. ASSUME NEW w \in Workers, PrepareEvent(w) PROVE Control'
    <2>1. UNCHANGED <<status, sentAge>>
      BY Zenon, <1>18 DEF PrepareEvent
    <2>2. \A f \in Events : inbox'[f].status \in {"PENDING", "PROCESSING"} =>
            inbox'[f].says \in Outcome \cup {"INVALID"}
      BY Zenon, <1>18, PrepareEventEffect DEF Control
    <2>3. /\ pc[w] = "prepareEvent" /\ pc'[w] \in {"answer", "idle", "apply"}
          /\ OthersUndisturbed(w)
      BY Zenon, <1>18, PrepareEventEffect
    <2>4. \A v \in Workers :
            \/ /\ pc'[v] = pc[v] /\ seen'[v] = seen[v] /\ task'[v] = task[v]
               /\ event'[v] = event[v]
            \/ pc[v] # "idle" /\ pc'[v] \in {"answer", "idle", "apply"}
      BY ONLY Zenon, <2>3 DEF OthersUndisturbed
    <2> QED
      BY Zenon, <2>1, <2>2, <2>3, <2>4 DEF Control, Looking, Sending, Sent
  <1>19. ASSUME NEW w \in Workers, FinishEvent(w) PROVE Control'
    <2>1. \A f \in Events : /\ inbox'[f].says = inbox[f].says
                            /\ inbox'[f].status \in {inbox[f].status, "APPLIED"}
      <3>1. event[w] \in Events /\ InboxTypeOK /\ "APPLIED" \in EventStatus
        BY Zenon, <1>19 DEF FinishEvent, EventStatus, Control, TypeOK
      <3>2. inbox' = Closed(event[w], "APPLIED") \/ inbox' = inbox
        BY Zenon, <1>19 DEF FinishEvent
      <3> QED BY ONLY <3>1, <3>2, ClosedEffect
    <2>2. UNCHANGED <<status, sentAge>> /\ pc[w] = "finishEvent" /\ Finish(w)
      BY Zenon, <1>19 DEF FinishEvent, opVars
    <2>3. pc'[w] \in {"answer", "idle", "apply"} /\ OthersUndisturbed(w)
      BY Zenon, <2>2, FinishEffect DEF TypeOK
    <2>4. \A v \in Workers :
            \/ /\ pc'[v] = pc[v] /\ seen'[v] = seen[v] /\ task'[v] = task[v]
               /\ event'[v] = event[v]
            \/ pc[v] # "idle" /\ pc'[v] \in {"answer", "idle", "apply"}
      BY ONLY Zenon, <2>2, <2>3 DEF OthersUndisturbed
    <2> QED BY ZenonT(30), <2>1, <2>2, <2>4 DEF Control, Looking, Sending, Sent
  <1>20. ASSUME ProviderReceives PROVE Control'
    BY Zenon, <1>20 DEF ProviderReceives, opVars, providerVars, workerVars, Control,
       Looking, Sending, Sent, TypeOK, OpTypeOK, WorkerTypeOK, ProviderTypeOK,
       InboxTypeOK, Observation
  <1>21. ASSUME NEW w \in Workers, Crash(w) PROVE Control'
    BY Zenon, <1>21 DEF Crash, Forget, Goto, opVars, providerVars, workerVars, Control,
       Looking, Sending, Sent, TypeOK, OpTypeOK, WorkerTypeOK, ProviderTypeOK,
       InboxTypeOK, Observation
  <1>22. ASSUME Tick PROVE Control'
    BY Zenon, <1>22, TickInbox, TickSent DEF Tick, Control, Looking, Sending, TypeOK
  <1>23. ASSUME UNCHANGED vars PROVE Control'
    BY Zenon, <1>23 DEF vars, opVars, providerVars, workerVars, Control, Looking, Sending,
       Sent, TypeOK, OpTypeOK, WorkerTypeOK, ProviderTypeOK, InboxTypeOK,
       Observation
  <1> QED
    BY Zenon, <1>1, <1>2, <1>3, <1>4, <1>5, <1>6, <1>7, <1>8, <1>9, <1>10, <1>11, <1>12,
       <1>13, <1>14, <1>15, <1>16, <1>17, <1>18, <1>19, <1>20, <1>21, <1>22, <1>23
       DEF Next, Proceed

-----------------------------------------------------------------------------
(* Sends.                                                                   *)

\* A step that sends nothing, starts no send and at most adds an attempt to a
\* sent operation keeps Sends.
LEMMA SendsFrame ==
  ASSUME TypeOK, Sends, UNCHANGED providerVars, Sent <=> Sent',
         \A v \in Workers : /\ Sending(v)' => Sending(v)
                            /\ pc'[v] = "mutate" => pc[v] = "mutate",
         \/ UNCHANGED attempts
         \/ Sent /\ \E a \in Attempt : attempts' = Append(attempts, a)
  PROVE  Sends'
  <1>1. attempts # <<>> => attempts' # <<>> /\ attempts'[1] = attempts[1]
    <2>1. attempts \in Seq(Attempt)
      BY Zenon DEF TypeOK, OpTypeOK
    <2>2. ASSUME NEW a \in Attempt, attempts' = Append(attempts, a), attempts # <<>>
          PROVE  attempts' # <<>> /\ attempts'[1] = attempts[1]
      <3> HIDE DEF Attempt
      <3> QED BY <2>1, <2>2
    <2> QED BY Zenon, <2>2
  <1>2. ~Sent => UNCHANGED attempts
    BY Zenon
  <1>3. UNCHANGED <<sends, wire, effect>>
    BY Zenon DEF providerVars
  <1>4. /\ sends' <= 1
        /\ \A v \in Workers : pc'[v] = "mutate" => sends' = 0
        /\ sends' = 0 => wire' = "empty" /\ effect' = None
        /\ wire' = "request" => effect' = None
    BY Zenon, <1>3 DEF Sends
  <1>5. ~Sent' => sends' = 0 /\ attempts' = <<>> /\ \A v \in Workers : ~Sending(v)'
    BY Zenon, <1>2, <1>3 DEF Sends
  <1>6. /\ Sent' => attempts' # <<>>
        /\ \A v \in Workers : Sending(v)' => attempts' # <<>> /\ attempts'[1].class = "SENT"
        /\ \A v, u \in Workers : Sending(v)' /\ Sending(u)' => v = u
    BY Zenon, <1>1 DEF Sends
  <1> QED BY Zenon, <1>4, <1>5, <1>6 DEF Sends

\* Every step keeps Sends.
LEMMA SendsNext == IInv /\ [Next]_vars => Sends'
  <1> SUFFICES ASSUME TypeOK, Control, Sends, Decision, Evidence, Inbox, [Next]_vars PROVE Sends'
    BY Zenon DEF IInv
  <1> USE ConstantsAssumption
  <1>1. ASSUME NEW w \in Workers, NEW k \in Keys, Initiate(w, k) PROVE Sends'
    BY Zenon, <1>1, SendsFrame DEF Initiate, Start, Goto, Sending, Sent, opVars,
       providerVars, workerVars, TypeOK, WorkerTypeOK
  <1>2. ASSUME NEW w \in Workers, ClaimUnsent(w) PROVE Sends'
    BY Zenon, <1>2, SendsFrame DEF ClaimUnsent, Start, Goto, Sending, Sent, opVars,
       providerVars, workerVars, TypeOK, WorkerTypeOK
  <1>3. ASSUME NEW w \in Workers, ClaimDue(w) \/ ClaimForReview(w) PROVE Sends'
    BY Zenon, <1>3, SendsFrame DEF ClaimDue, ClaimForReview, Claim, Start, Goto, Sending,
       Sent, opVars, providerVars, workerVars, TypeOK, WorkerTypeOK
  <1>4. ASSUME NEW w \in Workers, NEW e \in Events, ClaimEvent(w, e) PROVE Sends'
    BY Zenon, <1>4, SendsFrame DEF ClaimEvent, Claimable, Start, Goto, Sending, Sent,
       opVars, providerVars, workerVars, TypeOK, WorkerTypeOK
  <1>5. ASSUME NEW w \in Workers, PrepareFirstSend(w) PROVE Sends'
    <2>1. CASE Sent
      BY Zenon, <1>5, <2>1, SendsFrame DEF PrepareFirstSend, LookupOnly, Finish, Forget, Goto,
         Sending, Sent, opVars, TypeOK, WorkerTypeOK
    <2>2. CASE Terminal
      BY Zenon, <1>5, <2>2, SendsFrame DEF PrepareFirstSend, LookupOnly, Finish, Forget, Goto,
         Sending, Sent, opVars, TypeOK, WorkerTypeOK
    <2>3. CASE ~Terminal /\ ~Sent
      <3>1. /\ attempts' = <<[kind |-> "MUTATION", class |-> "SENT", event |-> None]>>
            /\ sentAge' = 0 /\ Goto(w, "mutate") /\ UNCHANGED providerVars
        BY Zenon, <1>5, <2>3 DEF PrepareFirstSend, LookupOnly
      <3>2. attempts' # <<>> /\ attempts'[1].class = "SENT" /\ Sent'
        <4>1. attempts' # <<>> /\ attempts'[1].class = "SENT"
          BY ONLY Zenon, <3>1
        <4>2. Sent'
          BY <3>1 DEF Sent
        <4> QED BY ONLY Zenon, <4>1, <4>2
      <3>3. sends = 0 /\ \A v \in Workers : ~Sending(v)
        BY Zenon, <2>3 DEF Sends
      <3>4. \A v \in Workers : Sending(v)' => v = w
        BY Zenon, <3>1, <3>3 DEF Goto, Sending, TypeOK, WorkerTypeOK
      <3> QED BY Zenon, <3>1, <3>2, <3>3, <3>4 DEF Sends, providerVars
    <2> QED BY Zenon, <2>1, <2>2, <2>3
  <1>6. ASSUME NEW w \in Workers, SendMutation(w) PROVE Sends'
    <2>1. /\ sends = 0 /\ sends' = 1 /\ wire' = "request" /\ effect' = None
          /\ pc'[w] = "await" /\ UNCHANGED <<attempts, sentAge>>
          /\ \A v \in Workers \ {w} : pc'[v] = pc[v]
      <3>1. /\ sends = 0 /\ sends' = sends + 1 /\ wire' = "request" /\ effect' = None
            /\ UNCHANGED <<attempts, sentAge>>
        BY Zenon, <1>6 DEF SendMutation, Sends, opVars
      <3>2. pc'[w] = "await" /\ \A v \in Workers \ {w} : pc'[v] = pc[v]
        BY Zenon, <1>6 DEF SendMutation, Goto, TypeOK, WorkerTypeOK
      <3> QED BY ONLY <3>1, <3>2
    <2>2. Sending(w) /\ Sent /\ Sending(w)'
      BY Zenon, <1>6, <2>1 DEF SendMutation, Sends, Sending
    <2>3. \A v \in Workers : Sending(v)' <=> Sending(v)
      BY Zenon, <2>1, <2>2 DEF Sending
    <2>4. \A v \in Workers : pc'[v] # "mutate"
      BY Zenon, <2>1, <2>2 DEF Sends, Sending
    <2>5. Sent' /\ attempts' # <<>>
      BY Zenon, <2>1, <2>2 DEF Sends, Sent
    <2>6. \A v \in Workers : Sending(v)' => attempts'[1].class = "SENT"
      BY Zenon, <2>1, <2>3 DEF Sends
    <2>7. \A v, u \in Workers : Sending(v)' /\ Sending(u)' => v = u
      BY Zenon, <2>3 DEF Sends
    <2> QED BY ONLY <2>1, <2>4, <2>5, <2>6, <2>7 DEF Sends
  <1>7. ASSUME NEW w \in Workers, ReceiveMutation(w) PROVE Sends'
    BY Zenon, <1>7, SendsFrame DEF ReceiveMutation, Goto, Sending, Sent, opVars, TypeOK, WorkerTypeOK
  <1>8. ASSUME NEW w \in Workers, CompleteMutation(w) PROVE Sends'
    <2>1. /\ UNCHANGED <<sentAge, effect, wire, sends>> /\ Sending(w)
          /\ pc'[w] \in {"answer", "idle", "apply"} /\ OthersUndisturbed(w)
      BY Zenon, <1>8, CompleteMutationEffect DEF CompleteMutation, providerVars, Sending
    <2>3. attempts' # <<>>
      <3>1. /\ attempts \in Seq(Attempt) /\ attempts' \in Seq(Attempt)
            /\ attempts # <<>> /\ Len(attempts') = Len(attempts)
        BY Zenon, <1>8, CompleteMutationEffect DEF TypeOK, OpTypeOK
      <3> QED BY <3>1
    <2>2. \A v \in Workers : ~Sending(v)' /\ pc'[v] # "mutate"
      BY <2>1 DEF Sends, Sending, OthersUndisturbed
    <2> QED BY Zenon, <2>1, <2>2, <2>3 DEF Sends, Sent
  <1>9. ASSUME NEW w \in Workers, Answer(w) PROVE Sends'
    BY Zenon, <1>9, SendsFrame DEF Answer, Goto, Sending, Sent, opVars, providerVars,
       workerVars, TypeOK, WorkerTypeOK
  <1>10. ASSUME NEW w \in Workers, Lookup(w) PROVE Sends'
    BY Zenon, <1>10, SendsFrame DEF Lookup, Goto, Sending, Sent, opVars, providerVars,
       workerVars, TypeOK, WorkerTypeOK
  <1>11. ASSUME NEW w \in Workers, RecordLookup(w) PROVE Sends'
    <2>1. UNCHANGED <<sentAge, providerVars>> /\ Sent
      BY Zenon, <1>11, RecordLookupEffect DEF RecordLookup, opVars
    <2>2. UNCHANGED attempts \/ \E a \in Attempt : attempts' = Append(attempts, a)
      BY Zenon, <1>11, RecordLookupEffect DEF opVars
    <2>3. \A v \in Workers : /\ Sending(v)' => Sending(v)
                             /\ pc'[v] = "mutate" => pc[v] = "mutate"
      BY Zenon, <1>11, RecordLookupEffect DEF OthersUndisturbed, Sending
    <2> QED BY Zenon, <2>1, <2>2, <2>3, SendsFrame DEF Sent
  <1>12. ASSUME NEW w \in Workers, ApplyFinalize(w) PROVE Sends'
    BY Zenon, <1>12, SendsFrame DEF ApplyFinalize, FinalizeVerifiedAttempt, Settle, Finish,
       Forget, Goto, Sending, Sent, opVars, providerVars, workerVars, TypeOK,
       WorkerTypeOK
  <1>13. ASSUME NEW w \in Workers, ApplyFails(w) PROVE Sends'
    BY Zenon, <1>13, SendsFrame DEF ApplyFails, Goto, Sending, Sent, opVars, providerVars,
       workerVars, TypeOK, WorkerTypeOK
  <1>14. ASSUME NEW w \in Workers, RecordApplyFailure(w) PROVE Sends'
    BY Zenon, <1>14, SendsFrame DEF RecordApplyFailure, CountApplyFailure, Finish, Forget,
       Goto, Sending, Sent, opVars, providerVars, workerVars, TypeOK, WorkerTypeOK
  <1>15. ASSUME NEW w \in Workers, ApplyReview(w) PROVE Sends'
    BY Zenon, <1>15, SendsFrame DEF ApplyReview, MarkOperationForReview, Finish, Forget,
       Goto, Sending, Sent, opVars, providerVars, workerVars, TypeOK, WorkerTypeOK
  <1>16. ASSUME NEW e \in Events, AcceptEvent(e) PROVE Sends'
    BY Zenon, <1>16, SendsFrame DEF AcceptEvent, Sending, Sent, opVars, providerVars,
       workerVars, TypeOK, WorkerTypeOK
  <1>17. ASSUME NEW e \in Events, DeadLetter(e) PROVE Sends'
    BY Zenon, <1>17, SendsFrame DEF DeadLetter, Closed, Sending, Sent, opVars,
       providerVars, workerVars, TypeOK, WorkerTypeOK
  <1>18. ASSUME NEW w \in Workers, PrepareEvent(w) PROVE Sends'
    <2>1. UNCHANGED <<sentAge, providerVars>>
      BY Zenon, <1>18 DEF PrepareEvent
    <2>2. UNCHANGED attempts \/ (Sent /\ \E a \in Attempt : attempts' = Append(attempts, a))
      <3>1. effect # None => Sent
        BY Zenon DEF Sends
      <3>2. inbox[event[w]].says \in {"SUCCEEDED", "DECLINED"} => effect # None
        <4>1. event[w] \in Events
          BY Zenon, <1>18, PrepareEventEffect
        <4> QED BY Zenon, <4>1 DEF Inbox, InboxRows
      <3>3. \/ UNCHANGED attempts
            \/ /\ inbox[event[w]].says \in {"SUCCEEDED", "DECLINED"}
               /\ \E a \in Attempt : attempts' = Append(attempts, a)
        BY Zenon, <1>18, PrepareEventEffect
      <3> QED BY Zenon, <3>1, <3>2, <3>3
    <2>3. \A v \in Workers : /\ Sending(v)' => Sending(v)
                             /\ pc'[v] = "mutate" => pc[v] = "mutate"
      <3>1. pc'[w] \in {"answer", "idle", "apply"} /\ OthersUndisturbed(w)
        BY Zenon, <1>18, PrepareEventEffect
      <3> QED BY ONLY Zenon, <3>1 DEF OthersUndisturbed, Sending
    <2> QED BY Zenon, <2>1, <2>2, <2>3, SendsFrame DEF Sent
  <1>19. ASSUME NEW w \in Workers, FinishEvent(w) PROVE Sends'
    BY Zenon, <1>19, SendsFrame DEF FinishEvent, Closed, Finish, Forget, Goto, Sending,
       Sent, opVars, providerVars, workerVars, TypeOK, WorkerTypeOK
  <1>20. ASSUME ProviderReceives PROVE Sends'
    <2>1. /\ wire = "request" /\ wire' = "empty"
          /\ UNCHANGED <<sends, attempts, sentAge, pc>>
      BY Zenon, <1>20 DEF ProviderReceives, opVars, workerVars
    <2>2. sends # 0
      BY Zenon, <2>1 DEF Sends
    <2> QED BY Zenon, <2>1, <2>2 DEF Sends, Sending, Sent
  <1>21. ASSUME NEW w \in Workers, Crash(w) PROVE Sends'
    BY Zenon, <1>21, SendsFrame DEF Crash, Forget, Goto, Sending, Sent, opVars,
       providerVars, workerVars, TypeOK, WorkerTypeOK
  <1>22. ASSUME Tick PROVE Sends'
    BY Zenon, <1>22, SendsFrame, TickSent DEF Tick, Sending, TypeOK
  <1>23. ASSUME UNCHANGED vars PROVE Sends'
    BY Zenon, <1>23, SendsFrame DEF vars, opVars, workerVars, Sending, Sent
  <1> QED
    BY Zenon, <1>1, <1>2, <1>3, <1>4, <1>5, <1>6, <1>7, <1>8, <1>9, <1>10, <1>11, <1>12,
       <1>13, <1>14, <1>15, <1>16, <1>17, <1>18, <1>19, <1>20, <1>21, <1>22, <1>23
       DEF Next, Proceed

-----------------------------------------------------------------------------
(* Decision.                                                                *)

\* A step that leaves the decision alone and does not unschedule the operation
\* keeps Decision.
LEMMA DecisionFrame ==
  ASSUME Decision, UNCHANGED <<status, response, postings, records, told>>,
         Sent <=> Sent', lookupIn # None => lookupIn' # None
  PROVE  Decision'
  BY Zenon DEF Decision, Terminal, PostedOnce, OneAnswer, AlwaysScheduled

\* Settling an undecided operation decides it, posts it and copies its response.
LEMMA SettleDecision ==
  ASSUME TypeOK, Decision, ~Terminal, NEW n, Settle(n), UNCHANGED told
  PROVE  Decision'
  <1> DEFINE r == ResponseOf(attempts[n].class)
  <1>1. r \in Response
    BY Zenon DEF ResponseOf, Response
  <1>2. response' = r /\ status' = (IF r = "SUCCEEDED" THEN "SUCCEEDED" ELSE "FAILED")
        /\ postings' = (IF r = "SUCCEEDED" THEN postings + 1 ELSE postings)
        /\ records' = [k \in Keys |-> IF records[k] = None THEN None ELSE r]
    BY Zenon DEF Settle
  <1> HIDE DEF r
  <1>3. postings = 0
    BY Zenon DEF Decision, PostedOnce, Terminal, Decided
  <1>4. told = {}
    <2>1. \A t \in told : t \in Response /\ t = response
      BY Zenon DEF TypeOK, Decision, OneAnswer
    <2>2. response \notin Response
      BY Zenon DEF Decision
    <2> QED BY Zenon, <2>1, <2>2
  <1>5. None \notin Response \cup {"OPEN"} /\ "OPEN" \notin Response
    BY Zenon, ConstantsAssumption DEF Response
  <1>6. OneAnswer'
    <2>1. \A k \in Keys : records'[k] = None \/ records'[k] = r
      BY Zenon, <1>2
    <2>2. \A t \in told' : t = response'
      BY Zenon, <1>4
    <2> QED BY Zenon, <1>1, <1>2, <1>5, <2>1, <2>2 DEF OneAnswer
  <1>7. PostedOnce'
    BY <1>2, <1>3 DEF PostedOnce
  <1>8. Terminal' /\ status' # "PROCESSING"
    BY Zenon, <1>2 DEF Terminal, Decided
  <1> QED BY Zenon, <1>1, <1>2, <1>6, <1>7, <1>8 DEF Decision, AlwaysScheduled

\* Every step keeps Decision.
LEMMA DecisionNext == IInv /\ [Next]_vars => Decision'
  <1> SUFFICES ASSUME TypeOK, Control, Sends, Decision, [Next]_vars PROVE Decision'
    BY Zenon DEF IInv
  <1> USE ConstantsAssumption
  <1>1. ASSUME NEW w \in Workers, NEW k \in Keys, Initiate(w, k) PROVE Decision'
    <2>1. /\ UNCHANGED <<response, postings, sentAge, lookupIn>>
          /\ status' = (IF status = "ABSENT" THEN "PROCESSING" ELSE status)
          /\ records' = AttachKey(k)
          /\ told' = told \/ (AnswerFor(k) # None /\ told' = told \cup {AnswerFor(k)})
      BY Zenon, <1>1 DEF Initiate
    <2>2. status = "ABSENT" => ~Sent
      BY Zenon DEF Control
    <2>3. Terminal' <=> Terminal
      BY Zenon, <2>1 DEF Terminal, Decided
    <2>4. PostedOnce' /\ AlwaysScheduled' /\ (status' = "SUCCEEDED" <=> response' = "SUCCEEDED")
      BY Zenon, <2>1, <2>2 DEF PostedOnce, AlwaysScheduled, Sent, Decision
    <2>5. AnswerFor(k) # None => AnswerFor(k) = response
      BY Zenon DEF AnswerFor, Decision, OneAnswer
    <2>6. \A j \in Keys : /\ records'[j] \in Response => records'[j] = response
                          /\ Terminal => records'[j] # "OPEN"
      <3>1. "OPEN" \notin Response /\ (Terminal => response \in Response)
        BY Zenon DEF Response, Decision
      <3> QED BY Zenon, <2>1, <3>1 DEF AttachKey, Decision, OneAnswer, TypeOK, OpTypeOK
    <2>7. OneAnswer'
      BY Zenon, <2>1, <2>3, <2>5, <2>6 DEF OneAnswer, Decision
    <2> QED BY Zenon, <2>1, <2>3, <2>4, <2>7 DEF Decision
  <1>2. ASSUME NEW w \in Workers, ClaimUnsent(w) PROVE Decision'
    BY Zenon, <1>2, DecisionFrame DEF ClaimUnsent, Sent, opVars
  <1>3. ASSUME NEW w \in Workers, ClaimDue(w) \/ ClaimForReview(w) PROVE Decision'
    BY Zenon, <1>3, DecisionFrame DEF ClaimDue, ClaimForReview, Claim, Sent
  <1>4. ASSUME NEW w \in Workers, NEW e \in Events, ClaimEvent(w, e) PROVE Decision'
    BY Zenon, <1>4, DecisionFrame DEF ClaimEvent, Sent, opVars
  <1>5. ASSUME NEW w \in Workers, PrepareFirstSend(w) PROVE Decision'
    <2>1. CASE Terminal \/ Sent
      BY Zenon, <1>5, <2>1, DecisionFrame DEF PrepareFirstSend, LookupOnly, Sent, opVars
    <2>2. CASE ~Terminal /\ ~Sent
      <3>1. UNCHANGED <<status, response, postings, records, told>> /\ lookupIn' = 0
        BY Zenon, <1>5, <2>2 DEF PrepareFirstSend, LookupOnly
      <3>2. PostedOnce' /\ OneAnswer'
        BY Zenon, <3>1 DEF Decision, PostedOnce, OneAnswer, Terminal
      <3>3. AlwaysScheduled'
        BY <3>1, ConstantsAssumption DEF AlwaysScheduled
      <3> QED BY Zenon, <3>1, <3>2, <3>3 DEF Decision, Terminal
    <2> QED BY Zenon, <2>1, <2>2
  <1>6. ASSUME NEW w \in Workers, SendMutation(w) PROVE Decision'
    BY Zenon, <1>6, DecisionFrame DEF SendMutation, Sent, opVars
  <1>7. ASSUME NEW w \in Workers, ReceiveMutation(w) PROVE Decision'
    BY Zenon, <1>7, DecisionFrame DEF ReceiveMutation, Sent, opVars
  <1>8. ASSUME NEW w \in Workers, CompleteMutation(w) PROVE Decision'
    <2>1. NextLookup(1 + Lookups) # None
      BY NextLookupType
    <2> QED BY <1>8, <2>1, DecisionFrame DEF CompleteMutation, Sent
  <1>9. ASSUME NEW w \in Workers, Answer(w) PROVE Decision'
    <2>1. told' = IF Terminal THEN told \cup {response} ELSE told
      BY Zenon, <1>9 DEF Answer
    <2>2. UNCHANGED <<status, response, postings, records, sentAge, lookupIn>>
      BY Zenon, <1>9 DEF Answer, opVars
    <2> QED BY Zenon, <2>1, <2>2 DEF Decision, Terminal, PostedOnce, OneAnswer, AlwaysScheduled, Sent
  <1>10. ASSUME NEW w \in Workers, Lookup(w) PROVE Decision'
    BY Zenon, <1>10, DecisionFrame DEF Lookup, Sent, opVars
  <1>11. ASSUME NEW w \in Workers, RecordLookup(w) PROVE Decision'
    <2>1. UNCHANGED told
      BY Zenon, <1>11 DEF RecordLookup
    <2> QED BY Zenon, <1>11, <2>1, RecordLookupEffect, DecisionFrame DEF Sent, opVars
  <1>12. ASSUME NEW w \in Workers, ApplyFinalize(w) PROVE Decision'
    <2>1. CASE Terminal
      BY Zenon, <1>12, <2>1, DecisionFrame DEF ApplyFinalize, FinalizeVerifiedAttempt, Sent, opVars
    <2>2. CASE ~Terminal
      <3>1. Settle(verdict[w].n) /\ UNCHANGED told
        BY Zenon, <1>12, <2>2 DEF ApplyFinalize, FinalizeVerifiedAttempt
      <3> QED BY Zenon, <2>2, <3>1, SettleDecision
    <2> QED BY Zenon, <2>1, <2>2
  <1>13. ASSUME NEW w \in Workers, ApplyFails(w) PROVE Decision'
    BY Zenon, <1>13, DecisionFrame DEF ApplyFails, Sent, opVars
  <1>14. ASSUME NEW w \in Workers, RecordApplyFailure(w) PROVE Decision'
    <2>1. UNCHANGED <<response, postings, records, sentAge, told>>
      BY Zenon, <1>14 DEF RecordApplyFailure, CountApplyFailure, opVars
    <2>2. \/ UNCHANGED <<status, lookupIn>>
          \/ ~Terminal /\ status' = "REQUIRES_REVIEW"
      BY Zenon, <1>14 DEF RecordApplyFailure, CountApplyFailure, opVars
    <2> QED BY Zenon, <2>1, <2>2 DEF Decision, Terminal, PostedOnce, OneAnswer, AlwaysScheduled, Sent, Decided
  <1>15. ASSUME NEW w \in Workers, ApplyReview(w) PROVE Decision'
    <2>1. UNCHANGED <<response, postings, records, sentAge, told>>
      BY Zenon, <1>15 DEF ApplyReview, MarkOperationForReview, opVars
    <2>2. \/ UNCHANGED <<status, lookupIn>>
          \/ ~Terminal /\ status' = "REQUIRES_REVIEW"
      BY Zenon, <1>15 DEF ApplyReview, MarkOperationForReview, opVars
    <2> QED BY Zenon, <2>1, <2>2 DEF Decision, Terminal, PostedOnce, OneAnswer, AlwaysScheduled, Sent, Decided
  <1>16. ASSUME NEW e \in Events, AcceptEvent(e) PROVE Decision'
    BY Zenon, <1>16, DecisionFrame DEF AcceptEvent, Sent, opVars
  <1>17. ASSUME NEW e \in Events, DeadLetter(e) PROVE Decision'
    BY Zenon, <1>17, DecisionFrame DEF DeadLetter, Sent, opVars
  <1>18. ASSUME NEW w \in Workers, PrepareEvent(w) PROVE Decision'
    BY Zenon, <1>18, DecisionFrame DEF PrepareEvent, Sent, opVars
  <1>19. ASSUME NEW w \in Workers, FinishEvent(w) PROVE Decision'
    BY Zenon, <1>19, DecisionFrame DEF FinishEvent, Sent, opVars
  <1>20. ASSUME ProviderReceives PROVE Decision'
    BY Zenon, <1>20, DecisionFrame DEF ProviderReceives, Sent, opVars
  <1>21. ASSUME NEW w \in Workers, Crash(w) PROVE Decision'
    BY Zenon, <1>21, DecisionFrame DEF Crash, Sent, opVars
  <1>22. ASSUME Tick PROVE Decision'
    <2>1. lookupIn # None => lookupIn' # None
      <3>1. /\ lookupIn \in Nat \cup {None}
            /\ lookupIn' = IF lookupIn = None THEN None ELSE Decrement(lookupIn)
        BY Zenon, <1>22 DEF Tick, TypeOK, OpTypeOK
      <3> QED BY <3>1 DEF Decrement
    <2>2. UNCHANGED <<status, response, postings, records, told>> /\ (Sent <=> Sent')
      BY Zenon, <1>22, TickSent DEF Tick, TypeOK
    <2> QED BY Zenon, <2>1, <2>2, DecisionFrame
  <1>23. ASSUME UNCHANGED vars PROVE Decision'
    BY Zenon, <1>23, DecisionFrame DEF vars, Sent, opVars
  <1> QED
    BY Zenon, <1>1, <1>2, <1>3, <1>4, <1>5, <1>6, <1>7, <1>8, <1>9, <1>10, <1>11, <1>12,
       <1>13, <1>14, <1>15, <1>16, <1>17, <1>18, <1>19, <1>20, <1>21, <1>22, <1>23
       DEF Next, Proceed

-----------------------------------------------------------------------------
(* What never shrinks.                                                      *)

\* The provider does not take an effect back, and a send does not get younger.
LEMMA Monotone ==
  ASSUME TypeOK, Control, Sends, [Next]_vars
  PROVE  (effect # None => effect' = effect) /\ (PastAGrace => PastAGrace')
  <1> USE ConstantsAssumption
  <1>1. ASSUME NEW w \in Workers, NEW k \in Keys, Initiate(w, k) PROVE (effect # None => effect' = effect) /\ (PastAGrace => PastAGrace')
    BY Zenon, <1>1 DEF Initiate, Start, Goto, PastAGrace, Sent, opVars, providerVars
  <1>2. ASSUME NEW w \in Workers, ClaimUnsent(w) PROVE (effect # None => effect' = effect) /\ (PastAGrace => PastAGrace')
    BY Zenon, <1>2 DEF ClaimUnsent, Start, Goto, PastAGrace, Sent, opVars, providerVars
  <1>3. ASSUME NEW w \in Workers, ClaimDue(w) \/ ClaimForReview(w) PROVE (effect # None => effect' = effect) /\ (PastAGrace => PastAGrace')
    BY Zenon, <1>3 DEF ClaimDue, ClaimForReview, Claim, Start, Goto, PastAGrace, Sent,
       opVars, providerVars
  <1>4. ASSUME NEW w \in Workers, NEW e \in Events, ClaimEvent(w, e) PROVE (effect # None => effect' = effect) /\ (PastAGrace => PastAGrace')
    BY Zenon, <1>4 DEF ClaimEvent, Claimable, Start, Goto, PastAGrace, Sent, opVars,
       providerVars
  <1>5. ASSUME NEW w \in Workers, PrepareFirstSend(w) PROVE (effect # None => effect' = effect) /\ (PastAGrace => PastAGrace')
    BY Zenon, <1>5 DEF PrepareFirstSend, LookupOnly, PastAGrace, Sent, opVars, providerVars
  <1>6. ASSUME NEW w \in Workers, SendMutation(w) PROVE (effect # None => effect' = effect) /\ (PastAGrace => PastAGrace')
    BY Zenon, <1>6 DEF SendMutation, Goto, PastAGrace, Sent, opVars, providerVars
  <1>7. ASSUME NEW w \in Workers, ReceiveMutation(w) PROVE (effect # None => effect' = effect) /\ (PastAGrace => PastAGrace')
    BY Zenon, <1>7 DEF ReceiveMutation, Goto, PastAGrace, Sent, opVars, providerVars
  <1>8. ASSUME NEW w \in Workers, CompleteMutation(w) PROVE (effect # None => effect' = effect) /\ (PastAGrace => PastAGrace')
    BY Zenon, <1>8 DEF CompleteMutation, Conclude, Finish, Forget, Goto, PastAGrace, Sent,
       opVars, providerVars
  <1>9. ASSUME NEW w \in Workers, Answer(w) PROVE (effect # None => effect' = effect) /\ (PastAGrace => PastAGrace')
    BY Zenon, <1>9 DEF Answer, Goto, PastAGrace, Sent, opVars, providerVars
  <1>10. ASSUME NEW w \in Workers, Lookup(w) PROVE (effect # None => effect' = effect) /\ (PastAGrace => PastAGrace')
    BY Zenon, <1>10 DEF Lookup, Goto, PastAGrace, Sent, opVars, providerVars
  <1>11. ASSUME NEW w \in Workers, RecordLookup(w) PROVE (effect # None => effect' = effect) /\ (PastAGrace => PastAGrace')
    BY Zenon, <1>11, RecordLookupEffect DEF RecordLookup, PastAGrace, Sent, opVars, providerVars
  <1>12. ASSUME NEW w \in Workers, ApplyFinalize(w) PROVE (effect # None => effect' = effect) /\ (PastAGrace => PastAGrace')
    BY Zenon, <1>12 DEF ApplyFinalize, FinalizeVerifiedAttempt, Settle, Finish, Forget,
       Goto, PastAGrace, Sent, opVars, providerVars
  <1>13. ASSUME NEW w \in Workers, ApplyFails(w) PROVE (effect # None => effect' = effect) /\ (PastAGrace => PastAGrace')
    BY Zenon, <1>13 DEF ApplyFails, Goto, PastAGrace, Sent, opVars, providerVars
  <1>14. ASSUME NEW w \in Workers, RecordApplyFailure(w) PROVE (effect # None => effect' = effect) /\ (PastAGrace => PastAGrace')
    BY Zenon, <1>14 DEF RecordApplyFailure, CountApplyFailure, Finish, Forget, Goto,
       PastAGrace, Sent, opVars, providerVars
  <1>15. ASSUME NEW w \in Workers, ApplyReview(w) PROVE (effect # None => effect' = effect) /\ (PastAGrace => PastAGrace')
    BY Zenon, <1>15 DEF ApplyReview, MarkOperationForReview, Finish, Forget, Goto,
       PastAGrace, Sent, opVars, providerVars
  <1>16. ASSUME NEW e \in Events, AcceptEvent(e) PROVE (effect # None => effect' = effect) /\ (PastAGrace => PastAGrace')
    BY Zenon, <1>16 DEF AcceptEvent, PastAGrace, Sent, opVars, providerVars
  <1>17. ASSUME NEW e \in Events, DeadLetter(e) PROVE (effect # None => effect' = effect) /\ (PastAGrace => PastAGrace')
    BY Zenon, <1>17 DEF DeadLetter, Closed, PastAGrace, Sent, opVars, providerVars
  <1>18. ASSUME NEW w \in Workers, PrepareEvent(w) PROVE (effect # None => effect' = effect) /\ (PastAGrace => PastAGrace')
    BY Zenon, <1>18 DEF PrepareEvent, Closed, HoldsEvent, Conclude, Finish, Forget, Goto,
       PastAGrace, Sent, opVars, providerVars
  <1>19. ASSUME NEW w \in Workers, FinishEvent(w) PROVE (effect # None => effect' = effect) /\ (PastAGrace => PastAGrace')
    BY Zenon, <1>19 DEF FinishEvent, Closed, Finish, Forget, Goto, PastAGrace, Sent,
       opVars, providerVars
  <1>20. ASSUME ProviderReceives PROVE (effect # None => effect' = effect) /\ (PastAGrace => PastAGrace')
    BY Zenon, <1>20 DEF ProviderReceives, Sends, PastAGrace, Sent, opVars
  <1>21. ASSUME NEW w \in Workers, Crash(w) PROVE (effect # None => effect' = effect) /\ (PastAGrace => PastAGrace')
    BY Zenon, <1>21 DEF Crash, Forget, Goto, PastAGrace, Sent, opVars, providerVars
  <1>22. ASSUME Tick PROVE (effect # None => effect' = effect) /\ (PastAGrace => PastAGrace')
    <2>1. PastAGrace => PastAGrace'
      BY <1>22, TickSent DEF PastAGrace, TypeOK
    <2> QED BY Zenon, <1>22, <2>1 DEF Tick, providerVars
  <1>23. ASSUME UNCHANGED vars PROVE (effect # None => effect' = effect) /\ (PastAGrace => PastAGrace')
    BY Zenon, <1>23 DEF vars, PastAGrace, Sent, opVars, providerVars
  <1> QED
    BY Zenon, <1>1, <1>2, <1>3, <1>4, <1>5, <1>6, <1>7, <1>8, <1>9, <1>10, <1>11, <1>12,
       <1>13, <1>14, <1>15, <1>16, <1>17, <1>18, <1>19, <1>20, <1>21, <1>22, <1>23
       DEF Next, Proceed

\* Attempts are only added, and one that can finalize stays what it is.
LEMMA AttemptsGrow ==
  ASSUME TypeOK, Control, Sends, [Next]_vars
  PROVE  \A i \in DOMAIN attempts :
           /\ i \in DOMAIN attempts'
           /\ attempts'[i].kind = attempts[i].kind
           /\ attempts'[i].event = attempts[i].event
           /\ attempts[i].class \in Finalizing => attempts'[i].class = attempts[i].class
  <1> USE ConstantsAssumption
  <1>1. ASSUME NEW w \in Workers, NEW k \in Keys, Initiate(w, k) PROVE \A i \in DOMAIN attempts :
           /\ i \in DOMAIN attempts'
           /\ attempts'[i].kind = attempts[i].kind
           /\ attempts'[i].event = attempts[i].event
           /\ attempts[i].class \in Finalizing => attempts'[i].class = attempts[i].class
    BY Zenon, <1>1 DEF Initiate, opVars
  <1>2. ASSUME NEW w \in Workers, ClaimUnsent(w) PROVE \A i \in DOMAIN attempts :
           /\ i \in DOMAIN attempts'
           /\ attempts'[i].kind = attempts[i].kind
           /\ attempts'[i].event = attempts[i].event
           /\ attempts[i].class \in Finalizing => attempts'[i].class = attempts[i].class
    BY Zenon, <1>2 DEF ClaimUnsent, opVars
  <1>3. ASSUME NEW w \in Workers, ClaimDue(w) \/ ClaimForReview(w) PROVE \A i \in DOMAIN attempts :
           /\ i \in DOMAIN attempts'
           /\ attempts'[i].kind = attempts[i].kind
           /\ attempts'[i].event = attempts[i].event
           /\ attempts[i].class \in Finalizing => attempts'[i].class = attempts[i].class
    BY Zenon, <1>3 DEF ClaimDue, ClaimForReview, Claim, opVars
  <1>4. ASSUME NEW w \in Workers, NEW e \in Events, ClaimEvent(w, e) PROVE \A i \in DOMAIN attempts :
           /\ i \in DOMAIN attempts'
           /\ attempts'[i].kind = attempts[i].kind
           /\ attempts'[i].event = attempts[i].event
           /\ attempts[i].class \in Finalizing => attempts'[i].class = attempts[i].class
    BY Zenon, <1>4 DEF ClaimEvent, Claimable, opVars
  <1>5. ASSUME NEW w \in Workers, PrepareFirstSend(w) PROVE \A i \in DOMAIN attempts :
           /\ i \in DOMAIN attempts'
           /\ attempts'[i].kind = attempts[i].kind
           /\ attempts'[i].event = attempts[i].event
           /\ attempts[i].class \in Finalizing => attempts'[i].class = attempts[i].class
    <2>1. CASE Terminal \/ Sent
      BY Zenon, <1>5, <2>1 DEF PrepareFirstSend, LookupOnly, opVars
    <2>2. CASE ~Terminal /\ ~Sent
      BY <2>2 DEF Sends
    <2> QED BY Zenon, <2>1, <2>2
  <1>6. ASSUME NEW w \in Workers, SendMutation(w) PROVE \A i \in DOMAIN attempts :
           /\ i \in DOMAIN attempts'
           /\ attempts'[i].kind = attempts[i].kind
           /\ attempts'[i].event = attempts[i].event
           /\ attempts[i].class \in Finalizing => attempts'[i].class = attempts[i].class
    BY Zenon, <1>6 DEF SendMutation, opVars
  <1>7. ASSUME NEW w \in Workers, ReceiveMutation(w) PROVE \A i \in DOMAIN attempts :
           /\ i \in DOMAIN attempts'
           /\ attempts'[i].kind = attempts[i].kind
           /\ attempts'[i].event = attempts[i].event
           /\ attempts[i].class \in Finalizing => attempts'[i].class = attempts[i].class
    BY Zenon, <1>7 DEF ReceiveMutation, opVars
  <1>8. ASSUME NEW w \in Workers, CompleteMutation(w) PROVE \A i \in DOMAIN attempts :
           /\ i \in DOMAIN attempts'
           /\ attempts'[i].kind = attempts[i].kind
           /\ attempts'[i].event = attempts[i].event
           /\ attempts[i].class \in Finalizing => attempts'[i].class = attempts[i].class
    <2>1. /\ attempts \in Seq(Attempt) /\ attempts' \in Seq(Attempt)
          /\ Len(attempts') = Len(attempts)
          /\ \A i \in 1..Len(attempts) :
               /\ attempts'[i].kind = attempts[i].kind
               /\ attempts'[i].event = attempts[i].event
               /\ i # 1 => attempts'[i].class = attempts[i].class
      BY Zenon, <1>8, CompleteMutationEffect DEF TypeOK, OpTypeOK
    <2>2. attempts[1].class \notin Finalizing
      BY Zenon, <1>8 DEF CompleteMutation, Finalizing
    <2> QED BY <2>1, <2>2
  <1>9. ASSUME NEW w \in Workers, Answer(w) PROVE \A i \in DOMAIN attempts :
           /\ i \in DOMAIN attempts'
           /\ attempts'[i].kind = attempts[i].kind
           /\ attempts'[i].event = attempts[i].event
           /\ attempts[i].class \in Finalizing => attempts'[i].class = attempts[i].class
    BY Zenon, <1>9 DEF Answer, opVars
  <1>10. ASSUME NEW w \in Workers, Lookup(w) PROVE \A i \in DOMAIN attempts :
           /\ i \in DOMAIN attempts'
           /\ attempts'[i].kind = attempts[i].kind
           /\ attempts'[i].event = attempts[i].event
           /\ attempts[i].class \in Finalizing => attempts'[i].class = attempts[i].class
    BY Zenon, <1>10 DEF Lookup, opVars
  <1>11. ASSUME NEW w \in Workers, RecordLookup(w) PROVE \A i \in DOMAIN attempts :
           /\ i \in DOMAIN attempts'
           /\ attempts'[i].kind = attempts[i].kind
           /\ attempts'[i].event = attempts[i].event
           /\ attempts[i].class \in Finalizing => attempts'[i].class = attempts[i].class
    <2>1. attempts' = attempts \/ \E a \in Attempt : attempts' = Append(attempts, a)
      BY Zenon, <1>11, RecordLookupEffect DEF opVars
    <2> QED BY <2>1, AddAttempt DEF TypeOK, OpTypeOK
  <1>12. ASSUME NEW w \in Workers, ApplyFinalize(w) PROVE \A i \in DOMAIN attempts :
           /\ i \in DOMAIN attempts'
           /\ attempts'[i].kind = attempts[i].kind
           /\ attempts'[i].event = attempts[i].event
           /\ attempts[i].class \in Finalizing => attempts'[i].class = attempts[i].class
    BY Zenon, <1>12 DEF ApplyFinalize, FinalizeVerifiedAttempt, Settle, opVars
  <1>13. ASSUME NEW w \in Workers, ApplyFails(w) PROVE \A i \in DOMAIN attempts :
           /\ i \in DOMAIN attempts'
           /\ attempts'[i].kind = attempts[i].kind
           /\ attempts'[i].event = attempts[i].event
           /\ attempts[i].class \in Finalizing => attempts'[i].class = attempts[i].class
    BY Zenon, <1>13 DEF ApplyFails, opVars
  <1>14. ASSUME NEW w \in Workers, RecordApplyFailure(w) PROVE \A i \in DOMAIN attempts :
           /\ i \in DOMAIN attempts'
           /\ attempts'[i].kind = attempts[i].kind
           /\ attempts'[i].event = attempts[i].event
           /\ attempts[i].class \in Finalizing => attempts'[i].class = attempts[i].class
    BY Zenon, <1>14 DEF RecordApplyFailure, CountApplyFailure, opVars
  <1>15. ASSUME NEW w \in Workers, ApplyReview(w) PROVE \A i \in DOMAIN attempts :
           /\ i \in DOMAIN attempts'
           /\ attempts'[i].kind = attempts[i].kind
           /\ attempts'[i].event = attempts[i].event
           /\ attempts[i].class \in Finalizing => attempts'[i].class = attempts[i].class
    BY Zenon, <1>15 DEF ApplyReview, MarkOperationForReview, opVars
  <1>16. ASSUME NEW e \in Events, AcceptEvent(e) PROVE \A i \in DOMAIN attempts :
           /\ i \in DOMAIN attempts'
           /\ attempts'[i].kind = attempts[i].kind
           /\ attempts'[i].event = attempts[i].event
           /\ attempts[i].class \in Finalizing => attempts'[i].class = attempts[i].class
    BY Zenon, <1>16 DEF AcceptEvent, opVars
  <1>17. ASSUME NEW e \in Events, DeadLetter(e) PROVE \A i \in DOMAIN attempts :
           /\ i \in DOMAIN attempts'
           /\ attempts'[i].kind = attempts[i].kind
           /\ attempts'[i].event = attempts[i].event
           /\ attempts[i].class \in Finalizing => attempts'[i].class = attempts[i].class
    BY Zenon, <1>17 DEF DeadLetter, opVars
  <1>18. ASSUME NEW w \in Workers, PrepareEvent(w) PROVE \A i \in DOMAIN attempts :
           /\ i \in DOMAIN attempts'
           /\ attempts'[i].kind = attempts[i].kind
           /\ attempts'[i].event = attempts[i].event
           /\ attempts[i].class \in Finalizing => attempts'[i].class = attempts[i].class
    <2>1. attempts' = attempts \/ \E a \in Attempt : attempts' = Append(attempts, a)
      BY Zenon, <1>18, PrepareEventEffect
    <2> QED BY <2>1, AddAttempt DEF TypeOK, OpTypeOK
  <1>19. ASSUME NEW w \in Workers, FinishEvent(w) PROVE \A i \in DOMAIN attempts :
           /\ i \in DOMAIN attempts'
           /\ attempts'[i].kind = attempts[i].kind
           /\ attempts'[i].event = attempts[i].event
           /\ attempts[i].class \in Finalizing => attempts'[i].class = attempts[i].class
    BY Zenon, <1>19 DEF FinishEvent, opVars
  <1>20. ASSUME ProviderReceives PROVE \A i \in DOMAIN attempts :
           /\ i \in DOMAIN attempts'
           /\ attempts'[i].kind = attempts[i].kind
           /\ attempts'[i].event = attempts[i].event
           /\ attempts[i].class \in Finalizing => attempts'[i].class = attempts[i].class
    BY Zenon, <1>20 DEF ProviderReceives, opVars
  <1>21. ASSUME NEW w \in Workers, Crash(w) PROVE \A i \in DOMAIN attempts :
           /\ i \in DOMAIN attempts'
           /\ attempts'[i].kind = attempts[i].kind
           /\ attempts'[i].event = attempts[i].event
           /\ attempts[i].class \in Finalizing => attempts'[i].class = attempts[i].class
    BY Zenon, <1>21 DEF Crash, opVars
  <1>22. ASSUME Tick PROVE \A i \in DOMAIN attempts :
           /\ i \in DOMAIN attempts'
           /\ attempts'[i].kind = attempts[i].kind
           /\ attempts'[i].event = attempts[i].event
           /\ attempts[i].class \in Finalizing => attempts'[i].class = attempts[i].class
    BY Zenon, <1>22 DEF Tick, opVars
  <1>23. ASSUME UNCHANGED vars PROVE \A i \in DOMAIN attempts :
           /\ i \in DOMAIN attempts'
           /\ attempts'[i].kind = attempts[i].kind
           /\ attempts'[i].event = attempts[i].event
           /\ attempts[i].class \in Finalizing => attempts'[i].class = attempts[i].class
    BY Zenon, <1>23 DEF vars, opVars
  <1> QED
    BY Zenon, <1>1, <1>2, <1>3, <1>4, <1>5, <1>6, <1>7, <1>8, <1>9, <1>10, <1>11, <1>12,
       <1>13, <1>14, <1>15, <1>16, <1>17, <1>18, <1>19, <1>20, <1>21, <1>22, <1>23
       DEF Next, Proceed

-----------------------------------------------------------------------------
(* Evidence.                                                                *)

\* Attempts stay as good as their evidence when a step only adds good ones.
LEMMA AttemptsHoldFrame ==
  ASSUME TypeOK, Control, Sends, AttemptsHold, [Next]_vars,
         \A i \in DOMAIN attempts' :
           \/ /\ i \in DOMAIN attempts
              /\ attempts'[i].class = attempts[i].class
              /\ attempts'[i].kind = attempts[i].kind
           \/ /\ attempts'[i].class = "VERIFIED_SUCCESS" => effect = "SUCCEEDED"
              /\ attempts'[i].class = "VERIFIED_DECLINE" => effect = "DECLINED"
              /\ attempts'[i].class = "NOT_FOUND_FINAL" => PastAGrace
              /\ attempts'[i].kind = "WEBHOOK" => attempts'[i].class \in Finalizing
  PROVE  AttemptsHold'
  <1>1. effect # None => effect' = effect
    BY Zenon, Monotone
  <1>2. PastAGrace => PastAGrace'
    BY Zenon, Monotone
  <1> QED BY Zenon, <1>1, <1>2, ConstantsAssumption DEF AttemptsHold, Holds

\* Every step keeps AttemptsHold.
LEMMA AttemptsHoldNext ==
  ASSUME TypeOK, Control, Sends, Decision, Evidence, Inbox, [Next]_vars
  PROVE  AttemptsHold'
  <1> USE ConstantsAssumption
  <1>0. UNCHANGED attempts => AttemptsHold'
    BY Zenon, AttemptsHoldFrame DEF Evidence
  <1>1. ASSUME NEW w \in Workers, NEW k \in Keys, Initiate(w, k) PROVE AttemptsHold'
    BY Zenon, <1>0, <1>1 DEF Initiate, opVars
  <1>2. ASSUME NEW w \in Workers, ClaimUnsent(w) PROVE AttemptsHold'
    BY Zenon, <1>0, <1>2 DEF ClaimUnsent, opVars
  <1>3. ASSUME NEW w \in Workers, ClaimDue(w) \/ ClaimForReview(w) PROVE AttemptsHold'
    BY Zenon, <1>0, <1>3 DEF ClaimDue, ClaimForReview, Claim, opVars
  <1>4. ASSUME NEW w \in Workers, NEW e \in Events, ClaimEvent(w, e) PROVE AttemptsHold'
    BY Zenon, <1>0, <1>4 DEF ClaimEvent, Claimable, opVars
  <1>5. ASSUME NEW w \in Workers, PrepareFirstSend(w) PROVE AttemptsHold'
    <2>1. CASE Terminal \/ Sent
      BY Zenon, <1>5, <2>1, <1>0 DEF PrepareFirstSend, LookupOnly, opVars
    <2>2. CASE ~Terminal /\ ~Sent
      <3>1. attempts' = <<[kind |-> "MUTATION", class |-> "SENT", event |-> None]>>
        BY Zenon, <1>5, <2>2 DEF PrepareFirstSend, LookupOnly
      <3> QED BY <3>1 DEF AttemptsHold, Holds
    <2> QED BY Zenon, <2>1, <2>2
  <1>6. ASSUME NEW w \in Workers, SendMutation(w) PROVE AttemptsHold'
    BY Zenon, <1>0, <1>6 DEF SendMutation, opVars
  <1>7. ASSUME NEW w \in Workers, ReceiveMutation(w) PROVE AttemptsHold'
    BY Zenon, <1>0, <1>7 DEF ReceiveMutation, opVars
  <1>8. ASSUME NEW w \in Workers, CompleteMutation(w) PROVE AttemptsHold'
    <2>1. /\ attempts \in Seq(Attempt) /\ attempts' \in Seq(Attempt)
          /\ Len(attempts') = Len(attempts)
          /\ attempts'[1].class = ClassOf(seen[w]) /\ seen[w] \in Observation
          /\ \A i \in 1..Len(attempts) :
               /\ attempts'[i].kind = attempts[i].kind
               /\ i # 1 => attempts'[i].class = attempts[i].class
      BY Zenon, <1>8, CompleteMutationEffect DEF TypeOK, OpTypeOK
    <2>2. 1 \in DOMAIN attempts /\ attempts[1].kind # "WEBHOOK"
      <3>1. attempts # <<>> /\ attempts[1].class = "SENT"
        BY Zenon, <1>8, CompleteMutationEffect DEF CompleteMutation
      <3> QED BY <2>1, <3>1 DEF Evidence, AttemptsHold, Finalizing
    <2>3. /\ attempts'[1].class = "VERIFIED_SUCCESS" => effect = "SUCCEEDED"
          /\ attempts'[1].class = "VERIFIED_DECLINE" => effect = "DECLINED"
          /\ attempts'[1].class # "NOT_FOUND_FINAL"
      BY Zenon, <2>1, ClassOfType DEF Evidence, SeenHolds
    <2> QED BY <2>1, <2>2, <2>3, AttemptsHoldFrame DEF Evidence
  <1>9. ASSUME NEW w \in Workers, Answer(w) PROVE AttemptsHold'
    BY Zenon, <1>0, <1>9 DEF Answer, opVars
  <1>10. ASSUME NEW w \in Workers, Lookup(w) PROVE AttemptsHold'
    BY Zenon, <1>0, <1>10 DEF Lookup, opVars
  <1>11. ASSUME NEW w \in Workers, RecordLookup(w) PROVE AttemptsHold'
    <2>1. CASE UNCHANGED opVars
      BY Zenon, <2>1, <1>0 DEF opVars
    <2>2. CASE ~UNCHANGED opVars
      <3> DEFINE c == LookupClass(w)
                 a == [kind |-> "LOOKUP", class |-> c, event |-> None]
      <3>1. /\ attempts' = Append(attempts, a) /\ a \in Attempt
            /\ Sent /\ seen[w] \in Observation
        BY Zenon, <1>11, <2>2, RecordLookupEffect
      <3>2. /\ c = "VERIFIED_SUCCESS" => effect = "SUCCEEDED"
            /\ c = "VERIFIED_DECLINE" => effect = "DECLINED"
            /\ c = "NOT_FOUND_FINAL" => PastAGrace
        BY Zenon, <3>1, ClassOfType DEF LookupClass, GraceFor, PastAGrace, Evidence, SeenHolds
      <3>3. a.class = c /\ a.kind # "WEBHOOK"
        BY Zenon
      <3> HIDE DEF a, c
      <3>4. \A i \in DOMAIN attempts' :
              (i \in DOMAIN attempts /\ attempts'[i] = attempts[i]) \/ attempts'[i] = a
        BY <3>1, AddAttempt DEF TypeOK, OpTypeOK
      <3> QED BY Zenon, <3>2, <3>3, <3>4, AttemptsHoldFrame DEF Evidence
    <2> QED BY Zenon, <2>1, <2>2
  <1>12. ASSUME NEW w \in Workers, ApplyFinalize(w) PROVE AttemptsHold'
    BY Zenon, <1>0, <1>12 DEF ApplyFinalize, FinalizeVerifiedAttempt, Settle, opVars
  <1>13. ASSUME NEW w \in Workers, ApplyFails(w) PROVE AttemptsHold'
    BY Zenon, <1>0, <1>13 DEF ApplyFails, opVars
  <1>14. ASSUME NEW w \in Workers, RecordApplyFailure(w) PROVE AttemptsHold'
    BY Zenon, <1>0, <1>14 DEF RecordApplyFailure, CountApplyFailure, opVars
  <1>15. ASSUME NEW w \in Workers, ApplyReview(w) PROVE AttemptsHold'
    BY Zenon, <1>0, <1>15 DEF ApplyReview, MarkOperationForReview, opVars
  <1>16. ASSUME NEW e \in Events, AcceptEvent(e) PROVE AttemptsHold'
    BY Zenon, <1>0, <1>16 DEF AcceptEvent, opVars
  <1>17. ASSUME NEW e \in Events, DeadLetter(e) PROVE AttemptsHold'
    BY Zenon, <1>0, <1>17 DEF DeadLetter, opVars
  <1>18. ASSUME NEW w \in Workers, PrepareEvent(w) PROVE AttemptsHold'
    <2>1. CASE UNCHANGED attempts
      BY Zenon, <2>1, <1>0
    <2>2. CASE ~UNCHANGED attempts
      <3>1. PICK a \in Attempt : /\ attempts' = Append(attempts, a)
                                /\ a.class = ClassOf(inbox[event[w]].says)
        BY Zenon, <1>18, <2>2, PrepareEventEffect
      <3>2. inbox[event[w]].says \in {"SUCCEEDED", "DECLINED"} /\ event[w] \in Events
        BY Zenon, <1>18, <2>2, PrepareEventEffect
      <3>3. /\ a.class = "VERIFIED_SUCCESS" => effect = "SUCCEEDED"
            /\ a.class = "VERIFIED_DECLINE" => effect = "DECLINED"
            /\ a.class \in {"VERIFIED_SUCCESS", "VERIFIED_DECLINE"}
        BY Zenon, <3>1, <3>2, ClassOfType DEF Evidence, EventsHold, Observation, Outcome
      <3>4. \A i \in DOMAIN attempts' :
              (i \in DOMAIN attempts /\ attempts'[i] = attempts[i]) \/ attempts'[i] = a
        BY <3>1, AddAttempt DEF TypeOK, OpTypeOK
      <3> QED BY Zenon, <3>3, <3>4, AttemptsHoldFrame DEF Evidence, Finalizing
    <2> QED BY Zenon, <2>1, <2>2
  <1>19. ASSUME NEW w \in Workers, FinishEvent(w) PROVE AttemptsHold'
    BY Zenon, <1>0, <1>19 DEF FinishEvent, opVars
  <1>20. ASSUME ProviderReceives PROVE AttemptsHold'
    BY Zenon, <1>0, <1>20 DEF ProviderReceives, opVars
  <1>21. ASSUME NEW w \in Workers, Crash(w) PROVE AttemptsHold'
    BY Zenon, <1>0, <1>21 DEF Crash, opVars
  <1>22. ASSUME Tick PROVE AttemptsHold'
    BY Zenon, <1>0, <1>22 DEF Tick, opVars
  <1>23. ASSUME UNCHANGED vars PROVE AttemptsHold'
    BY Zenon, <1>0, <1>23 DEF vars, opVars
  <1> QED
    BY Zenon, <1>1, <1>2, <1>3, <1>4, <1>5, <1>6, <1>7, <1>8, <1>9, <1>10, <1>11, <1>12,
       <1>13, <1>14, <1>15, <1>16, <1>17, <1>18, <1>19, <1>20, <1>21, <1>22, <1>23
       DEF Next, Proceed

\* Every step keeps SeenHolds.
LEMMA SeenHoldsNext ==
  ASSUME TypeOK, Control, Sends, Decision, Evidence, Inbox, [Next]_vars
  PROVE  SeenHolds'
  <1> USE ConstantsAssumption
  <1>0. ASSUME \A v \in Workers : seen'[v] = seen[v] \/ seen'[v] \notin {"SUCCEEDED", "DECLINED"}
        PROVE  SeenHolds'
    BY Zenon, <1>0, Monotone DEF Evidence, SeenHolds
  <1>1. ASSUME NEW w \in Workers, NEW k \in Keys, Initiate(w, k) PROVE SeenHolds'
    BY Zenon, <1>0, <1>1 DEF Initiate, Start, workerVars, TypeOK, WorkerTypeOK
  <1>2. ASSUME NEW w \in Workers, ClaimUnsent(w) PROVE SeenHolds'
    BY Zenon, <1>0, <1>2 DEF ClaimUnsent, Start, workerVars, TypeOK, WorkerTypeOK
  <1>3. ASSUME NEW w \in Workers, ClaimDue(w) \/ ClaimForReview(w) PROVE SeenHolds'
    BY Zenon, <1>0, <1>3 DEF ClaimDue, ClaimForReview, Claim, Start, workerVars, TypeOK,
       WorkerTypeOK
  <1>4. ASSUME NEW w \in Workers, NEW e \in Events, ClaimEvent(w, e) PROVE SeenHolds'
    BY Zenon, <1>0, <1>4 DEF ClaimEvent, Claimable, Start, workerVars, TypeOK, WorkerTypeOK
  <1>5. ASSUME NEW w \in Workers, PrepareFirstSend(w) PROVE SeenHolds'
    BY Zenon, <1>0, <1>5 DEF PrepareFirstSend, LookupOnly, Finish, Forget, workerVars,
       TypeOK, WorkerTypeOK
  <1>6. ASSUME NEW w \in Workers, SendMutation(w) PROVE SeenHolds'
    BY Zenon, <1>0, <1>6 DEF SendMutation, workerVars, TypeOK, WorkerTypeOK
  <1>7. ASSUME NEW w \in Workers, ReceiveMutation(w) PROVE SeenHolds'
    <2>1. PICK o \in {"ERROR", "NOT_FOUND", effect, "INVALID"} : seen' = [seen EXCEPT ![w] = o]
      BY Zenon, <1>7 DEF ReceiveMutation
    <2>2. effect' = effect
      BY Zenon, <1>7 DEF ReceiveMutation, providerVars
    <2> QED BY Zenon, <2>1, <2>2 DEF Evidence, SeenHolds, TypeOK, WorkerTypeOK
  <1>8. ASSUME NEW w \in Workers, CompleteMutation(w) PROVE SeenHolds'
    <2>1. seen'[w] = None /\ OthersUndisturbed(w)
      BY Zenon, <1>8, CompleteMutationEffect
    <2>2. \A v \in Workers : seen'[v] = seen[v] \/ seen'[v] = None
      BY ONLY <2>1 DEF OthersUndisturbed
    <2> QED BY Zenon, <1>0, <2>2, ConstantsAssumption DEF Observation, Outcome
  <1>9. ASSUME NEW w \in Workers, Answer(w) PROVE SeenHolds'
    BY Zenon, <1>0, <1>9 DEF Answer, workerVars, TypeOK, WorkerTypeOK
  <1>10. ASSUME NEW w \in Workers, Lookup(w) PROVE SeenHolds'
    <2>1. PICK o \in {"ERROR", "NOT_FOUND", effect, "INVALID"} : seen' = [seen EXCEPT ![w] = o]
      BY Zenon, <1>10 DEF Lookup
    <2>2. effect' = effect
      BY Zenon, <1>10 DEF Lookup, providerVars
    <2> QED BY Zenon, <2>1, <2>2 DEF Evidence, SeenHolds, TypeOK, WorkerTypeOK
  <1>11. ASSUME NEW w \in Workers, RecordLookup(w) PROVE SeenHolds'
    <2>1. seen'[w] = None /\ OthersUndisturbed(w)
      BY Zenon, <1>11, RecordLookupEffect
    <2>2. \A v \in Workers : seen'[v] = seen[v] \/ seen'[v] = None
      BY ONLY Zenon, <2>1 DEF OthersUndisturbed
    <2> QED BY Zenon, <1>0, <2>2, ConstantsAssumption DEF Observation, Outcome
  <1>12. ASSUME NEW w \in Workers, ApplyFinalize(w) PROVE SeenHolds'
    BY Zenon, <1>0, <1>12 DEF ApplyFinalize, Finish, Forget, workerVars, TypeOK,
       WorkerTypeOK
  <1>13. ASSUME NEW w \in Workers, ApplyFails(w) PROVE SeenHolds'
    BY Zenon, <1>0, <1>13 DEF ApplyFails, workerVars, TypeOK, WorkerTypeOK
  <1>14. ASSUME NEW w \in Workers, RecordApplyFailure(w) PROVE SeenHolds'
    BY Zenon, <1>0, <1>14 DEF RecordApplyFailure, CountApplyFailure, Finish, Forget,
       workerVars, TypeOK, WorkerTypeOK
  <1>15. ASSUME NEW w \in Workers, ApplyReview(w) PROVE SeenHolds'
    BY Zenon, <1>0, <1>15 DEF ApplyReview, MarkOperationForReview, Finish, Forget,
       workerVars, TypeOK, WorkerTypeOK
  <1>16. ASSUME NEW e \in Events, AcceptEvent(e) PROVE SeenHolds'
    BY Zenon, <1>0, <1>16 DEF AcceptEvent, workerVars, TypeOK, WorkerTypeOK
  <1>17. ASSUME NEW e \in Events, DeadLetter(e) PROVE SeenHolds'
    BY Zenon, <1>0, <1>17 DEF DeadLetter, workerVars, TypeOK, WorkerTypeOK
  <1>18. ASSUME NEW w \in Workers, PrepareEvent(w) PROVE SeenHolds'
    <2>1. seen'[w] = None /\ OthersUndisturbed(w)
      BY Zenon, <1>18, PrepareEventEffect
    <2>2. \A v \in Workers : seen'[v] = seen[v] \/ seen'[v] = None
      BY ONLY Zenon, <2>1 DEF OthersUndisturbed
    <2> QED BY Zenon, <1>0, <2>2, ConstantsAssumption DEF Observation, Outcome
  <1>19. ASSUME NEW w \in Workers, FinishEvent(w) PROVE SeenHolds'
    BY Zenon, <1>0, <1>19 DEF FinishEvent, Finish, Forget, workerVars, TypeOK, WorkerTypeOK
  <1>20. ASSUME ProviderReceives PROVE SeenHolds'
    BY Zenon, <1>0, <1>20 DEF ProviderReceives, workerVars, TypeOK, WorkerTypeOK
  <1>21. ASSUME NEW w \in Workers, Crash(w) PROVE SeenHolds'
    BY Zenon, <1>0, <1>21 DEF Crash, Forget, workerVars, TypeOK, WorkerTypeOK
  <1>22. ASSUME Tick PROVE SeenHolds'
    BY Zenon, <1>0, <1>22 DEF Tick, workerVars, TypeOK, WorkerTypeOK
  <1>23. ASSUME UNCHANGED vars PROVE SeenHolds'
    BY Zenon, <1>0, <1>23 DEF vars, workerVars, TypeOK, WorkerTypeOK
  <1> QED
    BY Zenon, <1>1, <1>2, <1>3, <1>4, <1>5, <1>6, <1>7, <1>8, <1>9, <1>10, <1>11, <1>12,
       <1>13, <1>14, <1>15, <1>16, <1>17, <1>18, <1>19, <1>20, <1>21, <1>22, <1>23
       DEF Next, Proceed

\* Every step keeps VerdictsGrounded.
LEMMA VerdictsGroundedNext ==
  ASSUME TypeOK, Control, Sends, Decision, Evidence, Inbox, [Next]_vars
  PROVE  VerdictsGrounded'
  <1> USE ConstantsAssumption
  <1>0. ASSUME \A v \in Workers :
                 \/ pc'[v] \notin {"apply", "applyFailed"}
                 \/ pc[v] \in {"apply", "applyFailed"} /\ verdict'[v] = verdict[v]
                 \/ verdict'[v].action = "FINALIZE" =>
                      /\ verdict'[v].n \in DOMAIN attempts'
                      /\ attempts'[verdict'[v].n].class \in Finalizing
        PROVE  VerdictsGrounded'
    BY Zenon, <1>0, AttemptsGrow DEF Evidence, VerdictsGrounded
  <1>1. ASSUME NEW w \in Workers, NEW k \in Keys, Initiate(w, k) PROVE VerdictsGrounded'
    BY Zenon, <1>0, <1>1 DEF Initiate, Start, Goto, workerVars, TypeOK, WorkerTypeOK
  <1>2. ASSUME NEW w \in Workers, ClaimUnsent(w) PROVE VerdictsGrounded'
    BY Zenon, <1>0, <1>2 DEF ClaimUnsent, Start, Goto, workerVars, TypeOK, WorkerTypeOK
  <1>3. ASSUME NEW w \in Workers, ClaimDue(w) \/ ClaimForReview(w) PROVE VerdictsGrounded'
    BY Zenon, <1>0, <1>3 DEF ClaimDue, ClaimForReview, Claim, Start, Goto, workerVars,
       TypeOK, WorkerTypeOK
  <1>4. ASSUME NEW w \in Workers, NEW e \in Events, ClaimEvent(w, e) PROVE VerdictsGrounded'
    BY Zenon, <1>0, <1>4 DEF ClaimEvent, Claimable, Start, Goto, workerVars, TypeOK,
       WorkerTypeOK
  <1>5. ASSUME NEW w \in Workers, PrepareFirstSend(w) PROVE VerdictsGrounded'
    BY <1>0, <1>5 DEF PrepareFirstSend, LookupOnly, Finish, Forget, Goto,
       workerVars, TypeOK, WorkerTypeOK
  <1>6. ASSUME NEW w \in Workers, SendMutation(w) PROVE VerdictsGrounded'
    BY Zenon, <1>0, <1>6 DEF SendMutation, Goto, workerVars, TypeOK, WorkerTypeOK
  <1>7. ASSUME NEW w \in Workers, ReceiveMutation(w) PROVE VerdictsGrounded'
    BY Zenon, <1>0, <1>7 DEF ReceiveMutation, Goto, workerVars, TypeOK, WorkerTypeOK
  <1>8. ASSUME NEW w \in Workers, CompleteMutation(w) PROVE VerdictsGrounded'
    <2>1. /\ pc'[w] = "apply" /\ verdict'[w].action = "FINALIZE" =>
               verdict'[w].n = 1 /\ attempts'[1].class \in Finalizing
          /\ pc'[w] # "applyFailed" /\ OthersUndisturbed(w)
      BY Zenon, <1>8, CompleteMutationEffect
    <2>2. 1 \in DOMAIN attempts'
      <3>1. attempts \in Seq(Attempt) /\ attempts' \in Seq(Attempt) /\ attempts # <<>>
            /\ Len(attempts') = Len(attempts)
        BY Zenon, <1>8, CompleteMutationEffect DEF TypeOK, OpTypeOK
      <3> QED BY <3>1
    <2> QED BY Zenon, <1>0, <2>1, <2>2 DEF OthersUndisturbed
  <1>9. ASSUME NEW w \in Workers, Answer(w) PROVE VerdictsGrounded'
    BY Zenon, <1>0, <1>9 DEF Answer, Goto, workerVars, TypeOK, WorkerTypeOK
  <1>10. ASSUME NEW w \in Workers, Lookup(w) PROVE VerdictsGrounded'
    BY Zenon, <1>0, <1>10 DEF Lookup, Goto, workerVars, TypeOK, WorkerTypeOK
  <1>11. ASSUME NEW w \in Workers, RecordLookup(w) PROVE VerdictsGrounded'
    <2>1. pc'[w] # "applyFailed" /\ OthersUndisturbed(w)
      BY Zenon, <1>11, RecordLookupEffect
    <2>2. CASE pc'[w] = "apply" /\ verdict'[w].action = "FINALIZE"
      <3> DEFINE a == [kind |-> "LOOKUP", class |-> LookupClass(w), event |-> None]
      <3>1. /\ attempts' = Append(attempts, a) /\ a \in Attempt
            /\ verdict'[w].n = Len(attempts) + 1 /\ a.class \in Finalizing
        BY Zenon, <1>11, <2>2, RecordLookupEffect
      <3> HIDE DEF a
      <3>2. /\ verdict'[w].n \in DOMAIN attempts'
            /\ attempts'[verdict'[w].n].class \in Finalizing
        BY <3>1 DEF TypeOK, OpTypeOK
      <3> QED BY Zenon, <1>0, <2>1, <3>2 DEF OthersUndisturbed
    <2>3. CASE ~(pc'[w] = "apply" /\ verdict'[w].action = "FINALIZE")
      BY Zenon, <1>0, <2>1, <2>3 DEF OthersUndisturbed
    <2> QED BY Zenon, <2>2, <2>3
  <1>12. ASSUME NEW w \in Workers, ApplyFinalize(w) PROVE VerdictsGrounded'
    BY Zenon, <1>0, <1>12 DEF ApplyFinalize, Finish, Forget, Goto, workerVars, TypeOK,
       WorkerTypeOK
  <1>13. ASSUME NEW w \in Workers, ApplyFails(w) PROVE VerdictsGrounded'
    BY Zenon, <1>0, <1>13 DEF ApplyFails, Goto, workerVars, TypeOK, WorkerTypeOK
  <1>14. ASSUME NEW w \in Workers, RecordApplyFailure(w) PROVE VerdictsGrounded'
    BY Zenon, <1>0, <1>14 DEF RecordApplyFailure, CountApplyFailure, Finish, Forget, Goto,
       workerVars, TypeOK, WorkerTypeOK
  <1>15. ASSUME NEW w \in Workers, ApplyReview(w) PROVE VerdictsGrounded'
    BY Zenon, <1>0, <1>15 DEF ApplyReview, MarkOperationForReview, Finish, Forget, Goto,
       workerVars, TypeOK, WorkerTypeOK
  <1>16. ASSUME NEW e \in Events, AcceptEvent(e) PROVE VerdictsGrounded'
    BY Zenon, <1>0, <1>16 DEF AcceptEvent, workerVars, TypeOK, WorkerTypeOK
  <1>17. ASSUME NEW e \in Events, DeadLetter(e) PROVE VerdictsGrounded'
    BY Zenon, <1>0, <1>17 DEF DeadLetter, workerVars, TypeOK, WorkerTypeOK
  <1>18. ASSUME NEW w \in Workers, PrepareEvent(w) PROVE VerdictsGrounded'
    <2>1. pc'[w] # "applyFailed" /\ OthersUndisturbed(w)
      BY Zenon, <1>18, PrepareEventEffect
    <2>2. AttemptsHold'
      BY Zenon, AttemptsHoldNext
    <2>3. pc'[w] = "apply" /\ verdict'[w].action = "FINALIZE" =>
            /\ verdict'[w].n \in DOMAIN attempts'
            /\ attempts'[verdict'[w].n].class \in Finalizing
      BY Zenon, <1>18, <2>2, PrepareEventEffect DEF AttemptsHold
    <2> QED BY Zenon, <1>0, <2>1, <2>3 DEF OthersUndisturbed
  <1>19. ASSUME NEW w \in Workers, FinishEvent(w) PROVE VerdictsGrounded'
    BY Zenon, <1>0, <1>19 DEF FinishEvent, Finish, Forget, Goto, workerVars, TypeOK,
       WorkerTypeOK
  <1>20. ASSUME ProviderReceives PROVE VerdictsGrounded'
    BY Zenon, <1>0, <1>20 DEF ProviderReceives, workerVars, TypeOK, WorkerTypeOK
  <1>21. ASSUME NEW w \in Workers, Crash(w) PROVE VerdictsGrounded'
    BY Zenon, <1>0, <1>21 DEF Crash, Forget, Goto, workerVars, TypeOK, WorkerTypeOK
  <1>22. ASSUME Tick PROVE VerdictsGrounded'
    BY Zenon, <1>0, <1>22 DEF Tick, workerVars, TypeOK, WorkerTypeOK
  <1>23. ASSUME UNCHANGED vars PROVE VerdictsGrounded'
    BY Zenon, <1>0, <1>23 DEF vars, workerVars, TypeOK, WorkerTypeOK
  <1> QED
    BY Zenon, <1>1, <1>2, <1>3, <1>4, <1>5, <1>6, <1>7, <1>8, <1>9, <1>10, <1>11, <1>12,
       <1>13, <1>14, <1>15, <1>16, <1>17, <1>18, <1>19, <1>20, <1>21, <1>22, <1>23
       DEF Next, Proceed

\* Every step keeps EventsHold.
LEMMA EventsHoldNext ==
  ASSUME TypeOK, Control, Sends, Decision, Evidence, Inbox, [Next]_vars
  PROVE  EventsHold'
  <1> USE ConstantsAssumption
  <1>0. ASSUME \A f \in Events : inbox'[f].says = inbox[f].says
        PROVE  EventsHold'
    BY Zenon, <1>0, Monotone DEF Evidence, EventsHold
  <1>1. ASSUME NEW w \in Workers, NEW k \in Keys, Initiate(w, k) PROVE EventsHold'
    BY Zenon, <1>0, <1>1 DEF Initiate
  <1>2. ASSUME NEW w \in Workers, ClaimUnsent(w) PROVE EventsHold'
    BY Zenon, <1>0, <1>2 DEF ClaimUnsent
  <1>3. ASSUME NEW w \in Workers, ClaimDue(w) \/ ClaimForReview(w) PROVE EventsHold'
    BY Zenon, <1>0, <1>3 DEF ClaimDue, ClaimForReview, Claim
  <1>4. ASSUME NEW w \in Workers, NEW e \in Events, ClaimEvent(w, e) PROVE EventsHold'
    BY Zenon, <1>0, <1>4, ClaimEventEffect DEF TypeOK
  <1>5. ASSUME NEW w \in Workers, PrepareFirstSend(w) PROVE EventsHold'
    BY Zenon, <1>0, <1>5 DEF PrepareFirstSend
  <1>6. ASSUME NEW w \in Workers, SendMutation(w) PROVE EventsHold'
    BY Zenon, <1>0, <1>6 DEF SendMutation
  <1>7. ASSUME NEW w \in Workers, ReceiveMutation(w) PROVE EventsHold'
    BY Zenon, <1>0, <1>7 DEF ReceiveMutation
  <1>8. ASSUME NEW w \in Workers, CompleteMutation(w) PROVE EventsHold'
    BY Zenon, <1>0, <1>8 DEF CompleteMutation
  <1>9. ASSUME NEW w \in Workers, Answer(w) PROVE EventsHold'
    BY Zenon, <1>0, <1>9 DEF Answer
  <1>10. ASSUME NEW w \in Workers, Lookup(w) PROVE EventsHold'
    BY Zenon, <1>0, <1>10 DEF Lookup
  <1>11. ASSUME NEW w \in Workers, RecordLookup(w) PROVE EventsHold'
    BY Zenon, <1>0, <1>11 DEF RecordLookup
  <1>12. ASSUME NEW w \in Workers, ApplyFinalize(w) PROVE EventsHold'
    BY Zenon, <1>0, <1>12 DEF ApplyFinalize
  <1>13. ASSUME NEW w \in Workers, ApplyFails(w) PROVE EventsHold'
    BY Zenon, <1>0, <1>13 DEF ApplyFails
  <1>14. ASSUME NEW w \in Workers, RecordApplyFailure(w) PROVE EventsHold'
    BY Zenon, <1>0, <1>14 DEF RecordApplyFailure
  <1>15. ASSUME NEW w \in Workers, ApplyReview(w) PROVE EventsHold'
    BY Zenon, <1>0, <1>15 DEF ApplyReview
  <1>16. ASSUME NEW e \in Events, AcceptEvent(e) PROVE EventsHold'
    <2>1. /\ inbox'[e].says \in {effect, "INVALID"}
          /\ \A f \in Events \ {e} : inbox'[f] = inbox[f]
      BY Zenon, <1>16, AcceptEventEffect DEF TypeOK
    <2>2. effect' = effect
      BY Zenon, <1>16 DEF AcceptEvent, providerVars
    <2> QED BY Zenon, <2>1, <2>2 DEF Evidence, EventsHold
  <1>17. ASSUME NEW e \in Events, DeadLetter(e) PROVE EventsHold'
    <2>1. InboxTypeOK /\ "DEAD_LETTER" \in EventStatus
      BY Zenon DEF EventStatus, TypeOK
    <2>2. inbox' = Closed(e, "DEAD_LETTER")
      BY Zenon, <1>17 DEF DeadLetter
    <2>3. \A f \in Events : inbox'[f].says = inbox[f].says
      BY ONLY Zenon, <1>17, <2>1, <2>2, ClosedEffect
    <2> QED BY Zenon, <1>0, <2>3
  <1>18. ASSUME NEW w \in Workers, PrepareEvent(w) PROVE EventsHold'
    BY Zenon, <1>0, <1>18, PrepareEventEffect
  <1>19. ASSUME NEW w \in Workers, FinishEvent(w) PROVE EventsHold'
    <2>1. event[w] \in Events /\ InboxTypeOK /\ "APPLIED" \in EventStatus
      BY Zenon, <1>19 DEF FinishEvent, EventStatus, Control, TypeOK
    <2>2. inbox' = Closed(event[w], "APPLIED") \/ inbox' = inbox
      BY Zenon, <1>19 DEF FinishEvent
    <2>3. \A f \in Events : inbox'[f].says = inbox[f].says
      BY ONLY <2>1, <2>2, ClosedEffect
    <2> QED BY Zenon, <1>0, <2>3
  <1>20. ASSUME ProviderReceives PROVE EventsHold'
    BY Zenon, <1>0, <1>20 DEF ProviderReceives
  <1>21. ASSUME NEW w \in Workers, Crash(w) PROVE EventsHold'
    BY Zenon, <1>0, <1>21 DEF Crash
  <1>22. ASSUME Tick PROVE EventsHold'
    BY Zenon, <1>0, <1>22, TickInbox DEF TypeOK
  <1>23. ASSUME UNCHANGED vars PROVE EventsHold'
    BY Zenon, <1>0, <1>23 DEF vars
  <1> QED
    BY Zenon, <1>1, <1>2, <1>3, <1>4, <1>5, <1>6, <1>7, <1>8, <1>9, <1>10, <1>11, <1>12,
       <1>13, <1>14, <1>15, <1>16, <1>17, <1>18, <1>19, <1>20, <1>21, <1>22, <1>23
       DEF Next, Proceed

\* Every step keeps ResponseHolds.
LEMMA ResponseHoldsNext ==
  ASSUME TypeOK, Control, Sends, Decision, Evidence, Inbox, [Next]_vars
  PROVE  ResponseHolds'
  <1> USE ConstantsAssumption
  <1>0. ASSUME response' = response PROVE ResponseHolds'
    BY Zenon, <1>0, Monotone DEF Evidence, ResponseHolds, AnswerMatchesEffect
  <1>1. ASSUME NEW w \in Workers, NEW k \in Keys, Initiate(w, k) PROVE ResponseHolds'
    BY Zenon, <1>0, <1>1 DEF Initiate, opVars
  <1>2. ASSUME NEW w \in Workers, ClaimUnsent(w) PROVE ResponseHolds'
    BY Zenon, <1>0, <1>2 DEF ClaimUnsent, opVars
  <1>3. ASSUME NEW w \in Workers, ClaimDue(w) \/ ClaimForReview(w) PROVE ResponseHolds'
    BY Zenon, <1>0, <1>3 DEF ClaimDue, ClaimForReview, Claim
  <1>4. ASSUME NEW w \in Workers, NEW e \in Events, ClaimEvent(w, e) PROVE ResponseHolds'
    BY Zenon, <1>0, <1>4 DEF ClaimEvent, Claimable, opVars
  <1>5. ASSUME NEW w \in Workers, PrepareFirstSend(w) PROVE ResponseHolds'
    BY Zenon, <1>0, <1>5 DEF PrepareFirstSend, LookupOnly, opVars
  <1>6. ASSUME NEW w \in Workers, SendMutation(w) PROVE ResponseHolds'
    BY Zenon, <1>0, <1>6 DEF SendMutation, opVars
  <1>7. ASSUME NEW w \in Workers, ReceiveMutation(w) PROVE ResponseHolds'
    BY Zenon, <1>0, <1>7 DEF ReceiveMutation, opVars
  <1>8. ASSUME NEW w \in Workers, CompleteMutation(w) PROVE ResponseHolds'
    BY Zenon, <1>0, <1>8 DEF CompleteMutation, Conclude, opVars
  <1>9. ASSUME NEW w \in Workers, Answer(w) PROVE ResponseHolds'
    BY Zenon, <1>0, <1>9 DEF Answer, opVars
  <1>10. ASSUME NEW w \in Workers, Lookup(w) PROVE ResponseHolds'
    BY Zenon, <1>0, <1>10 DEF Lookup, opVars
  <1>11. ASSUME NEW w \in Workers, RecordLookup(w) PROVE ResponseHolds'
    BY Zenon, <1>0, <1>11 DEF RecordLookup, Conclude, opVars
  <1>12. ASSUME NEW w \in Workers, ApplyFinalize(w) PROVE ResponseHolds'
    <2>1. CASE Terminal
      BY Zenon, <1>0, <1>12, <2>1 DEF ApplyFinalize, FinalizeVerifiedAttempt, opVars
    <2>2. CASE ~Terminal
      <3> DEFINE c == attempts[verdict[w].n].class
      <3>1. /\ pc[w] = "apply" /\ verdict[w].action = "FINALIZE"
            /\ response' = ResponseOf(c) /\ c \in Finalizing
            /\ UNCHANGED <<effect, sentAge>>
        BY Zenon, <1>12, <2>2 DEF ApplyFinalize, FinalizeVerifiedAttempt, Settle, providerVars
      <3>2. Holds(c)
        BY Zenon, <3>1 DEF Evidence, VerdictsGrounded, AttemptsHold
      <3>3. /\ response' = "SUCCEEDED" => effect = "SUCCEEDED"
            /\ response' = "DECLINED" => effect = "DECLINED"
            /\ response' = "NOT_FOUND" => PastAGrace
        BY Zenon, <3>1, <3>2 DEF Holds, ResponseOf, Finalizing
      <3> QED BY Zenon, <3>1, <3>3 DEF ResponseHolds, AnswerMatchesEffect, PastAGrace, Sent
    <2> QED BY Zenon, <2>1, <2>2
  <1>13. ASSUME NEW w \in Workers, ApplyFails(w) PROVE ResponseHolds'
    BY Zenon, <1>0, <1>13 DEF ApplyFails, opVars
  <1>14. ASSUME NEW w \in Workers, RecordApplyFailure(w) PROVE ResponseHolds'
    BY Zenon, <1>0, <1>14 DEF RecordApplyFailure, CountApplyFailure, opVars
  <1>15. ASSUME NEW w \in Workers, ApplyReview(w) PROVE ResponseHolds'
    BY Zenon, <1>0, <1>15 DEF ApplyReview, MarkOperationForReview, opVars
  <1>16. ASSUME NEW e \in Events, AcceptEvent(e) PROVE ResponseHolds'
    BY Zenon, <1>0, <1>16 DEF AcceptEvent, opVars
  <1>17. ASSUME NEW e \in Events, DeadLetter(e) PROVE ResponseHolds'
    BY Zenon, <1>0, <1>17 DEF DeadLetter, opVars
  <1>18. ASSUME NEW w \in Workers, PrepareEvent(w) PROVE ResponseHolds'
    BY Zenon, <1>0, <1>18 DEF PrepareEvent, HoldsEvent, Conclude, opVars
  <1>19. ASSUME NEW w \in Workers, FinishEvent(w) PROVE ResponseHolds'
    BY Zenon, <1>0, <1>19 DEF FinishEvent, opVars
  <1>20. ASSUME ProviderReceives PROVE ResponseHolds'
    BY Zenon, <1>0, <1>20 DEF ProviderReceives, opVars
  <1>21. ASSUME NEW w \in Workers, Crash(w) PROVE ResponseHolds'
    BY Zenon, <1>0, <1>21 DEF Crash, opVars
  <1>22. ASSUME Tick PROVE ResponseHolds'
    BY Zenon, <1>0, <1>22 DEF Tick, opVars
  <1>23. ASSUME UNCHANGED vars PROVE ResponseHolds'
    BY Zenon, <1>0, <1>23 DEF vars, opVars
  <1> QED
    BY Zenon, <1>1, <1>2, <1>3, <1>4, <1>5, <1>6, <1>7, <1>8, <1>9, <1>10, <1>11, <1>12,
       <1>13, <1>14, <1>15, <1>16, <1>17, <1>18, <1>19, <1>20, <1>21, <1>22, <1>23
       DEF Next, Proceed

\* Every step keeps Evidence.
LEMMA EvidenceNext == IInv /\ [Next]_vars => Evidence'
  BY Zenon, AttemptsHoldNext, SeenHoldsNext, VerdictsGroundedNext, EventsHoldNext, ResponseHoldsNext
     DEF IInv, Evidence

=============================================================================
