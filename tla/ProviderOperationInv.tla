----------------------- MODULE ProviderOperationInv ------------------------
(* The inductive invariant behind the theorems of ProviderOperationProofs. *)
EXTENDS ProviderOperation

\* Between prepare_first_send and _complete_mutation.
Sending(w) == pc[w] \in {"mutate", "await", "complete"}

\* What a worker holds at each point of its job, and when a job can exist.
Control ==
    /\ \A w \in Workers :
         /\ pc[w] \in {"complete", "record"} => seen[w] \in Observation
         /\ pc[w] = "complete" => seen[w] # "NOT_FOUND"
         /\ Looking(w) => Sent
         /\ pc[w] = "dispatch" \/ Sending(w) \/ Looking(w) => task[w] # "event"
         /\ pc[w] \in {"prepareEvent", "finishEvent"} => event[w] \in Events
    /\ status = "ABSENT" => ~Sent /\ \A w \in Workers : pc[w] = "idle"
    /\ \A e \in Events : inbox[e].status \in {"PENDING", "PROCESSING"} =>
         inbox[e].says \in Outcome \cup {"INVALID"}

\* One worker at most is between recording the send and recording its answer,
\* and nothing reaches the provider that is not that send.
Sends ==
    /\ sends <= 1
    /\ ~Sent => /\ sends = 0
                /\ attempts = <<>>
                /\ \A w \in Workers : ~Sending(w)
    /\ Sent => attempts # <<>>
    /\ \A w \in Workers : Sending(w) => attempts # <<>> /\ attempts[1].class = "SENT"
    /\ \A w, v \in Workers : Sending(w) /\ Sending(v) => w = v
    /\ \A w \in Workers : pc[w] = "mutate" => sends = 0
    /\ sends = 0 => wire = "empty" /\ effect = None
    /\ wire = "request" => effect = None

\* The decision, its response, its posting and its copies go together.
Decision ==
    /\ Terminal <=> response \in Response
    /\ status = "SUCCEEDED" <=> response = "SUCCEEDED"
    /\ PostedOnce
    /\ OneAnswer
    /\ AlwaysScheduled

\* Old enough for one of the two grace periods.
PastAGrace == Sent /\ (sentAge >= Grace \/ sentAge >= DispatchGrace)

\* What a recorded class claims is so.
Holds(class) ==
    /\ class = "VERIFIED_SUCCESS" => effect = "SUCCEEDED"
    /\ class = "VERIFIED_DECLINE" => effect = "DECLINED"
    /\ class = "NOT_FOUND_FINAL" => PastAGrace

AttemptsHold ==
    \A i \in DOMAIN attempts :
      /\ Holds(attempts[i].class)
      /\ attempts[i].kind = "WEBHOOK" => attempts[i].class \in Finalizing

SeenHolds ==
    \A w \in Workers : seen[w] \in {"SUCCEEDED", "DECLINED"} => seen[w] = effect

VerdictsGrounded ==
    \A w \in Workers :
      pc[w] \in {"apply", "applyFailed"} /\ verdict[w].action = "FINALIZE" =>
        /\ verdict[w].n \in DOMAIN attempts
        /\ attempts[verdict[w].n].class \in Finalizing

EventsHold ==
    \A e \in Events :
      inbox[e].says \in {"SUCCEEDED", "DECLINED"} => inbox[e].says = effect

ResponseHolds ==
    /\ AnswerMatchesEffect
    /\ response = "NOT_FOUND" => PastAGrace

\* Whatever the code holds as evidence is what the provider did.
Evidence ==
    AttemptsHold /\ SeenHolds /\ VerdictsGrounded /\ EventsHold /\ ResponseHolds

\* The event reports a final outcome.
Reports(e) == inbox[e].says \in {"SUCCEEDED", "DECLINED"}

InboxRows ==
    \A e \in Events :
      /\ inbox[e].status = "ABSENT" => inbox[e].says = None
      /\ inbox[e].status # "ABSENT" => effect # None
      /\ inbox[e].status = "APPLIED" => Terminal /\ Reports(e)

WebhookAttempts ==
    \A i \in DOMAIN attempts :
      attempts[i].kind = "WEBHOOK" => attempts[i].event \in Events /\ Reports(attempts[i].event)

EventJobs ==
    \A w \in Workers :
      /\ /\ pc[w] \in {"apply", "applyFailed"}
         /\ task[w] = "event"
         /\ verdict[w].action = "FINALIZE"
         => event[w] \in Events /\ Reports(event[w])
      /\ pc[w] = "finishEvent" => Terminal /\ Reports(event[w])

\* The inbox and the jobs that work on it.
Inbox == InboxRows /\ WebhookAttempts /\ EventJobs

SendInTime == SendPending => sentAge <= SendDelay

LookupsInTime ==
    \A w \in Workers : age[w] <= IF Looking(w) THEN LookupDelay ELSE 0

\* An effect that a lookup missed came after it, so soon after the send.
MissedEffectIsRecent ==
    \A w \in Workers :
      pc[w] = "record" /\ seen[w] = "NOT_FOUND" /\ (effect # None \/ SendPending) =>
        sentAge <= SendDelay + age[w]

FinalAbsence ==
    \A i \in DOMAIN attempts :
      attempts[i].class = "NOT_FOUND_FINAL" => effect = None /\ ~SendPending

\* With the delay bounds, a not-found that is old enough is a real absence.
Absence ==
    Timely => /\ SendInTime /\ LookupsInTime /\ MissedEffectIsRecent
              /\ FinalAbsence /\ AbsenceIsReal

IInv == TypeOK /\ Control /\ Sends /\ Decision /\ Evidence /\ Inbox /\ Absence
=============================================================================
