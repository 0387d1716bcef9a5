--------------------------- MODULE DisputeResponse ---------------------------
(***************************************************************************)
(* The response to one dispute (packages/relaypay/disputes/service.py and  *)
(* the approval of packages/relaypay/agent_runtime/workflows.py): drafts,  *)
(* the package frozen from a draft, its approval, and its submission to    *)
(* the dispute network by concurrent requests.                             *)
(*                                                                         *)
(* Packages are named by the draft they are frozen from: the bytes are     *)
(* determined by it, and their digest is UNIQUE.  A request is split       *)
(* between what it reads without a lock and what it writes.                *)
(***************************************************************************)
EXTENDS Integers, FiniteSets

CONSTANTS
    Clients, Unset,
    Adapter,       \* "HTTP", or "IN_PROCESS" for the deterministic network
    MaxDrafts,     \* bound: drafts of the case
    MaxFaults      \* bound: crashes and lost responses

ASSUME DisputeAssumption ==
    /\ Adapter \in {"HTTP", "IN_PROCESS"}
    /\ MaxDrafts \in Nat \ {0} /\ MaxFaults \in Nat
    /\ Unset \notin {"FROZEN", "PENDING", "INVALIDATED", "APPROVED", "REJECTED", "SUBMITTED",
                    "SENT", "SUCCEEDED", "FAILED", "AMBIGUOUS", "UNKNOWN"}

VARIABLES
    case,          \* DisputeCase.status
    latest,        \* highest DisputeDraftVersion.version
    package,       \* DisputePackageVersion.status by draft
    request,       \* ApprovalRequest.status by package
    decision,      \* ApprovalDecision by package
    attempt,       \* DisputeSubmissionAttempt.status by package
    network,       \* the network's effects: packages it accepted, with the result
    sends,         \* history: submit calls by package
    pc, job, faults

drafts == <<case, latest, package>>
approval == <<request, decision>>
disputeVars == <<drafts, approval, attempt, network, sends, pc, job, faults>>

Drafts == 1 .. MaxDrafts
Job(draft, packages, verdict, mutates) ==
    [draft |-> draft, packages |-> packages, decision |-> verdict, mutates |-> mutates,
     observed |-> Unset, dirty |-> {}]
NoJob == Job(0, {}, Unset, FALSE)
Goto(c, place) == pc' = [pc EXCEPT ![c] = place]
Done(c) == Goto(c, "idle") /\ job' = [job EXCEPT ![c] = NoJob]
Existing == {p \in Drafts : package[p] # Unset}

-----------------------------------------------------------------------------
(* Drafts and packages.                                                    *)

EditRead(c) ==
    /\ pc[c] = "idle" /\ latest < MaxDrafts
    /\ job' = [job EXCEPT ![c] = Job(latest, {}, Unset, FALSE)]
    /\ Goto(c, "edit")
    /\ UNCHANGED <<drafts, approval, attempt, network, sends, faults>>

Invalidates(status) == status \in {"FROZEN", "APPROVED"}

\* create_draft invalidates the open packages and approvals.  Of two drafts
\* with one version number one fails.
CreateDraft(c) ==
    /\ pc[c] = "edit"
    /\ IF latest = job[c].draft
       THEN /\ latest' = latest + 1
            /\ package' = [p \in Drafts |-> IF latest > 0 /\ Invalidates(package[p])
                                            THEN "INVALIDATED" ELSE package[p]]
            /\ request' = [p \in Drafts |-> IF latest > 0 /\ p \in Existing
                                               /\ request[p] \in {"PENDING", "APPROVED"}
                                            THEN "INVALIDATED" ELSE request[p]]
            /\ case' = "DRAFTED"
       ELSE UNCHANGED <<drafts, request>>
    /\ Done(c)
    /\ UNCHANGED <<decision, attempt, network, sends, faults>>

FreezeRead(c) ==
    /\ pc[c] = "idle" /\ latest > 0
    /\ job' = [job EXCEPT ![c] = Job(latest, Existing, Unset, FALSE)]
    /\ Goto(c, "freeze")
    /\ UNCHANGED <<drafts, approval, attempt, network, sends, faults>>

\* freeze_draft.  A package of the same bytes or the same version number makes
\* the insert fail.
FreezeDraft(c) ==
    LET p == job[c].draft
    IN  /\ pc[c] = "freeze"
        /\ IF package[p] = Unset /\ job[c].packages = Existing
           THEN /\ package' = [package EXCEPT ![p] = "FROZEN"]
                /\ request' = [request EXCEPT ![p] = "PENDING"]
                /\ case' = "WAITING_FOR_APPROVAL"
           ELSE UNCHANGED <<case, package, request>>
        /\ Done(c)
        /\ UNCHANGED <<latest, decision, attempt, network, sends, faults>>

-----------------------------------------------------------------------------
(* Approval.                                                               *)

DecideRead(c, p, verdict) ==
    /\ pc[c] = "idle"
    /\ request[p] = "PENDING"
    /\ job' = [job EXCEPT ![c] = Job(p, {}, verdict, FALSE)]
    /\ Goto(c, "decide")
    /\ UNCHANGED <<drafts, approval, attempt, network, sends, faults>>

Undecided(p) == decision[p] = Unset

\* mark_package_approved, for a package that is still frozen.
Approves(p, verdict) == verdict = "APPROVED" /\ package[p] = "FROZEN"

\* decide_approval writes the request it read, whatever it became; UNIQUE
\* (approval_request_id) lets one decision commit.
DecideApproval(c) ==
    LET p == job[c].draft
    IN  /\ pc[c] = "decide"
        /\ IF Undecided(p)
           THEN /\ decision' = [decision EXCEPT ![p] = job[c].decision]
                /\ request' = [request EXCEPT ![p] = job[c].decision]
                /\ IF Approves(p, job[c].decision)
                   THEN package' = [package EXCEPT ![p] = "APPROVED"] /\ case' = "APPROVED"
                   ELSE UNCHANGED <<case, package>>
           ELSE UNCHANGED <<case, package, approval>>
        /\ Done(c)
        /\ UNCHANGED <<latest, attempt, network, sends, faults>>

-----------------------------------------------------------------------------
(* Submission.                                                             *)

\* Mutant: a call that finds an attempt without an answer sends again.
SendsUnanswered(p) == attempt[p] \in {Unset, "SENT"}

Sends(p) == attempt[p] = Unset

\* The first transaction of submit_approved_package.  Every attempt has number
\* 1, and UNIQUE (dispute_case_id, attempt_number) allows one for the case.
SubmitBegin(c, p) ==
    /\ pc[c] = "idle"
    /\ package[p] \in {"APPROVED", "SUBMITTED"}
    /\ attempt[p] # "SUCCEEDED"
    /\ Sends(p) => \A q \in Drafts \ {p} : attempt[q] = Unset
    /\ job' = [job EXCEPT ![c] = Job(p, {}, Unset, Sends(p))]
    /\ IF Sends(p)
       THEN attempt' = [attempt EXCEPT ![p] = "SENT"] /\ case' = "SUBMITTING"
       ELSE UNCHANGED <<attempt, case>>
    /\ Goto(c, "call")
    /\ UNCHANGED <<latest, package, approval, network, sends, faults>>

\* The network keeps one result for a stable key; a lookup only reads it.
CallNetwork(c) ==
    LET p == job[c].draft
    IN  /\ pc[c] = "call"
        /\ IF job[c].mutates
           THEN /\ sends' = [sends EXCEPT ![p] = @ + 1]
                /\ \E result \in IF network[p] = Unset THEN {"SUCCEEDED", "FAILED"} ELSE {network[p]} :
                      /\ network' = [network EXCEPT ![p] = result]
                      /\ job' = [job EXCEPT ![c].observed = result]
           ELSE /\ job' = [job EXCEPT ![c].observed = IF network[p] = Unset THEN "UNKNOWN" ELSE network[p]]
                /\ UNCHANGED <<network, sends>>
        /\ Goto(c, "record")
        /\ UNCHANGED <<drafts, approval, attempt, faults>>

\* The call or its response is lost.  The in-process network raises
\* TimeoutError, which is caught; httpx raises an error of its own, which is
\* not, so the request ends here.
LoseCall(c) ==
    LET p == job[c].draft
    IN  /\ pc[c] \in {"call", "record"}
        /\ faults < MaxFaults
        /\ faults' = faults + 1
        /\ sends' = IF pc[c] = "call" /\ job[c].mutates THEN [sends EXCEPT ![p] = @ + 1] ELSE sends
        /\ IF Adapter = "HTTP" THEN Done(c)
           ELSE job' = [job EXCEPT ![c].observed = "UNKNOWN"] /\ Goto(c, "record")
        /\ UNCHANGED <<drafts, approval, attempt, network>>

AttemptStatus(observed) == IF observed = "UNKNOWN" THEN "AMBIGUOUS" ELSE observed

CaseStatus(observed) == IF observed = "SUCCEEDED" THEN "SUBMITTED" ELSE "REQUIRES_REVIEW"

Submitted(observed) == observed = "SUCCEEDED"

Columns == {"attempt", "package", "case"}

\* The columns that will differ from what was read, and so be written.
Dirty(p, observed) ==
    {column \in Columns :
        \/ column = "attempt" /\ attempt[p] # AttemptStatus(observed)
        \/ column = "package" /\ Submitted(observed) /\ package[p] # "SUBMITTED"
        \/ column = "case" /\ observed # "UNKNOWN" /\ case # CaseStatus(observed)}

\* The last transaction reads its rows without a lock.  With an invalidated
\* package it sets the evidence on the attempt and raises, which rolls the
\* evidence back.
SubmitRead(c) ==
    LET p == job[c].draft
    IN  /\ pc[c] = "record"
        /\ IF package[p] \in {"APPROVED", "SUBMITTED"}
           THEN /\ job' = [job EXCEPT ![c].dirty = Dirty(p, job[c].observed)]
                /\ Goto(c, "write")
           ELSE Done(c)
        /\ UNCHANGED <<drafts, approval, attempt, network, sends, faults>>

\* Its commit, over whatever the rows became meanwhile.
SubmitRecord(c) ==
    LET p == job[c].draft
        observed == job[c].observed
        dirty == job[c].dirty
    IN  /\ pc[c] = "write"
        /\ attempt' = IF "attempt" \in dirty THEN [attempt EXCEPT ![p] = AttemptStatus(observed)]
                      ELSE attempt
        /\ package' = IF Submitted(observed) /\ "package" \in dirty
                      THEN [package EXCEPT ![p] = "SUBMITTED"] ELSE package
        /\ case' = IF "case" \in dirty THEN CaseStatus(observed) ELSE case
        /\ Done(c)
        /\ UNCHANGED <<latest, approval, network, sends, faults>>

Crash(c) ==
    /\ pc[c] # "idle"
    /\ faults < MaxFaults
    /\ faults' = faults + 1
    /\ Done(c)
    /\ UNCHANGED <<drafts, approval, attempt, network, sends>>

-----------------------------------------------------------------------------
(* The specification; consume_dispute_created has opened the case.         *)

DisputeInit ==
    /\ case = "OPEN" /\ latest = 0
    /\ package = [p \in Drafts |-> Unset]
    /\ request = [p \in Drafts |-> Unset]
    /\ decision = [p \in Drafts |-> Unset]
    /\ attempt = [p \in Drafts |-> Unset]
    /\ network = [p \in Drafts |-> Unset]
    /\ sends = [p \in Drafts |-> 0]
    /\ pc = [c \in Clients |-> "idle"]
    /\ job = [c \in Clients |-> NoJob]
    /\ faults = 0

DisputeNext == \E c \in Clients :
    \/ EditRead(c) \/ CreateDraft(c) \/ FreezeRead(c) \/ FreezeDraft(c) \/ DecideApproval(c)
    \/ CallNetwork(c) \/ LoseCall(c) \/ SubmitRead(c) \/ SubmitRecord(c) \/ Crash(c)
    \/ \E p \in Drafts : SubmitBegin(c, p)
                         \/ \E verdict \in {"APPROVED", "REJECTED"} : DecideRead(c, p, verdict)

DisputeSpec == DisputeInit /\ [][DisputeNext]_disputeVars

-----------------------------------------------------------------------------
(* Properties.                                                             *)

\* Overlapping submissions, lost responses and crashes send each package to the
\* network at most once ("ambiguous submit produces exactly one effect",
\* docs/operations/resilience-proofs.md), and one package of the case at most.
SentAtMostOnce ==
    /\ \A p \in Drafts : sends[p] <= 1
    /\ Cardinality({p \in Drafts : sends[p] > 0}) <= 1

\* What reached the network was approved, by the one decision on it, before it
\* was sent; concurrent decisions and edits open no other way.
OnlyApprovedSent ==
    \A p \in Drafts : sends[p] > 0 \/ package[p] \in {"APPROVED", "SUBMITTED"} => decision[p] = "APPROVED"

\* Of two people deciding at once one is recorded, and a request that counts as
\* decided carries the decision on record.
DecisionOnRecord ==
    [][\A p \in Drafts :
          /\ decision[p] # Unset => decision'[p] = decision[p]
          /\ request'[p] \in {"APPROVED", "REJECTED"} => request'[p] = decision'[p]]_disputeVars

\* A package or case that counts as submitted was accepted by the network.
SubmittedIsTrue ==
    /\ \A p \in Drafts : package[p] = "SUBMITTED" => network[p] = "SUCCEEDED"
    /\ case = "SUBMITTED" => \E p \in Drafts : network[p] = "SUCCEEDED"

\* What a response to a dispute promises, all together (decide_approval,
\* submit_approved_package).
ResponsePromise ==
    [](SentAtMostOnce /\ OnlyApprovedSent /\ SubmittedIsTrue) /\ DecisionOnRecord

-----------------------------------------------------------------------------
(* The inductive invariant.                                                *)

Jobs ==
    [draft : 0 .. MaxDrafts, packages : SUBSET Drafts, decision : {Unset, "APPROVED", "REJECTED"},
     mutates : BOOLEAN, observed : {Unset, "SUCCEEDED", "FAILED", "UNKNOWN"},
     dirty : SUBSET Columns]

DisputeTypes ==
    /\ latest \in 0 .. MaxDrafts
    /\ package \in [Drafts -> {Unset, "FROZEN", "APPROVED", "SUBMITTED", "INVALIDATED"}]
    /\ request \in [Drafts -> {Unset, "PENDING", "APPROVED", "REJECTED", "INVALIDATED"}]
    /\ decision \in [Drafts -> {Unset, "APPROVED", "REJECTED"}]
    /\ attempt \in [Drafts -> {Unset, "SENT", "SUCCEEDED", "FAILED", "AMBIGUOUS"}]
    /\ network \in [Drafts -> {Unset, "SUCCEEDED", "FAILED"}]
    /\ sends \in [Drafts -> {0, 1}]
    /\ pc \in [Clients -> {"idle", "edit", "freeze", "decide", "call", "record", "write"}]
    /\ job \in [Clients -> Jobs]

\* The request that is about to call the network with a package.
Sending(c, p) == pc[c] = "call" /\ job[c].mutates /\ job[c].draft = p

\* What a request carries from what it read to what it writes.
Carried(c) ==
    LET p == job[c].draft
    IN  /\ pc[c] \in {"freeze", "decide", "call", "record", "write"} => p \in Drafts
        /\ pc[c] = "edit" => p < MaxDrafts
        /\ pc[c] = "decide" => job[c].decision # Unset
        /\ pc[c] \in {"call", "record", "write"} => attempt[p] # Unset
        /\ pc[c] \in {"record", "write"} =>
              /\ job[c].observed # Unset
              /\ job[c].observed # "UNKNOWN" => network[p] = job[c].observed

\* One request has the right to send a package, and the call uses it up.
OneSender ==
    /\ \A c, d \in Clients, p \in Drafts : Sending(c, p) /\ Sending(d, p) => c = d
    /\ \A c \in Clients, p \in Drafts : Sending(c, p) => sends[p] = 0

\* One package of the case is attempted, and none is sent without an attempt.
OneAttempt ==
    /\ \A p \in Drafts : sends[p] = 1 => attempt[p] # Unset
    /\ \A p, q \in Drafts : attempt[p] # Unset /\ attempt[q] # Unset => p = q

\* Who attempts has an approval, and a decided request shows its decision.
ApprovedFirst ==
    \A p \in Drafts :
        /\ attempt[p] # Unset \/ package[p] \in {"APPROVED", "SUBMITTED"} => decision[p] = "APPROVED"
        /\ request[p] \in {"APPROVED", "REJECTED"} => request[p] = decision[p]

DisputeInv ==
    /\ DisputeTypes
    /\ \A c \in Clients : Carried(c)
    /\ OneSender
    /\ OneAttempt
    /\ ApprovedFirst
    /\ SubmittedIsTrue
=============================================================================
