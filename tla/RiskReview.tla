----------------------------- MODULE RiskReview -----------------------------
(***************************************************************************)
(* The risk review of one merchant site (risk_review/checks.py and         *)
(* service.py): the score of its snapshot, and the requests and analysts   *)
(* that open, execute and close the review.  A snapshot is what its checks *)
(* tell apart; a model finding is its classification and its source path.  *)
(***************************************************************************)
EXTENDS Integers, Sequences, FiniteSets, FiniteSetsExt

CONSTANTS Flaws,         \* the checks a snapshot may fail outright
          Contacts,      \* of 0..3: how many contact channels it may have
          Categories,    \* of "known", "other" and "absent"
          Findings,      \* model findings: [classification, path]
          MaxListed,     \* bound: findings the model lists in a behaviour
          Requests, Analysts, Dispositions, None

VARIABLES site, claims,  \* the snapshot and the findings the model returns for it
          reviews,       \* reviews[r]: the review row that request r inserted
          job

vars == <<site, claims, reviews, job>>

People == Requests \cup Analysts
NoJob == [pc |-> "idle"]
Goto(c, value) == job' = [job EXCEPT ![c] = value]
Done(c) == Goto(c, [pc |-> "done"])

-----------------------------------------------------------------------------
(* The scoring model, version 1 (checks.py). *)

MAX_FINDINGS == 16
HARD_STOP_CLASSIFICATIONS ==
    {"PROHIBITED_CATEGORY", "IMPERSONATION", "COUNTERFEIT", "GUARANTEED_RETURN"}

Completeness == {"website_present", "contact_details", "refund_policy", "privacy_policy"}
Domain == {"whois_present", "domain_age", "registrant_identity", "identity_consistency"}
Category == {"merchant_category", "content_matches_category", "catalogue_present"}
Pricing == {"pricing_present", "pricing_outliers"}

\* A catalogue without items shows no replicas and no prices, and without prices
\* there are no outliers.
Sites ==
    {s \in [flaws : SUBSET Flaws, contacts : Contacts, category : Categories] :
        /\ "catalogue_present" \in s.flaws =>
               "pricing_present" \in s.flaws /\ "replica" \notin s.flaws
        /\ "pricing_present" \in s.flaws => "pricing_outliers" \notin s.flaws}

ContactPoints(s) == IF s.contacts = 3 THEN 5 ELSE IF s.contacts > 0 THEN 2 ELSE 0

Maximum(key) == IF key \in Category \cup {"pricing_outliers"} THEN 10 ELSE 5

\* CheckResult.earned
Earned(s, key) ==
    CASE key = "contact_details" -> ContactPoints(s)
      [] key = "merchant_category" -> IF s.category = "known" THEN 10 ELSE 0
      [] key = "content_matches_category" ->
             IF s.category = "known" /\ "replica" \notin s.flaws THEN 10 ELSE 0
      [] OTHER -> IF key \in s.flaws THEN 0 ELSE Maximum(key)

\* CheckResult.classification
Classification(s, key) ==
    CASE key = "contact_details" -> IF s.contacts = 3 THEN "NONE" ELSE "SUSPICIOUS_LANGUAGE"
      [] key = "merchant_category" ->
             IF s.category = "other" THEN "PROHIBITED_CATEGORY" ELSE "NONE"
      [] key = "content_matches_category" ->
             IF "replica" \in s.flaws THEN "COUNTERFEIT" ELSE "NONE"
      [] key \notin s.flaws -> "NONE"
      [] key = "identity_consistency" -> "IMPERSONATION"
      [] key \in {"domain_age", "pricing_outliers"} -> "UNREALISTIC_CLAIM"
      [] OTHER -> "SUSPICIOUS_LANGUAGE"

\* risk_for: the points of a part that the snapshot did not earn.
Risk(s, keys, maximum) == maximum - MapThenSumSet(LAMBDA key : Earned(s, key), keys)

ClaimsRisk(n) == Min({15, 5 * n})

\* deterministic_checks with the claims: the ScoreBreakdown and its total.
Breakdown(s, n) ==
    [completeness |-> Risk(s, Completeness, 20), domain |-> Risk(s, Domain, 20),
     category |-> Risk(s, Category, 30), pricing |-> Risk(s, Pricing, 15),
     claims |-> ClaimsRisk(n)]

Total(s, n) ==
    LET b == Breakdown(s, n)
    IN b.completeness + b.domain + b.category + b.pricing + b.claims

Severity(total) ==
    IF total >= 80 THEN "CRITICAL" ELSE IF total >= 60 THEN "HIGH"
    ELSE IF total >= 30 THEN "MEDIUM" ELSE "LOW"

-----------------------------------------------------------------------------
(* execute_review's verdict *)

Deterministic(s) ==
    {Classification(s, key) : key \in Completeness \cup Domain \cup Category \cup Pricing}

Confidence(s, finding) ==
    IF finding.classification \in Deterministic(s) THEN "HIGH"
    ELSE IF finding.path = "html" THEN "LOW" ELSE "MEDIUM"

\* Mutant: the confidence of a finding is not asked for.
StopsAlways(s, finding) == finding.classification \in HARD_STOP_CLASSIFICATIONS

Stops(s, finding) ==
    finding.classification \in HARD_STOP_CLASSIFICATIONS /\ Confidence(s, finding) # "LOW"

HardStop(s, list) ==
    \/ Deterministic(s) \cap HARD_STOP_CLASSIFICATIONS # {}
    \/ \E i \in DOMAIN list : Stops(s, list[i])

Escalates(s, list) ==
    HardStop(s, list) \/ Severity(Total(s, Len(list))) \in {"HIGH", "CRITICAL"}

-----------------------------------------------------------------------------
(* post_risk_review *)

NewReview == [status |-> "PENDING", versions |-> 0, findings |-> <<>>, disposition |-> None]
Existing == {r \in Requests : reviews[r] # None}

\* prepare_review: fetch the snapshot, then look for its review.
PrepareRead(r) ==
    /\ job[r].pc = "idle"
    /\ Goto(r, IF Existing = {} THEN [pc |-> "insert"]
               ELSE [pc |-> "answer", review |-> CHOOSE e \in Existing : TRUE])
    /\ UNCHANGED <<site, claims, reviews>>

Unique == Existing = {}

\* Its insert; the unique constraint fails the request that comes second.
PrepareInsert(r) ==
    /\ job[r].pc = "insert"
    /\ IF Unique
       THEN /\ reviews' = [reviews EXCEPT ![r] = NewReview]
            /\ Goto(r, [pc |-> "execute"])
       ELSE Done(r) /\ UNCHANGED reviews
    /\ UNCHANGED <<site, claims>>

\* execute_review, by the request that inserted the review.
Execute(r) ==
    /\ job[r].pc = "execute"
    /\ reviews' = [reviews EXCEPT
           ![r].versions = @ + 1,
           ![r].findings = [i \in DOMAIN claims |->
                               [finding |-> claims[i],
                                confidence |-> Confidence(site, claims[i])]],
           ![r].status = IF Escalates(site, claims) THEN "ESCALATED" ELSE "COMPLETED"]
    /\ Goto(r, [pc |-> "answer", review |-> r])
    /\ UNCHANGED <<site, claims>>

\* The model provider raises, a quote is not verbatim, or the process dies.
ExecuteFails(r) ==
    /\ job[r].pc = "execute"
    /\ Done(r)
    /\ UNCHANGED <<site, claims, reviews>>

\* read_review_payload
Answer(r) ==
    /\ job[r].pc = "answer"
    /\ Done(r)
    /\ UNCHANGED <<site, claims, reviews>>

-----------------------------------------------------------------------------
(* post_risk_disposition: reads without a lock, then writes *)

Escalated(r) == reviews[r] # None /\ reviews[r].status \in {"ESCALATED", "DISPOSITIONED"}

DispositionRead(a) ==
    /\ job[a].pc = "idle"
    /\ \E r \in Requests :
        /\ Escalated(r)
        /\ Goto(a, IF reviews[r].status = "DISPOSITIONED" THEN [pc |-> "done"]
                   ELSE [pc |-> "write", review |-> r])
    /\ UNCHANGED <<site, claims, reviews>>

DispositionWrite(a) ==
    /\ job[a].pc = "write"
    /\ \E d \in Dispositions :
        reviews' = [reviews EXCEPT ![job[a].review].status = "DISPOSITIONED",
                                   ![job[a].review].disposition = d]
    /\ Done(a)
    /\ UNCHANGED <<site, claims>>

-----------------------------------------------------------------------------
Init ==
    /\ site \in Sites
    /\ claims \in UNION {[1 .. n -> Findings] : n \in 0 .. MaxListed}
    /\ reviews = [r \in Requests |-> None]
    /\ job = [c \in People |-> NoJob]

Next ==
    \/ \E r \in Requests : PrepareRead(r) \/ PrepareInsert(r) \/ Execute(r) \/ ExecuteFails(r)
                              \/ Answer(r)
    \/ \E a \in Analysts : DispositionRead(a) \/ DispositionWrite(a)

Spec == Init /\ [][Next]_vars

-----------------------------------------------------------------------------
(* Properties. *)

\* Whatever the snapshot and however many findings the model lists, the parts of
\* the score fit the CHECK constraints of risk_review_versions, so execute_review
\* can store the version (checks.py, ScoreBreakdown; models.py 81-90).
ScoresFit ==
    \A n \in 0 .. MAX_FINDINGS :
        LET b == Breakdown(site, n)
        IN /\ b.completeness \in 0 .. 20 /\ b.domain \in 0 .. 20 /\ b.category \in 0 .. 30
           /\ b.pricing \in 0 .. 15 /\ b.claims \in 0 .. 15
           /\ Total(site, n) \in 0 .. 100

\* A snapshot with one further defect and no other change never scores less: one
\* more failed check, one contact channel fewer, a category no longer known
\* (checks.py, the earned points).  Taking away prices among which one was an
\* outlier is no such change: it takes the outlier away as well.
WorseNeverScoresLess ==
    \A s \in {[site EXCEPT !.flaws = @ \cup {f}] : f \in Flaws}
              \cup {[site EXCEPT !.contacts = @ - 1] : c \in 1 .. site.contacts}
              \cup {[site EXCEPT !.category = c] : c \in Categories \ {"known"}} :
        s \in Sites /\ (s.category = site.category \/ site.category = "known") =>
            Total(s, Len(claims)) >= Total(site, Len(claims))

\* A review is decided as its evidence demands: an executed review is COMPLETED
\* only when nothing stops it and its score is below 60, and a hard-stop claim
\* that only the whole page supports does not escalate it (execute_review).
DecidedByEvidence ==
    \A r \in Existing : reviews[r].versions > 0 =>
        LET grave == {"PROHIBITED_CATEGORY", "IMPERSONATION", "COUNTERFEIT", "GUARANTEED_RETURN"}
            shown == \/ site.category = "other"
                     \/ site.flaws \cap {"replica", "identity_consistency"} # {}
                     \/ \E i \in DOMAIN claims :
                            claims[i].classification \in grave /\ claims[i].path # "html"
        IN (reviews[r].status = "COMPLETED") = (~shown /\ Total(site, Len(claims)) < 60)

\* However many requests race, a snapshot has one review and it is executed at
\* most once (prepare_review's unique constraint; only its creator executes it).
OneReview ==
    /\ Cardinality(Existing) <= 1
    /\ \A r \in Existing : reviews[r].versions <= 1
=============================================================================
