------------------------------ MODULE MCInsight ------------------------------
(***************************************************************************)
(* The services that answer questions about a merchant, on small           *)
(* instances: settlement questions (SettlementQuestions), the review of a  *)
(* merchant's site (Score, Evidence and Race) and the forecasts of its     *)
(* settlements (Arrival, Policy, Series and Retry).  They share no row.  `part` names  *)
(* the one that moves in a behaviour, so their states add up.              *)
(***************************************************************************)
EXTENDS SettlementQuestions, TLC

VARIABLES
    part,
    site, claims, reviews, reviewJob,
    now, captured, policies, forecasts, forecastJob

reviewVars == <<site, claims, reviews, reviewJob>>
forecastVars == <<now, captured, policies, forecasts, forecastJob>>

-----------------------------------------------------------------------------
Claim(c, p) == [classification |-> c, path |-> p]
Claims == {Claim("GUARANTEED_RETURN", "html"), Claim("GUARANTEED_RETURN", "claims"),
           Claim("COUNTERFEIT", "html"), Claim("SUSPICIOUS_LANGUAGE", "html")}

\* Every snapshot that the checks tell apart, with claims that stop nothing.
Score == INSTANCE RiskReview WITH
    Flaws <- {"website_present", "refund_policy", "privacy_policy", "whois_present", "domain_age",
              "registrant_identity", "identity_consistency", "replica", "catalogue_present",
              "pricing_present", "pricing_outliers"},
    Contacts <- 0 .. 3, Categories <- {"known", "other", "absent"},
    Findings <- {Claim("SUSPICIOUS_LANGUAGE", "html")}, MaxListed <- 3,
    Requests <- {"r1"}, Analysts <- {}, Dispositions <- {}, None <- NULL,
    job <- reviewJob

\* Every list of up to three claims, with what may corroborate them.
Evidence == INSTANCE RiskReview WITH
    Flaws <- {"website_present", "identity_consistency", "replica"},
    Contacts <- {3}, Categories <- {"known", "other", "absent"},
    Findings <- Claims, MaxListed <- 3,
    Requests <- {"r1"}, Analysts <- {}, Dispositions <- {}, None <- NULL,
    job <- reviewJob

\* Three requests for one snapshot and two analysts.
Race == INSTANCE RiskReview WITH
    Flaws <- {"identity_consistency"}, Contacts <- {3}, Categories <- {"known"},
    Findings <- {Claim("GUARANTEED_RETURN", "html")}, MaxListed <- 2,
    Requests <- {"r1", "r2", "r3"}, Analysts <- {"a1", "a2"},
    Dispositions <- {"d1", "d2"}, None <- NULL, job <- reviewJob

Window(cutoff, delay, weekends) ==
    [cutoff |-> cutoff, delay |-> delay, weekends |-> weekends]
TwoWindows == {Window(0, 1, "SKIP"), Window(1, 1, "SKIP")}

\* Every window over a fortnight of moments.
Arrival == INSTANCE SettlementForecasts WITH
    SlotsPerDay <- 3, Start <- 9, Stop <- 22,
    Windows <- {Window(1, delay, weekends) : delay \in 0 .. 2, weekends \in {"INCLUDE", "SKIP"}},
    Admins <- {"a1"}, Pollers <- {"p1"}, Forecasters <- {},
    MaxPolicies <- 1, MaxForecasts <- 3, MaxCaptures <- 0, job <- forecastJob

\* Two administrators.
Policy == INSTANCE SettlementForecasts WITH
    SlotsPerDay <- 3, Start <- 13, Stop <- 13, Windows <- TwoWindows,
    Admins <- {"a1", "a2"}, Pollers <- {}, Forecasters <- {},
    MaxPolicies <- 3, MaxForecasts <- 3, MaxCaptures <- 1, job <- forecastJob

\* The poller and a merchant forecast while the policy changes.
Series == INSTANCE SettlementForecasts WITH
    SlotsPerDay <- 3, Start <- 13, Stop <- 15, Windows <- TwoWindows,
    Admins <- {"a1"}, Pollers <- {"p1"}, Forecasters <- {"f1"},
    MaxPolicies <- 2, MaxForecasts <- 2, MaxCaptures <- 1, job <- forecastJob

\* One recorder repeats its request.
Retry == INSTANCE SettlementForecasts WITH
    SlotsPerDay <- 3, Start <- 13, Stop <- 16, Windows <- TwoWindows,
    Admins <- {"a1"}, Pollers <- {}, Forecasters <- {"f1"},
    MaxPolicies <- 2, MaxForecasts <- 3, MaxCaptures <- 1, job <- forecastJob

-----------------------------------------------------------------------------
PartInit ==
    /\ QuestionInit
    /\ \/ part \in {"questions", "score", "evidence", "race", "policy"} /\ Policy!Init
       \/ part = "arrival" /\ Arrival!Init
       \/ part = "series" /\ Series!Init
       \/ part = "retry" /\ Retry!Init
    /\ \/ part = "score" /\ Score!Init
       \/ part = "evidence" /\ Evidence!Init
       \/ part = "race" /\ Race!Init
       \/ /\ part \notin {"score", "evidence", "race"}
          /\ site = NULL /\ claims = <<>> /\ reviews = <<>> /\ reviewJob = <<>>

PartNext ==
    /\ UNCHANGED part
    /\ \/ part = "questions" /\ QuestionNext /\ UNCHANGED <<reviewVars, forecastVars>>
       \/ part = "score" /\ Score!Next /\ UNCHANGED <<questionVars, forecastVars>>
       \/ part = "evidence" /\ Evidence!Next /\ UNCHANGED <<questionVars, forecastVars>>
       \/ part = "race" /\ Race!Next /\ UNCHANGED <<questionVars, forecastVars>>
       \/ part = "arrival" /\ Arrival!Next /\ UNCHANGED <<questionVars, reviewVars>>
       \/ part = "policy" /\ Policy!Next /\ UNCHANGED <<questionVars, reviewVars>>
       \/ part = "series" /\ Series!Next /\ UNCHANGED <<questionVars, reviewVars>>
       \/ part = "retry" /\ Retry!Next /\ UNCHANGED <<questionVars, reviewVars>>

PartSpec == PartInit /\ [][PartNext]_<<part, questionVars, reviewVars, forecastVars>>

-----------------------------------------------------------------------------
(* Properties, besides AnswerPromise of the questions.                     *)

\* A risk review fits its table, never scores a site less for one more defect, is
\* completed or escalated as the score and the evidence demand and is made once
\* per snapshot, however many requests race (checks.py, prepare_review,
\* execute_review).  The score is a matter of the snapshot alone, so it is looked
\* at before there is a review.
ReviewPromise ==
    /\ part = "score" => /\ Score!Existing = {} => Score!ScoresFit /\ Score!WorseNeverScoresLess
                         /\ Score!DecidedByEvidence
    /\ part = "evidence" => Evidence!DecidedByEvidence
    /\ part = "race" => Race!OneReview

\* A forecast arrives on the day its policy says, is made before its cutoff and
\* counts no capture past it, has its place in one series and, as long as one
\* recorder is at work, repeats nothing, and the active policy is the latest
\* (arrival_date, record_pre_cutoff_forecast, create_policy).
ForecastPromise ==
    /\ Arrival!ArrivalExact
    /\ Series!MadeBeforeCutoff
    /\ Series!OneSeries
    /\ Policy!ActiveIsLatest
    /\ part = "retry" => Retry!RetryAppendsNothing
==============================================================================
