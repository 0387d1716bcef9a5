------------------------ MODULE SettlementForecasts ------------------------
(***************************************************************************)
(* The settlement policies and pre-cutoff forecasts of one merchant        *)
(* account (settlement_intelligence/windows.py, service.py, execution.py). *)
(* A moment counts slots of local time from the start of a Monday.  What a *)
(* forecast adds up, net captures less refunds and offset, is the set of   *)
(* the captures it counts, where the code compares sums and numbers;       *)
(* statements of a transaction are steps.                                  *)
(***************************************************************************)
EXTENDS Integers, FiniteSets, FiniteSetsExt

CONSTANTS SlotsPerDay,
          Windows,       \* [cutoff: a slot, delay: 0..2, weekends: INCLUDE or SKIP]
          Start, Stop,   \* bounds: the first and the last moment
          Admins, Pollers, Forecasters,
          MaxPolicies, MaxForecasts, MaxCaptures   \* bounds

VARIABLES now, captured,       \* the moments of the captures not settled yet
          policies, forecasts, job

vars == <<now, captured, policies, forecasts, job>>

Callers == Admins \cup Pollers \cup Forecasters
NoJob == [pc |-> "idle"]
Goto(c, value) == job' = [job EXCEPT ![c] = value]
Done(c) == Goto(c, NoJob)

-----------------------------------------------------------------------------
(* windows.py *)

Weekend(day) == day % 7 >= 5
LocalDay(moment) == moment \div SlotsPerDay
CutoffAt(window, day) == day * SlotsPerDay + window.cutoff

\* Mutant: the cutoff instant belongs to the next day.
BusinessDateExclusive(window, moment) ==
    LocalDay(moment) + (IF moment % SlotsPerDay < window.cutoff THEN 0 ELSE 1)

BusinessDateOf(window, moment) ==
    LocalDay(moment) + (IF moment % SlotsPerDay <= window.cutoff THEN 0 ELSE 1)

\* Whether reaching the day uses up one day of the delay.
Counts(window, day) == window.weekends = "INCLUDE" \/ ~Weekend(day)

ArrivalDate(window, date) ==
    LET Roll[day \in Nat, remaining \in Int] ==
            IF remaining > 0 \/ (window.weekends = "SKIP" /\ Weekend(day))
            THEN Roll[day + 1, remaining - (IF Counts(window, day + 1) THEN 1 ELSE 0)]
            ELSE day
    IN Roll[date, window.delay]

-----------------------------------------------------------------------------
(* create_policy: the latest version, then the active one, then the writes *)

Active == {p \in policies : p.status = "ACTIVE"}
Latest == Max({p.version : p \in policies} \cup {0})

PolicyBegin(a) ==
    /\ job[a].pc = "idle"
    /\ Cardinality(policies) < MaxPolicies
    /\ \E window \in Windows :
        Goto(a, [pc |-> "active", window |-> window, latest |-> Latest])
    /\ UNCHANGED <<now, captured, policies, forecasts>>

\* The active policy with the same content is returned as it is.
PolicyActive(a) ==
    /\ job[a].pc = "active"
    /\ IF \E p \in Active : p.window = job[a].window
       THEN Done(a)
       ELSE Goto(a, [pc |-> "insert", window |-> job[a].window, latest |-> job[a].latest,
                     retire |-> {p.version : p \in Active}])
    /\ UNCHANGED <<now, captured, policies, forecasts>>

\* UNIQUE (..., version) and the partial unique index on the active policy.
PolicyAllowed(version, retired) ==
    /\ \A p \in policies : p.version # version
    /\ \A p \in Active : p.version \in retired

PolicyInsert(a) ==
    LET version == job[a].latest + 1
        retired == job[a].retire
    IN /\ job[a].pc = "insert"
       /\ policies' = IF PolicyAllowed(version, retired)
                      THEN {IF p.version \in retired THEN [p EXCEPT !.status = "RETIRED"] ELSE p :
                               p \in policies}
                           \cup {[version |-> version, window |-> job[a].window,
                                  status |-> "ACTIVE", by |-> a]}
                      ELSE policies
       /\ Done(a)
       /\ UNCHANGED <<now, captured, forecasts>>

-----------------------------------------------------------------------------
(* Forecasts: run_forecast_batch by a poller, post_settlement_forecast *)

Series(date) == {f \in forecasts : f.date = date}

\* The active policy and the business date of the moment.  The cutoff of that
\* date is never over, so the code's roll to the next business date is not met.
ForecastBegin(c) ==
    /\ job[c].pc = "idle"
    /\ Cardinality(forecasts) < MaxForecasts
    /\ \E p \in Active :
        LET date == BusinessDateOf(p.window, now)
        IN Goto(c, [pc |-> IF c \in Pollers THEN "check" ELSE "captures", made |-> now,
                    policy |-> p.version, window |-> p.window, date |-> date])
    /\ UNCHANGED <<now, captured, policies, forecasts>>

\* ensure_daily_forecast: nothing to do when the date has a forecast.
EnsureDaily(c) ==
    /\ job[c].pc = "check"
    /\ IF Series(job[c].date) # {} THEN Done(c)
       ELSE Goto(c, [job[c] EXCEPT !.pc = "captures"])
    /\ UNCHANGED <<now, captured, policies, forecasts>>

\* record_pre_cutoff_forecast: the captures, ...
Forecast(c) ==
    LET j == job[c]
    IN [date |-> j.date, policy |-> j.policy, window |-> j.window, made |-> j.made,
        arrival |-> ArrivalDate(j.window, j.date),
        counted |-> {t \in captured : t <= CutoffAt(j.window, j.date)}]

ReadCaptures(c) ==
    /\ job[c].pc = "captures"
    /\ Goto(c, [pc |-> "latest", forecast |-> Forecast(c)])
    /\ UNCHANGED <<now, captured, policies, forecasts>>

SameContent(f, latest) == f.policy = latest.policy /\ f.counted = latest.counted

\* ... the latest forecast of the date, ...
ReadLatest(c) ==
    LET f == job[c].forecast
    IN /\ job[c].pc = "latest"
       /\ IF \E g \in Series(f.date) :
               (\A h \in Series(f.date) : h.sequence <= g.sequence) /\ SameContent(f, g)
          THEN Done(c)
          ELSE Goto(c, [pc |-> "count", forecast |-> f])
       /\ UNCHANGED <<now, captured, policies, forecasts>>

\* ... how many there are, ...
CountSeries(c) ==
    /\ job[c].pc = "count"
    /\ Goto(c, [pc |-> "insert", forecast |-> job[c].forecast,
                sequence |-> Cardinality(Series(job[c].forecast.date)) + 1])
    /\ UNCHANGED <<now, captured, policies, forecasts>>

SequenceFree(date, sequence) == \A f \in Series(date) : f.sequence # sequence

\* ... and the insert, which the unique constraint may refuse.
InsertForecast(c) ==
    LET f == job[c].forecast
    IN /\ job[c].pc = "insert"
       /\ forecasts' = IF SequenceFree(f.date, job[c].sequence)
                       THEN forecasts \cup
                              {[date |-> f.date, policy |-> f.policy, window |-> f.window,
                                made |-> f.made, counted |-> f.counted, arrival |-> f.arrival,
                                sequence |-> job[c].sequence, by |-> c]}
                       ELSE forecasts
       /\ Done(c)
       /\ UNCHANGED <<now, captured, policies>>

-----------------------------------------------------------------------------
CaptureSucceeds ==
    /\ now \notin captured
    /\ Cardinality(captured) < MaxCaptures
    /\ captured' = captured \cup {now}
    /\ UNCHANGED <<now, policies, forecasts, job>>

\* run_settlement writes the item of a capture, which then is not to be forecast.
CaptureSettles ==
    /\ \E t \in captured : captured' = captured \ {t}
    /\ UNCHANGED <<now, policies, forecasts, job>>

Tick ==
    /\ now < Stop
    /\ now' = now + 1
    /\ UNCHANGED <<captured, policies, forecasts, job>>

Init ==
    /\ now = Start
    /\ captured = {} /\ policies = {} /\ forecasts = {}
    /\ job = [c \in Callers |-> NoJob]

Next ==
    \/ \E a \in Admins : PolicyBegin(a) \/ PolicyActive(a) \/ PolicyInsert(a)
    \/ \E c \in Pollers \cup Forecasters :
          ForecastBegin(c) \/ ReadCaptures(c) \/ ReadLatest(c) \/ CountSeries(c)
             \/ InsertForecast(c)
    \/ \E c \in Pollers : EnsureDaily(c)
    \/ CaptureSucceeds
    \/ CaptureSettles
    \/ Tick

Spec == Init /\ [][Next]_vars

-----------------------------------------------------------------------------
(* Properties. *)

\* A forecast promises arrival on the first day, not before its business date,
\* that is a settlement day and by which as many settlement days as the delay
\* have gone by (arrival_date).
ArrivalExact ==
    \A f \in forecasts :
        LET settles(day) == f.window.weekends = "INCLUDE" \/ day % 7 < 5
            arrived(day) == settles(day) /\
                Cardinality({x \in f.date + 1 .. day : settles(x)}) >= f.window.delay
        IN arrived(f.arrival) /\ \A day \in f.date .. f.arrival - 1 : ~arrived(day)

\* A forecast is made after the cutoff of the day before and no later than its
\* own, and counts no capture past it, the cutoff instant included
\* (business_date_of against cutoff_at in record_pre_cutoff_forecast).
MadeBeforeCutoff ==
    \A f \in forecasts :
        /\ f.made <= CutoffAt(f.window, f.date)
        /\ f.made > CutoffAt(f.window, f.date - 1)
        /\ \A t \in f.counted : LocalDay(t) = f.date => t % SlotsPerDay <= f.window.cutoff

\* The forecasts of a date form one series 1, 2, ... without gap or double,
\* whoever records them at once (record_pre_cutoff_forecast's sequence).
OneSeries ==
    \A f \in forecasts :
        /\ {g.sequence : g \in Series(f.date)} = 1 .. Cardinality(Series(f.date))
        /\ \A g \in Series(f.date) : g.sequence = f.sequence => g = f

\* However create_policy runs interleave, the one active policy is the latest
\* version, and versions are not used twice (its two unique constraints).
ActiveIsLatest ==
    policies # {} =>
        /\ Cardinality(Active) = 1
        /\ \A p \in policies, q \in Active : p # q => p.version < q.version

\* With one recorder at work, a forecast differs from the one before it in its
\* series: a retried request appends nothing (the content-keyed replay of
\* record_pre_cutoff_forecast).
RetryAppendsNothing ==
    \A f, g \in forecasts :
        f.date = g.date /\ g.sequence = f.sequence + 1 =>
            f.policy # g.policy \/ f.counted # g.counted
=============================================================================
