----------------------------- MODULE FeeSchedule -----------------------------
(***************************************************************************)
(* Fee schedules of one merchant (packages/relaypay/fees): the integer fee *)
(* split of a capture, the immutable versions of the schedule, and the     *)
(* split that a capture stores when it starts and posts when the provider  *)
(* has answered.  Amounts are integer paise, rates are basis points.       *)
(***************************************************************************)
EXTENDS Integers, Sequences

CONSTANTS
    Captures,
    Amounts,       \* captured amounts
    Schedules,     \* terms an operator may choose
    Nothing,
    MaxVersion,    \* bound: versions of the schedule
    MaxTime        \* bound: the clock

BPS_DENOMINATOR == 10000
Rates == 0 .. BPS_DENOMINATOR

\* The terms keep to the bounds that the table's CHECK constraints impose.
FeeConstants ==
    /\ Amounts \subseteq Nat \ {0}
    /\ Nothing \notin Nat
    /\ MaxVersion \in Nat /\ MaxTime \in Nat
    /\ \A t \in Schedules :
          /\ t.mdr \in Rates /\ t.gst \in Rates /\ t.fixed \in Nat
          /\ t.min # Nothing => t.min \in Nat
          /\ t.max # Nothing => t.max \in Nat
          /\ t.min # Nothing /\ t.max # Nothing => t.min <= t.max

ASSUME FeeAssumption == FeeConstants

VARIABLES
    now,
    schedule,      \* FeeScheduleVersion rows by version number
    capture,       \* Capture by identifier, with the split it stores
    posted         \* the legs of its journal

feeVars == <<now, schedule, capture, posted>>

-----------------------------------------------------------------------------
(* compute_capture_fee.                                                    *)

RoundHalfUp(n) == (2 * n + BPS_DENOMINATOR) \div (2 * BPS_DENOMINATOR)

AtLeast(fee, bound) == IF bound # Nothing /\ fee < bound THEN bound ELSE fee
AtMost(fee, bound) == IF bound # Nothing /\ fee > bound THEN bound ELSE fee

Fee(amount, t) == AtMost(AtLeast(RoundHalfUp(amount * t.mdr) + t.fixed, t.min), t.max)
Gst(fee, t) == RoundHalfUp(fee * t.gst)

Net(amount, t) == amount - Fee(amount, t) - Gst(Fee(amount, t), t)

Split(amount, t, version) ==
    [amount |-> amount, fee |-> Fee(amount, t), gst |-> Gst(Fee(amount, t), t),
     net |-> Net(amount, t), version |-> version]

-----------------------------------------------------------------------------
(* The schedule and the captures.                                          *)

\* active_fee_schedule: the newest version that is in effect, 0 for none.
ActiveFeeSchedule ==
    LET effective == {v \in DOMAIN schedule : schedule[v].from <= now}
    IN  IF effective = {} THEN 0 ELSE CHOOSE v \in effective : \A w \in effective : w <= v

\* create_fee_schedule_version: numbered under the lock of the merchant.
CreateFeeScheduleVersion(t, from) ==
    /\ Len(schedule) < MaxVersion
    /\ schedule' = Append(schedule, [terms |-> t, from |-> from])
    /\ UNCHANGED <<now, capture, posted>>

NoFee(amount) == [amount |-> amount, fee |-> 0, gst |-> 0, net |-> amount, version |-> 0]

CurrentSplit(amount) ==
    IF ActiveFeeSchedule = 0 THEN NoFee(amount)
    ELSE Split(amount, schedule[ActiveFeeSchedule].terms, ActiveFeeSchedule)

\* capture_fee in initiate_capture: a split with a negative net is refused.
StartCapture(c, amount) ==
    /\ capture[c] = Nothing
    /\ CurrentSplit(amount).net >= 0
    /\ capture' = [capture EXCEPT ![c] = CurrentSplit(amount)]
    /\ UNCHANGED <<now, schedule, posted>>

\* Mutant: the split is computed again when the journal is posted.
RecomputedLegs(c) == CurrentSplit(capture[c].amount)

StoredLegs(c) == capture[c]

\* post_capture_journal, by whoever finalises the capture, any time later.
PostCapture(c) ==
    /\ capture[c] # Nothing /\ posted[c] = Nothing
    /\ posted' = [posted EXCEPT ![c] = StoredLegs(c)]
    /\ UNCHANGED <<now, schedule, capture>>

ClockTick ==
    /\ now < MaxTime
    /\ now' = now + 1
    /\ UNCHANGED <<schedule, capture, posted>>

FeeInit ==
    /\ now = 0
    /\ schedule = <<>>
    /\ capture = [c \in Captures |-> Nothing]
    /\ posted = [c \in Captures |-> Nothing]

FeeNext ==
    \/ \E t \in Schedules, from \in 0 .. MaxTime : CreateFeeScheduleVersion(t, from)
    \/ \E c \in Captures : PostCapture(c) \/ \E amount \in Amounts : StartCapture(c, amount)
    \/ ClockTick

FeeSpec == FeeInit /\ [][FeeNext]_feeVars

-----------------------------------------------------------------------------
(* Properties.                                                             *)

\* The split of an amount under given terms is what compute_capture_fee
\* promises: nothing is lost or made, nobody pays a negative share, the tax is
\* the nearest paisa with halves up, and so is the fee, unless a bound moved it
\* to that bound.
ExactSplit(s, t) ==
    LET nearest(r, n) == /\ 2 * BPS_DENOMINATOR * r <= 2 * n + BPS_DENOMINATOR
                         /\ 2 * n + BPS_DENOMINATOR < 2 * BPS_DENOMINATOR * (r + 1)
    IN  /\ s.fee + s.gst + s.net = s.amount
        /\ s.fee >= 0 /\ s.gst >= 0 /\ s.net >= 0
        /\ nearest(s.gst, s.fee * t.gst)
        /\ t.min # Nothing => s.fee >= t.min
        /\ t.max # Nothing => s.fee <= t.max
        /\ s.fee \notin {t.min, t.max} => nearest(s.fee - t.fixed, s.amount * t.mdr)

\* Every split a capture stores is exact under the version it names, which was
\* already in effect, however the schedule grew since.
StoredSplitsExact ==
    \A c \in Captures : capture[c] # Nothing =>
       IF capture[c].version = 0
       THEN capture[c].fee = 0 /\ capture[c].gst = 0 /\ capture[c].net = capture[c].amount
       ELSE /\ capture[c].version \in DOMAIN schedule
            /\ schedule[capture[c].version].from <= now
            /\ ExactSplit(capture[c], schedule[capture[c].version].terms)

\* The journal of a capture has the legs that were fixed when the capture
\* started: a schedule that takes effect between the request and its
\* finalisation, by a recovery or an event, does not change what is posted.
PostedAsStarted ==
    \A c \in Captures : posted[c] # Nothing => capture[c] # Nothing /\ posted[c] = capture[c]

\* A capture is charged once and exactly: by the terms of a version that had taken
\* effect when it started (not that it was the newest: a later one may be dated
\* back), to the paisa, and posted as stored (compute_capture_fee, the
\* stored legs).
ChargedExactly == StoredSplitsExact /\ PostedAsStarted
=============================================================================
