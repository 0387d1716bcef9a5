---------------------------- MODULE BusinessOutbox ----------------------------
(***************************************************************************)
(* The business-event outbox (packages/relaypay/agent_runtime/events.py):  *)
(* rows appended with the change they report, published to a broker under  *)
(* a lease, and consumed with one effect per event identifier.             *)
(*                                                                         *)
(* The broker keeps every message it accepted and may hand it to consumers *)
(* any number of times; the acknowledgement of an accepted message can be  *)
(* lost.  publish_one reads its row back without a lock, so its check of   *)
(* the lease token and its write are two steps.                            *)
(***************************************************************************)
EXTENDS Integers, FiniteSets

CONSTANTS
    BusinessEvents, Publishers, Consumers, Nothing,
    MaxOutboxFaults      \* bound: crashes, stalls and failing sends

\* Rows of BusinessEventOutbox.
Entries == [published : BOOLEAN, holder : Publishers \cup {Nothing}, expired : BOOLEAN, due : BOOLEAN]

ASSUME OutboxAssumption ==
    /\ Publishers \cap Consumers = {}
    /\ Nothing \notin BusinessEvents \cup Publishers \cup Consumers \cup Entries

VARIABLES
    entry,         \* BusinessEventOutbox by event, Nothing before it is appended
    topic,         \* events the broker accepted
    marker,        \* ConsumedBusinessEvent: committed events
    inserting,     \* consumer whose uncommitted marker others wait for
    effects,       \* history: business effects committed for each event
    phase, task, outboxFaults

outbox == <<entry, topic>>
consumption == <<marker, inserting, effects>>
outboxVars == <<outbox, consumption, phase, task, outboxFaults>>

Processes == Publishers \cup Consumers
Task(event, acked, mine) == [event |-> event, acked |-> acked, mine |-> mine]
NoTask == Task(Nothing, FALSE, FALSE)
Enter(p, next) == phase' = [phase EXCEPT ![p] = next]
Finish(p) == Enter(p, "idle") /\ task' = [task EXCEPT ![p] = NoTask]

-----------------------------------------------------------------------------
(* Publication.                                                            *)

Entry(published, holder, expired, due) ==
    [published |-> published, holder |-> holder, expired |-> expired, due |-> due]

\* append_business_event, in the transaction of the change.
AppendBusinessEvent(e) ==
    /\ entry[e] = Nothing
    /\ entry' = [entry EXCEPT ![e] = Entry(FALSE, Nothing, FALSE, TRUE)]
    /\ UNCHANGED <<topic, consumption, phase, task, outboxFaults>>

Publishable(e) ==
    /\ ~entry[e].published
    /\ entry[e].due
    /\ entry[e].holder = Nothing \/ entry[e].expired

ClaimEvent(p, e) ==
    /\ phase[p] = "idle"
    /\ entry[e] # Nothing /\ Publishable(e)
    /\ entry' = [entry EXCEPT ![e] = Entry(@.published, p, FALSE, @.due)]
    /\ task' = [task EXCEPT ![p] = Task(e, FALSE, FALSE)]
    /\ Enter(p, "publish")
    /\ UNCHANGED <<topic, consumption, outboxFaults>>

\* publisher.publish: accepted and acknowledged; or an exception, after which
\* the broker has the message or has not.
Publish(p) ==
    /\ phase[p] = "publish"
    /\ \E acked \in BOOLEAN, accepted \in BOOLEAN :
          /\ acked => accepted
          /\ ~acked => outboxFaults < MaxOutboxFaults
          /\ topic' = IF accepted THEN topic \cup {task[p].event} ELSE topic
          /\ task' = [task EXCEPT ![p] = Task(@.event, acked, @.mine)]
          /\ outboxFaults' = IF acked THEN outboxFaults ELSE outboxFaults + 1
    /\ Enter(p, "check")
    /\ UNCHANGED <<entry, consumption>>

SameLease(p, e) == entry[e].holder = p

CheckLease(p) ==
    /\ phase[p] = "check"
    /\ task' = [task EXCEPT ![p] = Task(@.event, @.acked, SameLease(p, @.event))]
    /\ Enter(p, "record")
    /\ UNCHANGED <<outbox, consumption, outboxFaults>>

\* Success is recorded once; a failure gives the lease back and sets a delay.
Recorded(r, acked) ==
    Entry(acked \/ r.published, Nothing, FALSE, acked /\ r.due)

RecordPublish(p) ==
    LET e == task[p].event
    IN  /\ phase[p] = "record"
        /\ entry' = IF task[p].mine THEN [entry EXCEPT ![e] = Recorded(@, task[p].acked)] ELSE entry
        /\ Finish(p)
        /\ UNCHANGED <<topic, consumption, outboxFaults>>

\* The delay of _backoff ends.
DelayEnds(e) ==
    /\ entry[e] # Nothing /\ ~entry[e].due
    /\ entry' = [entry EXCEPT ![e] = Entry(@.published, @.holder, @.expired, TRUE)]
    /\ UNCHANGED <<topic, consumption, phase, task, outboxFaults>>

\* A publisher at work loses its lease only if it stalls.
PublisherExpires(e) ==
    /\ entry[e] # Nothing /\ entry[e].holder # Nothing /\ ~entry[e].expired
    /\ LET working == task[entry[e].holder].event = e
       IN  /\ working => outboxFaults < MaxOutboxFaults
           /\ outboxFaults' = IF working THEN outboxFaults + 1 ELSE outboxFaults
    /\ entry' = [entry EXCEPT ![e] = Entry(@.published, @.holder, TRUE, @.due)]
    /\ UNCHANGED <<topic, consumption, phase, task>>

-----------------------------------------------------------------------------
(* Consumption: consume_dispute_created and its kind, from the broker or   *)
(* from a caller that sends the same envelope again.                       *)

ConsumeRead(c, e) ==
    /\ phase[c] = "idle"
    /\ e \in topic
    /\ IF e \in marker THEN UNCHANGED <<phase, task>>
       ELSE /\ task' = [task EXCEPT ![c] = Task(e, FALSE, FALSE)]
            /\ Enter(c, "insert")
    /\ UNCHANGED <<outbox, consumption, outboxFaults>>

\* Mutant: a marker that exists does not stop the insert.
UnconsumedAlways(e) == TRUE

Unconsumed(e) == e \notin marker

\* record_consumption: the insert waits for a concurrent one, then either is
\* the first or finds that the event was consumed.
RecordConsumption(c) ==
    LET e == task[c].event
    IN  /\ phase[c] = "insert"
        /\ inserting[e] = Nothing
        /\ IF Unconsumed(e)
           THEN /\ inserting' = [inserting EXCEPT ![e] = c]
                /\ Enter(c, "effect")
                /\ UNCHANGED task
           ELSE Finish(c) /\ UNCHANGED inserting
        /\ UNCHANGED <<outbox, marker, effects, outboxFaults>>

\* The case or run is created and everything commits; or the transaction fails
\* and its marker goes with it.
CommitEffect(c) ==
    LET e == task[c].event
    IN  /\ phase[c] = "effect"
        /\ inserting' = [inserting EXCEPT ![e] = Nothing]
        /\ marker' = marker \cup {e}
        /\ effects' = [effects EXCEPT ![e] = @ + 1]
        /\ Finish(c)
        /\ UNCHANGED <<outbox, outboxFaults>>

ProcessDies(p) ==
    /\ phase[p] # "idle"
    /\ outboxFaults < MaxOutboxFaults
    /\ outboxFaults' = outboxFaults + 1
    /\ inserting' = [e \in BusinessEvents |-> IF inserting[e] = p THEN Nothing ELSE inserting[e]]
    /\ Finish(p)
    /\ UNCHANGED <<outbox, marker, effects>>

-----------------------------------------------------------------------------
(* The specification.                                                      *)

OutboxInit ==
    /\ entry = [e \in BusinessEvents |-> Nothing]
    /\ topic = {} /\ marker = {}
    /\ inserting = [e \in BusinessEvents |-> Nothing]
    /\ effects = [e \in BusinessEvents |-> 0]
    /\ phase = [p \in Processes |-> "idle"]
    /\ task = [p \in Processes |-> NoTask]
    /\ outboxFaults = 0

OutboxStep(p) ==
    \/ Publish(p) \/ CheckLease(p) \/ RecordPublish(p)
    \/ RecordConsumption(p) \/ CommitEffect(p)

OutboxNext ==
    \/ \E e \in BusinessEvents :
          \/ AppendBusinessEvent(e) \/ DelayEnds(e) \/ PublisherExpires(e)
          \/ \E p \in Publishers : ClaimEvent(p, e)
          \/ \E c \in Consumers : ConsumeRead(c, e)
    \/ \E p \in Processes : OutboxStep(p) \/ ProcessDies(p)

OutboxSpec == OutboxInit /\ [][OutboxNext]_outboxVars

\* Every tick of the poller drains the rows that are due, oldest first, and the
\* broker recovers.  Nothing is assumed of consumers: no process of the
\* repository runs one.
OutboxFairness ==
    /\ \A p \in Publishers : WF_outboxVars(OutboxStep(p))
    /\ \A e \in BusinessEvents :
          /\ WF_outboxVars(DelayEnds(e)) /\ WF_outboxVars(PublisherExpires(e))
          /\ SF_outboxVars(\E p \in Publishers : ClaimEvent(p, e))

FairOutboxSpec == OutboxSpec /\ OutboxFairness

-----------------------------------------------------------------------------
(* Properties.                                                             *)

\* A row marked published was accepted by the broker, also when its publisher
\* lost the lease, crashed or saw no acknowledgement: an event is never skipped.
MarkedIsSent == \A e \in BusinessEvents : entry[e] # Nothing /\ entry[e].published => e \in topic

\* The mark is set only on what the broker already has, and it stands.
PublishedWasSent ==
    [][\A e \in BusinessEvents : entry[e] # Nothing =>
          /\ entry[e].published => entry'[e].published
          /\ entry'[e].published => e \in topic]_outboxVars

\* However often an event is delivered, to however many consumers at once, it
\* has one effect, and exactly the events with a marker had it
\* (record_consumption and the UNIQUE constraint).
EffectOnce == \A e \in BusinessEvents : effects[e] = (IF e \in marker THEN 1 ELSE 0)

\* An event that was appended is published in the end, after any finite number
\* of crashes, stalls and broker failures, whatever its consumers do
\* (claim_event takes over an expired lease).
EventuallyPublished ==
    \A e \in BusinessEvents :
        entry[e] # Nothing ~> (entry[e] # Nothing /\ entry[e].published /\ e \in topic)

-----------------------------------------------------------------------------
(* The inductive invariant of OutboxPromise.                               *)

Tasks == [event : BusinessEvents \cup {Nothing}, acked : BOOLEAN, mine : BOOLEAN]
Phases == {"idle", "publish", "check", "record", "insert", "effect"}

OutboxTypes ==
    /\ entry \in [BusinessEvents -> {Nothing} \cup Entries]
    /\ marker \subseteq BusinessEvents
    /\ inserting \in [BusinessEvents -> Consumers \cup {Nothing}]
    /\ effects \in [BusinessEvents -> Nat]
    /\ phase \in [Processes -> Phases]
    /\ task \in [Processes -> Tasks]

\* What a process at work knows of its event: a publisher that it was appended,
\* and once acknowledged that the broker has it.
Carries(p) ==
    LET e == task[p].event
    IN  /\ phase[p] # "idle" => e \in BusinessEvents
        /\ phase[p] \in {"publish", "check", "record"} => p \in Publishers /\ entry[e] # Nothing
        /\ phase[p] \in {"check", "record"} /\ task[p].acked => e \in topic
        /\ phase[p] \in {"insert", "effect"} => p \in Consumers

\* The consumer whose marker is uncommitted is the one about to have the effect,
\* and no marker is committed yet.
Excludes(c) ==
    phase[c] = "effect" => /\ inserting[task[c].event] = c
                           /\ task[c].event \notin marker

OutboxInv ==
    /\ OutboxTypes
    /\ EffectOnce
    /\ MarkedIsSent
    /\ \A p \in Processes : Carries(p) /\ Excludes(p)

\* What the outbox promises an event's consumers: it is published before it
\* counts as published, and has one effect (publish_one, record_consumption).
OutboxPromise == [](EffectOnce /\ MarkedIsSent) /\ PublishedWasSent
=============================================================================
