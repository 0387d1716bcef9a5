------------------------ MODULE SettlementQuestions ------------------------
(***************************************************************************)
(* Settlement questions (settlement_intelligence/service.py                *)
(* answer_question): requests that open, classify, narrate and finalize a  *)
(* question, each with its own workflow run of two model steps.  A model   *)
(* call happens between transactions; what it says is its outcome and the  *)
(* tokens it took.                                                         *)
(***************************************************************************)
EXTENDS Integers, FiniteSets

CONSTANTS Requests, Texts, Keys, NULL,
          Tokens,        \* of Nat: what one model call may take
          TokenBudget,   \* of the run
          Raising,       \* of "classify", "narrate": the model calls that may raise
          MaxCrashes     \* bound

ModelSteps == {"classify", "narrate"}

Question ==
    [text : Texts, key : Keys, answer : Requests \cup {NULL},
     used : Nat,    \* tokens charged to the run
     taken : Nat,   \* tokens of its recorded model invocations
     status : {"PROCESSING", "ANSWERED", "CLARIFICATION", "FAILED"},
     run : {"RUNNING", "SUCCEEDED", "REQUIRES_REVIEW", "FAILED"},
     steps : [ModelSteps -> {"QUEUED", "SUCCEEDED", "REQUIRES_REVIEW", "DEAD_LETTER"}]]

QuestionConstants ==
    /\ Tokens \subseteq Nat
    /\ TokenBudget \in Nat
    /\ NULL \notin Requests \cup Tokens
    /\ NULL \notin Question

ASSUME QuestionAssumption == QuestionConstants

VARIABLES questions,   \* questions[r]: the row request r inserted, with its run and steps
          asker,       \* what request r is about to do; "lost": it ended without closing its row
          answers, crashes

questionVars == <<questions, asker, answers, crashes>>

NotAsked == [pc |-> "idle"]
Turn(r, value) == asker' = [asker EXCEPT ![r] = value]
Leave(r) == Turn(r, [pc |-> "done"])
Lose(r) == Turn(r, [pc |-> "lost"])

-----------------------------------------------------------------------------
Asked == {r \in Requests : questions[r] # NULL}
SameText(text) == {r \in Asked : questions[r].text = text}
SameKey(key) == {r \in Asked : questions[r].key = key}

NewQuestion(text, key) ==
    [text |-> text, key |-> key, status |-> "PROCESSING", answer |-> NULL,
     run |-> "RUNNING", used |-> 0, taken |-> 0, steps |-> [s \in ModelSteps |-> "QUEUED"]]

\* prepare_question: the question with this text, else the key, else whether the
\* default policy and the workflow definition are still to be inserted.
PrepareRead(r) ==
    /\ asker[r].pc = "idle"
    /\ \E text \in Texts, key \in Keys :
        IF SameText(text) # {}
        THEN Turn(r, [pc |-> "replay", question |-> CHOOSE q \in SameText(text) : TRUE])
        ELSE IF SameKey(key) # {} THEN Leave(r)
        ELSE Turn(r, [pc |-> "insert", text |-> text, key |-> key, first |-> Asked = {}])
    /\ UNCHANGED <<questions, answers, crashes>>

\* Mutant: only the key is unique.
KeyFree(text, key) == SameKey(key) = {}

\* UNIQUE (..., question_digest) and UNIQUE (..., idempotency_key_digest).
Unique(text, key) == SameText(text) = {} /\ SameKey(key) = {}

\* Its insert, or SETTLEMENT_QUESTION_CONCURRENT, also for two first questions
\* that collide on the policy's version or the definition.
PrepareInsert(r) ==
    LET j == asker[r]
    IN /\ j.pc = "insert"
       /\ \/ /\ Unique(j.text, j.key)
             /\ questions' = [questions EXCEPT ![r] = NewQuestion(j.text, j.key)]
             /\ Turn(r, [pc |-> "classify"])
          \/ /\ ~Unique(j.text, j.key) \/ (j.first /\ Asked # {})
             /\ Leave(r) /\ UNCHANGED questions
       /\ UNCHANGED <<answers, crashes>>

\* A replayed question without an answer is not found.
Replay(r) ==
    /\ asker[r].pc = "replay"
    /\ LET q == questions[asker[r].question]
       IN answers' = IF q.answer = NULL THEN answers
                     ELSE answers \cup {[text |-> q.text, answer |-> q.answer]}
    /\ Leave(r)
    /\ UNCHANGED <<questions, crashes>>

\* The classification: an intent, a request for clarification, or no valid output.
Classify(r) ==
    /\ asker[r].pc = "classify"
    /\ \E spent \in Tokens :
        \/ Turn(r, [pc |-> "narrate", classify |-> spent])
        \/ Turn(r, [pc |-> "finalize", classify |-> spent, narrate |-> NULL])
        \/ Turn(r, [pc |-> "fail"])
    /\ UNCHANGED <<questions, answers, crashes>>

\* The queries, the narrative and its validation.
Narrate(r) ==
    /\ asker[r].pc = "narrate"
    /\ \/ \E spent \in Tokens :
            Turn(r, [pc |-> "finalize", classify |-> asker[r].classify, narrate |-> spent])
       \/ Turn(r, [pc |-> "fail"])
    /\ UNCHANGED <<questions, answers, crashes>>

\* A raising provider is caught around the classification, but around the
\* narrative only RelayPayError is.
AfterRaise(call) == IF call = "classify" THEN "fail" ELSE "lost"

ModelRaises(r) ==
    /\ asker[r].pc \in Raising
    /\ Turn(r, [pc |-> AfterRaise(asker[r].pc)])
    /\ UNCHANGED <<questions, answers, crashes>>

AskerDies(r) ==
    /\ crashes < MaxCrashes
    /\ asker[r].pc \notin {"idle", "done", "lost"}
    /\ crashes' = crashes + 1
    /\ Lose(r)
    /\ UNCHANGED <<questions, answers>>

WithinBudget(q, spent) == q.used + spent <= TokenBudget

Invoked(q, spent, run, used, steps) ==
    [text |-> q.text, key |-> q.key, status |-> q.status, answer |-> q.answer,
     run |-> run, used |-> used, taken |-> q.taken + spent, steps |-> steps]

Closed(q, status, answer, run, steps) ==
    [text |-> q.text, key |-> q.key, status |-> status, answer |-> answer,
     run |-> run, used |-> q.used, taken |-> q.taken, steps |-> steps]

\* _record_model_invocation, _complete_step: a call over the budget is recorded
\* and not charged.
CompleteStep(q, step, spent) ==
    IF WithinBudget(q, spent)
    THEN Invoked(q, spent, q.run, q.used + spent, [q.steps EXCEPT ![step] = "SUCCEEDED"])
    ELSE Invoked(q, spent, "REQUIRES_REVIEW", q.used, [q.steps EXCEPT ![step] = "REQUIRES_REVIEW"])

Ended(q) == IF q.run = "RUNNING" THEN "SUCCEEDED" ELSE q.run

\* _finalize: the steps, the answer, the run.  The question is answered even when
\* its run goes to review.  An answer is who computed it.
FinalizeQuestion(r) ==
    LET j == asker[r]
        classified == CompleteStep(questions[r], "classify", j.classify)
        narrated == IF j.narrate = NULL THEN classified
                    ELSE CompleteStep(classified, "narrate", j.narrate)
    IN /\ j.pc = "finalize"
       /\ questions' = [questions EXCEPT ![r] =
              Closed(narrated, IF j.narrate = NULL THEN "CLARIFICATION" ELSE "ANSWERED", r,
                     Ended(narrated), narrated.steps)]
       /\ answers' = answers \cup {[text |-> questions[r].text, answer |-> r]}
       /\ Leave(r)
       /\ UNCHANGED crashes

\* fail_question; its answer is the failure code.
FailQuestion(r) ==
    /\ asker[r].pc = "fail"
    /\ questions' = [questions EXCEPT ![r] =
           Closed(@, "FAILED", r, "FAILED",
                  [s \in ModelSteps |-> IF @.steps[s] = "SUCCEEDED" THEN "SUCCEEDED"
                                        ELSE "DEAD_LETTER"])]
    /\ Leave(r)
    /\ UNCHANGED <<answers, crashes>>

-----------------------------------------------------------------------------
QuestionInit ==
    /\ questions = [r \in Requests |-> NULL]
    /\ asker = [r \in Requests |-> NotAsked]
    /\ answers = {}
    /\ crashes = 0

Proceed(r) ==
    \/ PrepareInsert(r) \/ Replay(r) \/ Classify(r) \/ Narrate(r) \/ FinalizeQuestion(r)
    \/ FailQuestion(r)

QuestionNext ==
    \E r \in Requests :
        PrepareRead(r) \/ Proceed(r) \/ ModelRaises(r) \/ AskerDies(r)

QuestionSpec == QuestionInit /\ [][QuestionNext]_questionVars

\* A request that has begun goes on until it returns or dies.
QuestionFairness == \A r \in Requests : WF_questionVars(Proceed(r))

FairQuestionSpec == QuestionSpec /\ QuestionFairness

-----------------------------------------------------------------------------
(* Properties. *)

\* All who ask one question get one answer, computed once, however their
\* requests overlap (prepare_question's unique digest and the replay).
AnswersAgree ==
    /\ \A x, y \in answers : x.text = y.text => x = y
    /\ \A q, r \in Asked : questions[q].text = questions[r].text => q = r

\* A run is never charged more than its budget, and is charged everything its
\* recorded model calls took unless it is in review: a run cannot succeed over
\* its budget, though its question is answered (_complete_step, _finalize).
BudgetOnRecord ==
    \A r \in Asked :
        LET q == questions[r]
        IN /\ q.used <= TokenBudget
           /\ q.taken # q.used => q.run = "REQUIRES_REVIEW"

\* A question ends, so that a retry can replay it, whatever its classification
\* raises, unless its request died or its narrative raised: nothing else ever
\* closes that row (answer_question, its first try block).
EventuallyAnswerable ==
    \A r \in Requests : r \in Asked ~> \/ questions[r] # NULL /\ questions[r].status # "PROCESSING"
                                      \/ asker[r].pc = "lost"

\* What holds of the answers: all who ask one question get the same one, and the
\* record of a run tells whether its calls kept to the budget (prepare_question,
\* _finalize).
AnswerPromise == AnswersAgree /\ BudgetOnRecord

-----------------------------------------------------------------------------
(* The inductive invariant.                                                *)

\* Whoever works on a question inserted it, and nobody has touched it since; who
\* only looks has no row, and replays one that exists.
Fresh(q) ==
    /\ q.used = 0 /\ q.taken = 0 /\ q.run = "RUNNING"
    /\ q.steps = [s \in ModelSteps |-> "QUEUED"]

Place(r) ==
    LET a == asker[r]
    IN  /\ a.pc \in {"idle", "insert", "replay"} => r \notin Asked
        /\ a.pc \in {"classify", "narrate", "finalize", "fail"} => r \in Asked /\ Fresh(questions[r])
        /\ a.pc = "insert" => a.text \in Texts /\ a.key \in Keys
        /\ a.pc = "replay" => a.question \in Asked
        /\ a.pc \in {"narrate", "finalize"} => a.classify \in Tokens
        /\ a.pc = "finalize" => a.narrate \in Tokens \cup {NULL}

\* Rows and requests are in the places the steps leave them in, a row answers for
\* itself, and every answer given is the answer of its row.
QuestionInv ==
    /\ questions \in [Requests -> Question \cup {NULL}]
    /\ asker = [r \in Requests |-> asker[r]]
    /\ \A r \in Requests : Place(r)
    /\ \A r \in Asked : questions[r].answer \in {NULL, r}
    /\ \A x \in answers : \E r \in Asked : x = [text |-> questions[r].text, answer |-> r]
    /\ \A q, r \in Asked : questions[q].text = questions[r].text => q = r
    /\ BudgetOnRecord
=============================================================================
