---------------------------- MODULE PromiseProofs ----------------------------
(***************************************************************************)
(* Three promises, for every value of the constants: a settlement question *)
(* has one answer within its budget, a dispute sends one approved package  *)
(* once, and a credential has one valid version.  The three models share   *)
(* no variable.  The lemmas on counting are those of MessagingProofs.      *)
(***************************************************************************)
EXTENDS SettlementQuestions, DisputeResponse, CredentialVersions, TLAPS

-----------------------------------------------------------------------------
(* Counting a set of at most one element.                                  *)

\* h counts the subsets of S, one chosen element at a time.
Counts(S, h) ==
    h = [T \in SUBSET S |-> IF T = {} THEN 0 ELSE 1 + h[T \ {CHOOSE x : x \in T}]]

\* The library counts by a function on the subsets of S, chosen to satisfy Counts.
LEMMA CountUnfolds ==
  ASSUME NEW S PROVE Cardinality(S) = (CHOOSE h : Counts(S, h))[S]
  BY Zenon DEF Cardinality, Counts

\* There is such a function when S has at most one element, and it counts S.
LEMMA CountSmall ==
  ASSUME NEW S, \A x, y \in S : x = y
  PROVE  Cardinality(S) = IF S = {} THEN 0 ELSE 1
  <1> DEFINE f == [T \in SUBSET S |-> IF T = {} THEN 0 ELSE 1]
             h == CHOOSE g : Counts(S, g)
  <1>1. \A T \in SUBSET S : T # {} => T \ {CHOOSE x : x \in T} = {}
    <2> SUFFICES ASSUME NEW T \in SUBSET S, T # {} PROVE T \ {CHOOSE x : x \in T} = {}
      BY Zenon
    <2>1. (CHOOSE x : x \in T) \in T
      BY Zenon
    <2> QED BY Zenon, <2>1
  <1>2. Counts(S, f)
    <2>1. {} \in SUBSET S
      BY Zenon
    <2>2. \A T \in SUBSET S : f[T] = IF T = {} THEN 0 ELSE 1 + f[T \ {CHOOSE x : x \in T}]
      BY <1>1, <2>1
    <2>3. f = [T \in SUBSET S |-> f[T]]
      BY Zenon
    <2> HIDE DEF f
    <2> QED BY Zenon, <2>2, <2>3 DEF Counts
  <1>3. Counts(S, h)
    <2> HIDE DEF f
    <2> QED BY Zenon, <1>2
  <1> HIDE DEF h
  <1>4. h[{}] = 0
    BY Zenon, <1>3 DEF Counts
  <1>5. S # {} => h[S] = 1 + h[{}]
    BY Zenon, <1>1, <1>3 DEF Counts
  <1>6. Cardinality(S) = h[S]
    BY Zenon, CountUnfolds DEF h
  <1> QED BY <1>4, <1>5, <1>6

-----------------------------------------------------------------------------
(* Questions about settlements.                                            *)

\* What the model assumes of its constants.
LEMMA QuestionFacts ==
  /\ Tokens \subseteq Nat
  /\ TokenBudget \in Nat
  /\ NULL \notin Requests \cup Tokens
  /\ NULL \notin Question
  BY Zenon, QuestionAssumption DEF QuestionConstants

\* The record of a run is within its budget, and shows when its calls were not.
Within(q) ==
    /\ q.used <= TokenBudget
    /\ q.taken # q.used => q.run = "REQUIRES_REVIEW"

\* The rows are what BudgetOnRecord speaks of, before and after a step.
LEMMA BudgetRows ==
  /\ BudgetOnRecord <=> \A r \in Asked : Within(questions[r])
  /\ BudgetOnRecord' <=> \A r \in Asked' : Within(questions'[r])
  BY Zenon DEF BudgetOnRecord, Within

\* _complete_step keeps the row's text and answer, and the run within its budget.
LEMMA CompleteStepKeeps ==
  ASSUME NEW q \in Question, NEW step \in ModelSteps, NEW spent \in Nat, Within(q),
         q.run \in {"RUNNING", "REQUIRES_REVIEW"}
  PROVE  /\ CompleteStep(q, step, spent) \in Question
         /\ CompleteStep(q, step, spent).text = q.text
         /\ CompleteStep(q, step, spent).run \in {"RUNNING", "REQUIRES_REVIEW"}
         /\ Within(CompleteStep(q, step, spent))
  <1>0. /\ q.used \in Nat /\ q.taken \in Nat /\ q.text \in Texts
        /\ q.steps \in [ModelSteps -> {"QUEUED", "SUCCEEDED", "REQUIRES_REVIEW", "DEAD_LETTER"}]
    BY Zenon DEF Question
  <1>1. CASE q.used + spent <= TokenBudget
    <2> DEFINE c == Invoked(q, spent, q.run, q.used + spent, [q.steps EXCEPT ![step] = "SUCCEEDED"])
    <2>1. CompleteStep(q, step, spent) = c
      BY Zenon, <1>1 DEF CompleteStep, WithinBudget
    <2>2. c \in Question
      BY <1>0 DEF Invoked, Question
    <2>3. c.text = q.text /\ c.run = q.run /\ c.used = q.used + spent /\ c.taken = q.taken + spent
      BY Zenon DEF Invoked
    <2> HIDE DEF c
    <2>4. c.taken # c.used => q.taken # q.used
      BY Zenon, <2>3
    <2>5. Within(c)
      BY Zenon, <1>1, <2>3, <2>4 DEF Within
    <2> QED BY Zenon, <2>1, <2>2, <2>3, <2>5
  <1>2. CASE ~(q.used + spent <= TokenBudget)
    <2> DEFINE c == Invoked(q, spent, "REQUIRES_REVIEW", q.used,
                            [q.steps EXCEPT ![step] = "REQUIRES_REVIEW"])
    <2>1. CompleteStep(q, step, spent) = c
      BY Zenon, <1>2 DEF CompleteStep, WithinBudget
    <2>2. c \in Question
      BY <1>0 DEF Invoked, Question
    <2>3. c.text = q.text /\ c.run = "REQUIRES_REVIEW" /\ c.used = q.used
      BY Zenon DEF Invoked
    <2> HIDE DEF c
    <2>5. Within(c)
      BY Zenon, <2>3 DEF Within
    <2> QED BY Zenon, <2>1, <2>2, <2>3, <2>5
  <1> QED BY Zenon, <1>1, <1>2

\* The rest of the invariant, for a step that writes no row and gives no answer.
LEMMA AskerMoves ==
  ASSUME QuestionInv, NEW r \in Requests, NEW value, asker' = [asker EXCEPT ![r] = value],
         UNCHANGED questions,
         \A x \in answers' : x \in answers \/ \E q \in Asked : x = [text |-> questions[q].text, answer |-> q],
         Place(r)'
  PROVE  QuestionInv'
  <1>1. Asked' = Asked
    BY Zenon DEF Asked
  <1>2. asker' = [q \in Requests |-> asker'[q]]
    BY Zenon DEF QuestionInv
  <1>3. ASSUME NEW q \in Requests, q # r PROVE Place(q)'
    <2>1. asker'[q] = asker[q] /\ Place(q)
      BY Zenon, <1>3 DEF QuestionInv
    <2> QED BY <2>1, <1>1 DEF Place, Fresh
  <1>4. \A q \in Requests : Place(q)'
    BY Zenon, <1>3
  <1>5. BudgetOnRecord'
    BY Zenon, <1>1 DEF QuestionInv, BudgetOnRecord
  <1>6. \A x \in answers' : \E q \in Asked : x = [text |-> questions[q].text, answer |-> q]
    BY Zenon DEF QuestionInv
  <1> QED BY Zenon, <1>1, <1>2, <1>4, <1>5, <1>6 DEF QuestionInv

\* The rest of the invariant, for a step that closes the row of its request.
LEMMA RowCloses ==
  ASSUME QuestionInv, NEW r \in Asked, NEW row \in Question,
         row.text = questions[r].text, row.answer = r, Within(row),
         questions' = [questions EXCEPT ![r] = row],
         asker' = [asker EXCEPT ![r] = [pc |-> "done"]],
         answers' \in {answers, answers \cup {[text |-> questions[r].text, answer |-> r]}}
  PROVE  QuestionInv'
  <1>0. r \in Requests
    BY Zenon DEF Asked
  <1>1. questions' \in [Requests -> Question \cup {NULL}] /\ questions'[r] = row
        /\ \A q \in Requests \ {r} : questions'[q] = questions[q]
    BY Zenon, <1>0 DEF QuestionInv
  <1>2. Asked' = Asked
    <2>1. row # NULL
      BY Zenon, QuestionFacts
    <2> QED BY Zenon, <1>0, <1>1, <2>1 DEF Asked
  <1>3. \A q \in Asked : questions'[q].text = questions[q].text
    BY Zenon, <1>1 DEF Asked
  <1>4. asker' = [q \in Requests |-> asker'[q]]
    BY Zenon DEF QuestionInv
  <1>5. ASSUME NEW q \in Requests PROVE Place(q)'
    <2>1. CASE q = r
      <3>1. asker'[q].pc = "done"
        BY Zenon, <2>1, <1>0 DEF QuestionInv
      <3> QED BY Zenon, <3>1 DEF Place
    <2>2. CASE q # r
      <3>1. asker'[q] = asker[q] /\ questions'[q] = questions[q] /\ Place(q)
        BY Zenon, <2>2, <1>1, <1>0 DEF QuestionInv
      <3> QED BY <3>1, <1>2 DEF Place, Fresh
    <2> QED BY Zenon, <2>1, <2>2
  <1>6. \A q \in Asked' : questions'[q].answer \in {NULL, q}
    BY <1>1, <1>2 DEF QuestionInv, Asked
  <1>7. \A x \in answers' : \E q \in Asked' : x = [text |-> questions'[q].text, answer |-> q]
    <2>1. ASSUME NEW x \in answers' PROVE \E q \in Asked : x = [text |-> questions[q].text, answer |-> q]
      BY Zenon DEF QuestionInv
    <2> QED BY Zenon, <2>1, <1>2, <1>3
  <1>8. \A p, q \in Asked' : questions'[p].text = questions'[q].text => p = q
    BY <1>2, <1>3 DEF QuestionInv
  <1>9. BudgetOnRecord'
    <2>1. \A q \in Asked : Within(questions[q])
      BY Zenon, BudgetRows DEF QuestionInv
    <2>2. \A q \in Asked : Within(questions'[q])
      BY Zenon, <2>1, <1>1 DEF Asked
    <2> QED BY Zenon, <2>2, <1>1, <1>2, BudgetRows
  <1> QED BY Zenon, <1>1, <1>2, <1>4, <1>5, <1>6, <1>7, <1>8, <1>9 DEF QuestionInv

\* The requests start with nothing asked.
LEMMA QuestionInitInv ==
  QuestionInit => QuestionInv
  <1> SUFFICES ASSUME QuestionInit PROVE QuestionInv
    BY Zenon
  <1>1. Asked = {}
    BY Zenon DEF QuestionInit, Asked
  <1>2. \A r \in Requests : Place(r)
    BY Zenon, <1>1 DEF QuestionInit, Place, NotAsked
  <1> QED BY Zenon, <1>1, <1>2 DEF QuestionInit, QuestionInv, BudgetOnRecord

\* prepare_question inserts a question nobody has asked.
LEMMA InsertKeeps ==
  ASSUME QuestionInv, NEW r \in Requests, PrepareInsert(r)
  PROVE  QuestionInv'
  <1> DEFINE a == asker[r]
             row == NewQuestion(a.text, a.key)
  <1>1. /\ a.pc = "insert" /\ answers' = answers
        /\ r \notin Asked /\ a.text \in Texts /\ a.key \in Keys
    BY Zenon DEF PrepareInsert, QuestionInv, Place
  <1>2. CASE asker' = [asker EXCEPT ![r] = [pc |-> "done"]] /\ UNCHANGED questions
    <2>1. asker' = [asker EXCEPT ![r] = [pc |-> "done"]] /\ UNCHANGED questions
      BY Zenon, <1>2
    <2>2. Place(r)'
      <3>1. asker'[r].pc = "done"
        BY Zenon, <2>1 DEF QuestionInv
      <3> QED BY Zenon, <3>1 DEF Place
    <2> QED BY Zenon, <1>1, <2>1, <2>2, AskerMoves
  <1>3. CASE /\ Unique(a.text, a.key)
             /\ asker' = [asker EXCEPT ![r] = [pc |-> "classify"]]
             /\ questions' = [questions EXCEPT ![r] = row]
    <2>1. /\ asker' = [asker EXCEPT ![r] = [pc |-> "classify"]]
          /\ questions' = [questions EXCEPT ![r] = row]
      BY Zenon, <1>3
    <2>2. \A q \in Asked : questions[q].text # a.text
      BY Zenon, <1>3 DEF Unique, SameText
    <2>3. row \in Question /\ row.text = a.text /\ row.answer = NULL /\ Fresh(row) /\ Within(row)
      <3>1. row \in Question
        BY Zenon, <1>1 DEF NewQuestion, Question
      <3>2. row.text = a.text /\ row.answer = NULL /\ Fresh(row)
        BY Zenon DEF NewQuestion, Fresh
      <3>3. Within(row)
        BY <3>2, QuestionFacts DEF Within, Fresh
      <3> QED BY Zenon, <3>1, <3>2, <3>3
    <2> HIDE DEF row
    <2>4. /\ questions' \in [Requests -> Question \cup {NULL}] /\ questions'[r] = row
          /\ \A q \in Requests \ {r} : questions'[q] = questions[q]
      BY Zenon, <2>1, <2>3 DEF QuestionInv
    <2>5. Asked' = Asked \cup {r}
      <3>1. row # NULL
        BY Zenon, <2>3, QuestionFacts
      <3> QED BY Zenon, <2>4, <3>1 DEF Asked
    <2>6. \A q \in Asked : q # r /\ questions'[q] = questions[q]
      BY Zenon, <1>1, <2>4 DEF Asked
    <2>7. asker' = [q \in Requests |-> asker'[q]]
      BY Zenon, <2>1 DEF QuestionInv
    <2>8. ASSUME NEW q \in Requests PROVE Place(q)'
      <3>1. CASE q = r
        <4>1. asker'[q].pc = "classify"
          BY Zenon, <3>1, <2>1 DEF QuestionInv
        <4>2. q \in Asked' /\ Fresh(questions'[q])
          BY Zenon, <3>1, <2>3, <2>4, <2>5
        <4> QED BY Zenon, <4>1, <4>2 DEF Place, Fresh
      <3>2. CASE q # r
        <4>1. asker'[q] = asker[q] /\ questions'[q] = questions[q] /\ Place(q) /\ (q \in Asked' <=> q \in Asked)
          BY Zenon, <3>2, <2>1, <2>4, <2>5 DEF QuestionInv
        <4> QED BY Zenon, <4>1, <2>5 DEF Place, Fresh
      <3> QED BY Zenon, <3>1, <3>2
    <2>9. \A q \in Asked' : questions'[q].answer \in {NULL, q}
      BY Zenon, <2>3, <2>4, <2>5, <2>6 DEF QuestionInv
    <2>10. \A x \in answers' : \E q \in Asked' : x = [text |-> questions'[q].text, answer |-> q]
      <3>1. ASSUME NEW x \in answers' PROVE \E q \in Asked : x = [text |-> questions[q].text, answer |-> q]
        BY Zenon, <1>1 DEF QuestionInv
      <3> QED BY Zenon, <3>1, <2>5, <2>6
    <2>11. \A p, q \in Asked' : questions'[p].text = questions'[q].text => p = q
      BY <2>2, <2>3, <2>4, <2>5, <2>6 DEF QuestionInv
    <2>12. BudgetOnRecord'
      <3>1. \A q \in Asked : Within(questions[q])
        BY Zenon, BudgetRows DEF QuestionInv
      <3>2. \A q \in Asked' : Within(questions'[q])
        BY Zenon, <3>1, <2>3, <2>4, <2>5, <2>6
      <3> QED BY Zenon, <3>2, <2>4, BudgetRows
    <2> QED BY Zenon, <2>4, <2>7, <2>8, <2>9, <2>10, <2>11, <2>12 DEF QuestionInv
  <1> QED BY Zenon, <1>2, <1>3 DEF PrepareInsert, Leave, Turn

\* _finalize and fail_question close the row of the request that inserted it.
LEMMA CloseKeeps ==
  ASSUME QuestionInv, NEW r \in Requests, FinalizeQuestion(r) \/ FailQuestion(r)
  PROVE  QuestionInv'
  <1> DEFINE a == asker[r]
             q == questions[r]
  <1>1. /\ r \in Asked /\ Fresh(q) /\ q \in Question
        /\ Within(q) /\ q.run = "RUNNING"
    <2>1. r \in Asked /\ Fresh(q)
      BY Zenon DEF FinalizeQuestion, FailQuestion, QuestionInv, Place
    <2>2. q \in Question
      BY Zenon, <2>1 DEF QuestionInv, Asked
    <2>3. Within(q)
      BY Zenon, <2>1, BudgetRows DEF QuestionInv
    <2> QED BY Zenon, <2>1, <2>2, <2>3 DEF Fresh
  <1>2. CASE FinalizeQuestion(r)
    <2> DEFINE classified == CompleteStep(q, "classify", a.classify)
               narrated == IF a.narrate = NULL THEN classified
                           ELSE CompleteStep(classified, "narrate", a.narrate)
               row == Closed(narrated, IF a.narrate = NULL THEN "CLARIFICATION" ELSE "ANSWERED", r,
                             Ended(narrated), narrated.steps)
    <2>1. /\ questions' = [questions EXCEPT ![r] = row]
          /\ asker' = [asker EXCEPT ![r] = [pc |-> "done"]]
          /\ answers' = answers \cup {[text |-> q.text, answer |-> r]}
      BY Zenon, <1>2 DEF FinalizeQuestion, Leave, Turn
    <2>2. a.classify \in Nat /\ (a.narrate = NULL \/ a.narrate \in Nat)
      <3>1. a.classify \in Tokens /\ a.narrate \in Tokens \cup {NULL}
        BY Zenon, <1>2 DEF FinalizeQuestion, QuestionInv, Place
      <3> QED BY Zenon, <3>1, QuestionFacts
    <2>3. /\ classified \in Question /\ classified.text = q.text
          /\ classified.run \in {"RUNNING", "REQUIRES_REVIEW"} /\ Within(classified)
      <3>1. "classify" \in ModelSteps BY Zenon DEF ModelSteps
      <3> QED BY Zenon, <1>1, <2>2, <3>1, CompleteStepKeeps
    <2> HIDE DEF classified
    <2>4. /\ narrated \in Question /\ narrated.text = q.text
          /\ narrated.run \in {"RUNNING", "REQUIRES_REVIEW"} /\ Within(narrated)
      <3>1. "narrate" \in ModelSteps BY Zenon DEF ModelSteps
      <3> QED BY Zenon, <2>2, <2>3, <3>1, CompleteStepKeeps
    <2> HIDE DEF narrated
    <2>5. row \in Question /\ row.text = q.text /\ row.answer = r
      <3>1. Ended(narrated) \in {"SUCCEEDED", "REQUIRES_REVIEW"}
        BY Zenon, <2>4 DEF Ended
      <3> QED BY Zenon, <2>4, <3>1 DEF Closed, Question
    <2>6. Within(row)
      <3>1. row.used = narrated.used /\ row.taken = narrated.taken /\ row.run = Ended(narrated)
        BY Zenon DEF Closed
      <3>2. narrated.run = "REQUIRES_REVIEW" => Ended(narrated) = "REQUIRES_REVIEW"
        BY Zenon DEF Ended
      <3> HIDE DEF row
      <3> QED BY Zenon, <2>4, <3>1, <3>2 DEF Within
    <2> HIDE DEF row, q
    <2>7. row.text = questions[r].text
      BY Zenon, <2>5 DEF q
    <2> QED BY Zenon, <1>1, <2>1, <2>5, <2>6, <2>7, RowCloses DEF q
  <1>3. CASE FailQuestion(r)
    <2> DEFINE row == Closed(q, "FAILED", r, "FAILED",
                             [s \in ModelSteps |-> IF q.steps[s] = "SUCCEEDED" THEN "SUCCEEDED"
                                                   ELSE "DEAD_LETTER"])
    <2>1. /\ questions' = [questions EXCEPT ![r] = row]
          /\ asker' = [asker EXCEPT ![r] = [pc |-> "done"]]
          /\ answers' = answers
      BY Zenon, <1>3 DEF FailQuestion, Leave, Turn, QuestionInv
    <2>2. row \in Question /\ row.text = q.text /\ row.answer = r
      BY Zenon, <1>1 DEF Closed, Question
    <2>3. Within(row)
      <3>1. row.used = q.used /\ row.taken = q.taken
        BY Zenon DEF Closed
      <3>2. q.used = 0 /\ q.taken = 0
        BY Zenon, <1>1 DEF Fresh
      <3> HIDE DEF row
      <3> QED BY Zenon, <1>1, <3>1, <3>2 DEF Within
    <2> HIDE DEF row
    <2> QED BY Zenon, <1>1, <2>1, <2>2, <2>3, RowCloses
  <1> QED BY Zenon, <1>2, <1>3

\* Every step of a request keeps the invariant.
LEMMA QuestionNextInv ==
  QuestionInv /\ [QuestionNext]_questionVars => QuestionInv'
  <1> SUFFICES ASSUME QuestionInv, [QuestionNext]_questionVars PROVE QuestionInv'
    BY Zenon
  <1>1. ASSUME NEW r \in Requests, PrepareRead(r) PROVE QuestionInv'
    <2>1. asker[r].pc = "idle" /\ r \notin Asked /\ UNCHANGED <<questions, answers>>
      BY Zenon, <1>1 DEF PrepareRead, QuestionInv, Place
    <2>2. PICK text \in Texts, key \in Keys :
            \/ /\ SameText(text) # {}
               /\ asker' = [asker EXCEPT ![r] =
                      [pc |-> "replay", question |-> CHOOSE q \in SameText(text) : TRUE]]
            \/ asker' = [asker EXCEPT ![r] = [pc |-> "done"]]
            \/ asker' = [asker EXCEPT ![r] =
                      [pc |-> "insert", text |-> text, key |-> key, first |-> Asked = {}]]
      BY Zenon, <1>1 DEF PrepareRead, Turn, Leave
    <2>3. Asked' = Asked
      BY Zenon, <2>1 DEF Asked
    <2>4. CASE /\ SameText(text) # {}
               /\ asker' = [asker EXCEPT ![r] =
                      [pc |-> "replay", question |-> CHOOSE q \in SameText(text) : TRUE]]
      <3> DEFINE found == CHOOSE q \in SameText(text) : TRUE
      <3>1. found \in Asked
        BY Zenon, <2>4 DEF SameText
      <3> HIDE DEF found
      <3>2. asker' = [asker EXCEPT ![r] = [pc |-> "replay", question |-> found]]
        BY Zenon, <2>4 DEF found
      <3>3. asker'[r].pc = "replay" /\ asker'[r].question = found
        BY Zenon, <3>2 DEF QuestionInv
      <3>4. Place(r)'
        BY Zenon, <2>1, <2>3, <3>1, <3>3 DEF Place
      <3> QED BY Zenon, <2>1, <3>2, <3>4, AskerMoves
    <2>5. CASE asker' = [asker EXCEPT ![r] = [pc |-> "done"]]
      <3>1. asker'[r].pc = "done"
        BY Zenon, <2>5 DEF QuestionInv
      <3>2. Place(r)'
        BY Zenon, <3>1 DEF Place
      <3> QED BY Zenon, <2>1, <2>5, <3>2, AskerMoves
    <2>6. CASE asker' = [asker EXCEPT ![r] =
                      [pc |-> "insert", text |-> text, key |-> key, first |-> Asked = {}]]
      <3>1. asker'[r].pc = "insert" /\ asker'[r].text = text /\ asker'[r].key = key
        BY Zenon, <2>6 DEF QuestionInv
      <3>2. Place(r)'
        BY Zenon, <2>1, <2>3, <3>1 DEF Place
      <3> QED BY Zenon, <2>1, <2>6, <3>2, AskerMoves
    <2> QED BY Zenon, <2>2, <2>4, <2>5, <2>6
  <1>2. ASSUME NEW r \in Requests, Replay(r) PROVE QuestionInv'
    <2> DEFINE found == asker[r].question
    <2>1. /\ found \in Asked /\ UNCHANGED questions
          /\ asker' = [asker EXCEPT ![r] = [pc |-> "done"]]
      BY Zenon, <1>2 DEF Replay, Leave, Turn, QuestionInv, Place
    <2>2. answers' = IF questions[found].answer = NULL THEN answers
                     ELSE answers \cup {[text |-> questions[found].text, answer |-> questions[found].answer]}
      BY Zenon, <1>2 DEF Replay
    <2>3. questions[found].answer \in {NULL, found}
      BY Zenon, <2>1 DEF QuestionInv
    <2> HIDE DEF found
    <2>4. \A x \in answers' : x \in answers \/ \E q \in Asked : x = [text |-> questions[q].text, answer |-> q]
      BY Zenon, <2>1, <2>2, <2>3
    <2>5. asker'[r].pc = "done"
      BY Zenon, <2>1 DEF QuestionInv
    <2>6. Place(r)'
      BY Zenon, <2>5 DEF Place
    <2> QED BY Zenon, <2>1, <2>4, <2>6, AskerMoves
  <1>3. ASSUME NEW r \in Requests, Classify(r) \/ Narrate(r) PROVE QuestionInv'
    <2>1. /\ UNCHANGED <<questions, answers>> /\ r \in Asked /\ Fresh(questions[r])
          /\ asker[r].pc = "narrate" => asker[r].classify \in Tokens
      BY Zenon, <1>3 DEF Classify, Narrate, QuestionInv, Place
    <2> DEFINE Values == [pc : {"narrate"}, classify : Tokens]
                         \cup [pc : {"finalize"}, classify : Tokens, narrate : Tokens \cup {NULL}]
                         \cup [pc : {"fail"}]
    <2>2. \E value \in Values : asker' = [asker EXCEPT ![r] = value]
      <3>1. CASE Classify(r)
        <4>1. PICK spent \in Tokens :
                 \/ asker' = [asker EXCEPT ![r] = [pc |-> "narrate", classify |-> spent]]
                 \/ asker' = [asker EXCEPT ![r] = [pc |-> "finalize", classify |-> spent, narrate |-> NULL]]
                 \/ asker' = [asker EXCEPT ![r] = [pc |-> "fail"]]
          BY Zenon, <3>1 DEF Classify, Turn
        <4>2. /\ [pc |-> "narrate", classify |-> spent] \in Values
              /\ [pc |-> "finalize", classify |-> spent, narrate |-> NULL] \in Values
              /\ [pc |-> "fail"] \in Values
          BY Zenon
        <4> QED BY Zenon, <4>1, <4>2
      <3>2. CASE Narrate(r)
        <4>1. \/ \E spent \in Tokens : asker' = [asker EXCEPT ![r] =
                      [pc |-> "finalize", classify |-> asker[r].classify, narrate |-> spent]]
              \/ asker' = [asker EXCEPT ![r] = [pc |-> "fail"]]
          BY Zenon, <3>2 DEF Narrate, Turn
        <4>2. /\ \A spent \in Tokens :
                     [pc |-> "finalize", classify |-> asker[r].classify, narrate |-> spent] \in Values
              /\ [pc |-> "fail"] \in Values
          BY Zenon, <2>1, <3>2 DEF Narrate
        <4> QED BY Zenon, <4>1, <4>2
      <3> QED BY Zenon, <1>3, <3>1, <3>2
    <2>3. PICK value \in Values : asker' = [asker EXCEPT ![r] = value]
      BY Zenon, <2>2
    <2>4. asker'[r] = value /\ Asked' = Asked /\ questions' = questions
      BY Zenon, <2>1, <2>3 DEF QuestionInv, Asked
    <2>5. Place(r)'
      BY Zenon, <2>1, <2>3, <2>4 DEF Place, Fresh
    <2> QED BY Zenon, <2>1, <2>3, <2>5, AskerMoves
  <1>4. ASSUME NEW r \in Requests, ModelRaises(r) \/ AskerDies(r) PROVE QuestionInv'
    <2>1. /\ UNCHANGED <<questions, answers>>
          /\ \/ asker' = [asker EXCEPT ![r] = [pc |-> "lost"]]
             \/ asker' = [asker EXCEPT ![r] = [pc |-> "fail"]] /\ asker[r].pc = "classify"
      BY Zenon, <1>4 DEF ModelRaises, AskerDies, AfterRaise, Turn, Lose
    <2>2. \/ asker'[r].pc = "lost"
          \/ asker'[r].pc = "fail" /\ asker[r].pc = "classify"
      BY <2>1 DEF QuestionInv
    <2>3. Asked' = Asked /\ questions' = questions
      BY Zenon, <2>1 DEF Asked
    <2>4. asker[r].pc = "classify" => r \in Asked /\ Fresh(questions[r])
      BY Zenon DEF QuestionInv, Place
    <2>5. Place(r)'
      BY Zenon, <2>2, <2>3, <2>4 DEF Place, Fresh
    <2> QED BY Zenon, <2>1, <2>5, AskerMoves
  <1>5. CASE UNCHANGED questionVars
    <2>1. UNCHANGED <<questions, asker, answers>>
      BY Zenon, <1>5 DEF questionVars
    <2> QED BY Zenon, <2>1 DEF QuestionInv, Place, Fresh, Asked, BudgetOnRecord
  <1> QED BY Zenon, <1>1, <1>2, <1>3, <1>4, <1>5, InsertKeeps, CloseKeeps DEF QuestionNext, Proceed

\* Rows, requests and answers fit together in every reachable state of
\* answer_question's requests.
THEOREM QuestionInvariance ==
  QuestionSpec => []QuestionInv
  BY QuestionInitInv, QuestionNextInv, PTL DEF QuestionSpec

\* However many requests ask, overlap and die, all who ask one question get one
\* answer, and a run whose model calls went over its budget ends in review, not
\* in success (prepare_question, _complete_step, _finalize).
THEOREM AnswerPromiseTheorem ==
  QuestionSpec => []AnswerPromise
  <1>1. QuestionInv => AnswerPromise
    <2> SUFFICES ASSUME QuestionInv PROVE AnswerPromise
      BY Zenon
    <2>1. ASSUME NEW x \in answers, NEW y \in answers, x.text = y.text PROVE x = y
      <3>1. PICK q \in Asked : x = [text |-> questions[q].text, answer |-> q]
        BY Zenon DEF QuestionInv
      <3>2. PICK r \in Asked : y = [text |-> questions[r].text, answer |-> r]
        BY Zenon DEF QuestionInv
      <3>3. questions[q].text = questions[r].text
        BY Zenon, <2>1, <3>1, <3>2
      <3>4. q = r
        BY Zenon, <3>3 DEF QuestionInv
      <3> QED BY Zenon, <3>1, <3>2, <3>4
    <2> QED BY Zenon, <2>1 DEF AnswerPromise, AnswersAgree, QuestionInv
  <1> QED BY <1>1, QuestionInvariance, PTL

-----------------------------------------------------------------------------
(* The response to a dispute.                                              *)

\* The places of a request.
Places == {"idle", "edit", "freeze", "decide", "call", "record", "write"}

\* What a request does to its own place and job, and to nobody else's.
Moves(c, place, value) ==
    /\ pc' = [pc EXCEPT ![c] = place]
    /\ job' = [job EXCEPT ![c] = value]

\* No attempt and no result of the network is taken back.
Grows ==
    \A p \in Drafts : /\ attempt[p] # Unset => attempt'[p] # Unset
                      /\ network[p] # Unset => network'[p] = network[p]

\* A move changes one request.
LEMMA MoveFacts ==
  ASSUME DisputeTypes, NEW c \in Clients, NEW place \in Places, NEW value \in Jobs, Moves(c, place, value)
  PROVE  /\ pc' \in [Clients -> Places] /\ job' \in [Clients -> Jobs]
         /\ pc'[c] = place /\ job'[c] = value
         /\ \A d \in Clients \ {c} : pc'[d] = pc[d] /\ job'[d] = job[d]
  BY DEF DisputeTypes, Moves, Places

\* What the other requests carry stays true.
LEMMA OthersCarry ==
  ASSUME DisputeInv, NEW c \in Clients, NEW place \in Places, NEW value \in Jobs, Moves(c, place, value), Grows,
         Carried(c)'
  PROVE  \A d \in Clients : Carried(d)'
  <1> SUFFICES ASSUME NEW d \in Clients, d # c PROVE Carried(d)'
    BY Zenon
  <1>1. pc'[d] = pc[d] /\ job'[d] = job[d] /\ job[d] \in Jobs /\ Carried(d)
    BY MoveFacts DEF DisputeInv, DisputeTypes
  <1>2. job[d].observed \in {Unset, "SUCCEEDED", "FAILED", "UNKNOWN"}
    BY Zenon, <1>1 DEF Jobs
  <1>3. pc[d] \in {"call", "record", "write"} => job[d].draft \in Drafts /\ attempt'[job[d].draft] # Unset
    BY Zenon, <1>1 DEF Grows, Carried
  <1>4. ASSUME pc[d] \in {"record", "write"}, job[d].observed # "UNKNOWN"
        PROVE  network'[job[d].draft] = job[d].observed
    <2>1. network[job[d].draft] = job[d].observed /\ job[d].observed # Unset /\ job[d].draft \in Drafts
      BY Zenon, <1>1, <1>4 DEF Carried
    <2> QED BY Zenon, <2>1 DEF Grows
  <1> QED BY Zenon, <1>1, <1>3, <1>4 DEF Carried

\* A request that is not about to send leaves the right to send where it is.
LEMMA SendersStay ==
  ASSUME DisputeInv, NEW c \in Clients, NEW place \in Places, NEW value \in Jobs, Moves(c, place, value),
         place # "call" \/ ~value.mutates, UNCHANGED sends
  PROVE  OneSender'
  <1>1. \A p \in Drafts : ~Sending(c, p)'
    BY Zenon, MoveFacts DEF DisputeInv, Sending
  <1>2. \A d \in Clients \ {c}, p \in Drafts : Sending(d, p)' <=> Sending(d, p)
    BY MoveFacts DEF DisputeInv, Sending
  <1>3. /\ \A d, e \in Clients, p \in Drafts : Sending(d, p) /\ Sending(e, p) => d = e
        /\ \A d \in Clients, p \in Drafts : Sending(d, p) => sends[p] = 0
    BY Zenon DEF DisputeInv, OneSender
  <1>4. /\ \A d, e \in Clients, p \in Drafts : Sending(d, p)' /\ Sending(e, p)' => d = e
        /\ \A d \in Clients, p \in Drafts : Sending(d, p)' => sends'[p] = 0
    BY Zenon, <1>1, <1>2, <1>3
  <1> QED BY Zenon, <1>4 DEF OneSender

\* A request that ends leaves what it carried behind.
LEMMA DoneCarries ==
  ASSUME DisputeInv, NEW c \in Clients, Done(c)
  PROVE  /\ NoJob \in Jobs /\ "idle" \in Places /\ Moves(c, "idle", NoJob)
         /\ pc' \in [Clients -> Places] /\ job' \in [Clients -> Jobs]
         /\ Carried(c)'
  <1>1. NoJob \in Jobs /\ "idle" \in Places /\ Moves(c, "idle", NoJob)
    <2>1. 0 \in 0 .. MaxDrafts
      BY DisputeAssumption
    <2>2. NoJob \in Jobs
      BY Zenon, <2>1 DEF NoJob, Job, Jobs
    <2> QED BY Zenon, <2>2 DEF Done, Goto, Moves, Places
  <1>2. pc' \in [Clients -> Places] /\ job' \in [Clients -> Jobs] /\ pc'[c] = "idle"
    BY Zenon, <1>1, MoveFacts DEF DisputeInv
  <1> QED BY Zenon, <1>1, <1>2 DEF Carried

\* A step that changes no row keeps the invariant if the request may carry on.
LEMMA QuietStep ==
  ASSUME DisputeInv, NEW c \in Clients, NEW place \in Places, NEW value \in Jobs, Moves(c, place, value),
         place # "call" \/ ~value.mutates, Carried(c)',
         UNCHANGED <<case, latest, package, request, decision, attempt, network, sends>>
  PROVE  DisputeInv'
  <1>1. DisputeTypes'
    BY MoveFacts DEF DisputeInv, DisputeTypes, Places
  <1>2. \A d \in Clients : Carried(d)'
    <2>1. Grows
      BY Zenon DEF Grows
    <2> QED BY Zenon, <2>1, OthersCarry
  <1>3. OneSender'
    BY Zenon, SendersStay
  <1>4. OneAttempt' /\ ApprovedFirst' /\ SubmittedIsTrue'
    BY Zenon DEF DisputeInv, OneAttempt, ApprovedFirst, SubmittedIsTrue
  <1> QED BY Zenon, <1>1, <1>2, <1>3, <1>4 DEF DisputeInv

\* A step that ends its request and changes no attempt, no result and no call
\* keeps the invariant if it keeps what it writes.
LEMMA WriteStep ==
  ASSUME DisputeInv, NEW c \in Clients, Done(c), UNCHANGED <<attempt, network, sends>>,
         latest' \in 0 .. MaxDrafts,
         package' \in [Drafts -> {Unset, "FROZEN", "APPROVED", "SUBMITTED", "INVALIDATED"}],
         request' \in [Drafts -> {Unset, "PENDING", "APPROVED", "REJECTED", "INVALIDATED"}],
         decision' \in [Drafts -> {Unset, "APPROVED", "REJECTED"}],
         ApprovedFirst', SubmittedIsTrue'
  PROVE  DisputeInv'
  <1>1. DisputeTypes'
    BY Zenon, DoneCarries DEF DisputeInv, DisputeTypes, Places
  <1>2. \A d \in Clients : Carried(d)'
    <2>1. Grows
      BY Zenon DEF Grows
    <2> QED BY Zenon, <2>1, DoneCarries, OthersCarry
  <1>3. OneSender'
    <2>1. "idle" # "call"
      BY Zenon
    <2> QED BY Zenon, <2>1, DoneCarries, SendersStay
  <1>4. OneAttempt'
    BY Zenon DEF DisputeInv, OneAttempt
  <1> QED BY Zenon, <1>1, <1>2, <1>3, <1>4 DEF DisputeInv

\* The reads of a request: what it saw is what it carries.
LEMMA ReadsKeep ==
  ASSUME DisputeInv, NEW c \in Clients,
         \/ EditRead(c) \/ FreezeRead(c)
         \/ \E p \in Drafts, verdict \in {"APPROVED", "REJECTED"} : DecideRead(c, p, verdict)
  PROVE  DisputeInv'
  <1>0. latest \in 0 .. MaxDrafts /\ MaxDrafts \in Nat /\ Drafts = 1 .. MaxDrafts
    BY Zenon, DisputeAssumption DEF DisputeInv, DisputeTypes, Drafts
  <1>1. CASE EditRead(c)
    <2> DEFINE value == Job(latest, {}, Unset, FALSE)
    <2>1. value \in Jobs /\ value.draft = latest /\ latest < MaxDrafts
      BY Zenon, <1>0, <1>1 DEF EditRead, Job, Jobs
    <2>2. /\ Moves(c, "edit", value) /\ "edit" \in Places
          /\ UNCHANGED <<case, latest, package, request, decision, attempt, network, sends>>
      BY Zenon, <1>1 DEF EditRead, Moves, Goto, Places, drafts, approval
    <2> HIDE DEF value
    <2>3. Carried(c)'
      <3>1. pc'[c] = "edit" /\ job'[c] = value
        BY <2>1, <2>2, MoveFacts DEF DisputeInv
      <3> QED BY Zenon, <2>1, <3>1 DEF Carried
    <2> QED BY Zenon, <2>1, <2>2, <2>3, QuietStep
  <1>2. CASE FreezeRead(c)
    <2> DEFINE value == Job(latest, Existing, Unset, FALSE)
    <2>1. value \in Jobs /\ value.draft = latest /\ latest \in Drafts
      <3>1. latest \in Drafts /\ Existing \in SUBSET Drafts
        BY <1>0, <1>2 DEF FreezeRead, Existing
      <3> QED BY Zenon, <1>0, <3>1 DEF Job, Jobs
    <2>2. /\ Moves(c, "freeze", value) /\ "freeze" \in Places
          /\ UNCHANGED <<case, latest, package, request, decision, attempt, network, sends>>
      BY Zenon, <1>2 DEF FreezeRead, Moves, Goto, Places, drafts, approval
    <2> HIDE DEF value
    <2>3. Carried(c)'
      <3>1. pc'[c] = "freeze" /\ job'[c] = value
        BY <2>1, <2>2, MoveFacts DEF DisputeInv
      <3> QED BY Zenon, <2>1, <3>1 DEF Carried
    <2> QED BY Zenon, <2>1, <2>2, <2>3, QuietStep
  <1>3. CASE \E p \in Drafts, verdict \in {"APPROVED", "REJECTED"} : DecideRead(c, p, verdict)
    <2>0. PICK p \in Drafts, verdict \in {"APPROVED", "REJECTED"} : DecideRead(c, p, verdict)
      BY Zenon, <1>3
    <2> DEFINE value == Job(p, {}, verdict, FALSE)
    <2>1. value \in Jobs /\ value.draft = p /\ value.decision = verdict /\ verdict # Unset
      <3>1. p \in 0 .. MaxDrafts /\ verdict # Unset
        BY <1>0, DisputeAssumption
      <3> QED BY Zenon, <3>1 DEF Job, Jobs
    <2>2. /\ Moves(c, "decide", value) /\ "decide" \in Places
          /\ UNCHANGED <<case, latest, package, request, decision, attempt, network, sends>>
      BY Zenon, <2>0 DEF DecideRead, Moves, Goto, Places, drafts, approval
    <2> HIDE DEF value
    <2>3. Carried(c)'
      <3>1. pc'[c] = "decide" /\ job'[c] = value
        BY <2>1, <2>2, MoveFacts DEF DisputeInv
      <3> QED BY Zenon, <2>1, <3>1 DEF Carried
    <2> QED BY Zenon, <2>1, <2>2, <2>3, QuietStep
  <1> QED BY Zenon, <1>1, <1>2, <1>3

\* create_draft, freeze_draft and decide_approval keep approvals and decisions in step.
LEMMA WritesKeep ==
  ASSUME DisputeInv, NEW c \in Clients, CreateDraft(c) \/ FreezeDraft(c) \/ DecideApproval(c)
  PROVE  DisputeInv'
  <1> DEFINE p == job[c].draft
  <1>0. /\ latest \in 0 .. MaxDrafts /\ MaxDrafts \in Nat
        /\ job[c] \in Jobs /\ p \in 0 .. MaxDrafts /\ Carried(c)
        /\ package \in [Drafts -> {Unset, "FROZEN", "APPROVED", "SUBMITTED", "INVALIDATED"}]
        /\ request \in [Drafts -> {Unset, "PENDING", "APPROVED", "REJECTED", "INVALIDATED"}]
        /\ decision \in [Drafts -> {Unset, "APPROVED", "REJECTED"}]
        /\ ApprovedFirst /\ SubmittedIsTrue
    BY Zenon, DisputeAssumption DEF DisputeInv, DisputeTypes, Jobs
  <1>1. CASE CreateDraft(c)
    <2>1. Done(c) /\ UNCHANGED <<decision, attempt, network, sends>>
      BY Zenon, <1>1 DEF CreateDraft
    <2>2. CASE latest # p
      <3>1. UNCHANGED <<case, latest, package, request>>
        BY Zenon, <1>1, <2>2 DEF CreateDraft, drafts
      <3>2. ApprovedFirst' /\ SubmittedIsTrue'
        BY Zenon, <1>0, <2>1, <3>1 DEF ApprovedFirst, SubmittedIsTrue
      <3> QED BY Zenon, <1>0, <2>1, <3>1, <3>2, WriteStep
    <2>3. CASE latest = p
      <3>1. /\ latest' = latest + 1 /\ case' = "DRAFTED"
            /\ package' = [q \in Drafts |-> IF latest > 0 /\ Invalidates(package[q])
                                            THEN "INVALIDATED" ELSE package[q]]
            /\ request' = [q \in Drafts |-> IF latest > 0 /\ q \in Existing
                                               /\ request[q] \in {"PENDING", "APPROVED"}
                                            THEN "INVALIDATED" ELSE request[q]]
        BY Zenon, <1>1, <2>3 DEF CreateDraft
      <3>2. latest' \in 0 .. MaxDrafts
        BY <1>0, <1>1, <2>3, <3>1 DEF CreateDraft, Carried
      <3>3. /\ package' \in [Drafts -> {Unset, "FROZEN", "APPROVED", "SUBMITTED", "INVALIDATED"}]
            /\ request' \in [Drafts -> {Unset, "PENDING", "APPROVED", "REJECTED", "INVALIDATED"}]
            /\ \A q \in Drafts : package'[q] \in {package[q], "INVALIDATED"}
            /\ \A q \in Drafts : request'[q] \in {request[q], "INVALIDATED"}
        BY Zenon, <1>0, <3>1
      <3>4. ApprovedFirst'
        BY Zenon, <1>0, <2>1, <3>3 DEF ApprovedFirst
      <3>5. SubmittedIsTrue'
        BY Zenon, <1>0, <2>1, <3>1, <3>3 DEF SubmittedIsTrue
      <3> QED BY Zenon, <1>0, <2>1, <3>2, <3>3, <3>4, <3>5, WriteStep
    <2> QED BY Zenon, <2>2, <2>3
  <1>2. CASE FreezeDraft(c)
    <2>1. Done(c) /\ UNCHANGED <<latest, decision, attempt, network, sends>> /\ p \in Drafts
      BY Zenon, <1>0, <1>2 DEF FreezeDraft, Carried
    <2>2. CASE UNCHANGED <<case, package, request>>
      <3>2. ApprovedFirst' /\ SubmittedIsTrue'
        BY Zenon, <1>0, <2>1, <2>2 DEF ApprovedFirst, SubmittedIsTrue
      <3> QED BY Zenon, <1>0, <2>1, <2>2, <3>2, WriteStep
    <2>3. CASE /\ package' = [package EXCEPT ![p] = "FROZEN"]
               /\ request' = [request EXCEPT ![p] = "PENDING"]
               /\ case' = "WAITING_FOR_APPROVAL"
      <3>1. /\ package' \in [Drafts -> {Unset, "FROZEN", "APPROVED", "SUBMITTED", "INVALIDATED"}]
            /\ request' \in [Drafts -> {Unset, "PENDING", "APPROVED", "REJECTED", "INVALIDATED"}]
            /\ \A q \in Drafts : package'[q] \in {package[q], "FROZEN"}
            /\ \A q \in Drafts : request'[q] \in {request[q], "PENDING"}
        BY Zenon, <1>0, <2>1, <2>3
      <3>4. ApprovedFirst'
        BY Zenon, <1>0, <2>1, <3>1 DEF ApprovedFirst
      <3>5. SubmittedIsTrue'
        BY <1>0, <2>1, <2>3, <3>1 DEF SubmittedIsTrue
      <3> QED BY Zenon, <1>0, <2>1, <3>1, <3>4, <3>5, WriteStep
    <2> QED BY Zenon, <1>2, <2>2, <2>3 DEF FreezeDraft
  <1>3. CASE DecideApproval(c)
    <2>1. /\ Done(c) /\ UNCHANGED <<latest, attempt, network, sends>> /\ p \in Drafts
          /\ job[c].decision \in {"APPROVED", "REJECTED"}
      BY Zenon, <1>0, <1>3 DEF DecideApproval, Carried, Jobs
    <2>2. CASE UNCHANGED <<case, package, request, decision>>
      <3>2. ApprovedFirst' /\ SubmittedIsTrue'
        BY Zenon, <1>0, <2>1, <2>2 DEF ApprovedFirst, SubmittedIsTrue
      <3> QED BY Zenon, <1>0, <2>1, <2>2, <3>2, WriteStep
    <2>3. CASE /\ Undecided(p)
               /\ decision' = [decision EXCEPT ![p] = job[c].decision]
               /\ request' = [request EXCEPT ![p] = job[c].decision]
               /\ IF Approves(p, job[c].decision)
                  THEN package' = [package EXCEPT ![p] = "APPROVED"] /\ case' = "APPROVED"
                  ELSE UNCHANGED <<case, package>>
      <3>1. /\ decision' \in [Drafts -> {Unset, "APPROVED", "REJECTED"}]
            /\ request' \in [Drafts -> {Unset, "PENDING", "APPROVED", "REJECTED", "INVALIDATED"}]
            /\ decision'[p] = job[c].decision /\ request'[p] = job[c].decision
            /\ \A q \in Drafts \ {p} : decision'[q] = decision[q] /\ request'[q] = request[q]
        BY Zenon, <1>0, <2>1, <2>3
      <3>2. /\ package' \in [Drafts -> {Unset, "FROZEN", "APPROVED", "SUBMITTED", "INVALIDATED"}]
            /\ \A q \in Drafts \ {p} : package'[q] = package[q]
            /\ \/ package'[p] = package[p] /\ case' = case
               \/ package'[p] = "APPROVED" /\ job[c].decision = "APPROVED" /\ case' = "APPROVED"
        BY Zenon, <1>0, <2>1, <2>3 DEF Approves
      <3>3. attempt[p] = Unset /\ package[p] \notin {"APPROVED", "SUBMITTED"}
        BY Zenon, <1>0, <2>1, <2>3, DisputeAssumption DEF Undecided, ApprovedFirst
      <3>4. ApprovedFirst'
        BY <1>0, <2>1, <3>1, <3>2, <3>3 DEF ApprovedFirst
      <3>5. SubmittedIsTrue'
        BY <1>0, <2>1, <3>2 DEF SubmittedIsTrue
      <3> QED BY Zenon, <1>0, <2>1, <3>1, <3>2, <3>4, <3>5, WriteStep
    <2> QED BY Zenon, <1>3, <2>2, <2>3 DEF DecideApproval, approval
  <1> QED BY Zenon, <1>1, <1>2, <1>3

\* The first transaction of submit_approved_package gives the right to send to
\* one request, for an approved package.
LEMMA BeginKeeps ==
  ASSUME DisputeInv, NEW c \in Clients, NEW p \in Drafts, SubmitBegin(c, p)
  PROVE  DisputeInv'
  <1> DEFINE value == Job(p, {}, Unset, Sends(p))
  <1>0. /\ DisputeTypes /\ OneSender /\ OneAttempt /\ ApprovedFirst /\ SubmittedIsTrue
        /\ attempt \in [Drafts -> {Unset, "SENT", "SUCCEEDED", "FAILED", "AMBIGUOUS"}]
        /\ sends \in [Drafts -> {0, 1}]
    BY Zenon DEF DisputeInv, DisputeTypes
  <1>1. value \in Jobs /\ value.draft = p /\ value.mutates = Sends(p) /\ "call" \in Places
    <2>1. p \in 0 .. MaxDrafts /\ Sends(p) \in BOOLEAN
      BY DisputeAssumption DEF Drafts, Sends
    <2> QED BY Zenon, <2>1 DEF Job, Jobs, Places
  <1>2. /\ Moves(c, "call", value) /\ pc[c] = "idle"
        /\ UNCHANGED <<latest, package, request, decision, network, sends>>
        /\ package[p] \in {"APPROVED", "SUBMITTED"}
    BY Zenon DEF SubmitBegin, Moves, Goto, approval
  <1> HIDE DEF value
  <1>3. pc'[c] = "call" /\ job'[c] = value
    BY Zenon, <1>0, <1>1, <1>2, MoveFacts
  <1>4. CASE ~Sends(p)
    <2>1. UNCHANGED <<attempt, case>> /\ attempt[p] # Unset
      BY Zenon, <1>4 DEF SubmitBegin, Sends
    <2>2. Carried(c)'
      BY Zenon, <1>1, <1>3, <2>1 DEF Carried
    <2>3. ~value.mutates
      BY Zenon, <1>1, <1>4
    <2> QED BY Zenon, <1>1, <1>2, <2>1, <2>2, <2>3, QuietStep
  <1>5. CASE Sends(p)
    <2>1. /\ attempt' = [attempt EXCEPT ![p] = "SENT"] /\ case' = "SUBMITTING"
          /\ \A q \in Drafts : attempt[q] = Unset
      BY Zenon, <1>5 DEF SubmitBegin, Sends
    <2>2. /\ attempt' \in [Drafts -> {Unset, "SENT", "SUCCEEDED", "FAILED", "AMBIGUOUS"}]
          /\ attempt'[p] = "SENT" /\ \A q \in Drafts \ {p} : attempt'[q] = Unset
          /\ "SENT" # Unset
      BY Zenon, <1>0, <2>1, DisputeAssumption
    <2>3. Carried(c)'
      BY Zenon, <1>1, <1>3, <2>2 DEF Carried
    <2>4. \A d \in Clients : Carried(d)'
      <3>1. Grows
        BY Zenon, <1>2, <2>1 DEF Grows
      <3> QED BY Zenon, <1>1, <1>2, <2>3, <3>1, OthersCarry
    <2>5. \A q \in Drafts : sends[q] = 0
      BY Zenon, <1>0, <2>1 DEF OneAttempt
    <2>6. \A d \in Clients, q \in Drafts : ~Sending(d, q)
      BY Zenon, <2>1 DEF DisputeInv, Sending, Carried
    <2>7. \A d \in Clients \ {c}, q \in Drafts : ~Sending(d, q)'
      BY <1>0, <1>1, <1>2, <2>6, MoveFacts DEF Sending
    <2>8. OneSender'
      <3>1. \A d, e \in Clients, q \in Drafts : Sending(d, q)' /\ Sending(e, q)' => d = e
        BY Zenon, <2>7
      <3>2. \A d \in Clients, q \in Drafts : Sending(d, q)' => sends'[q] = 0
        BY Zenon, <1>2, <2>5
      <3> QED BY Zenon, <3>1, <3>2 DEF OneSender
    <2>9. OneAttempt'
      BY <1>2, <2>2, <2>5 DEF OneAttempt
    <2>10. ApprovedFirst'
      BY Zenon, <1>0, <1>2, <2>2 DEF ApprovedFirst
    <2>11. SubmittedIsTrue'
      BY Zenon, <1>0, <1>2, <2>1 DEF SubmittedIsTrue
    <2>12. DisputeTypes'
      BY Zenon, <1>0, <1>1, <1>2, <2>2, MoveFacts DEF DisputeTypes, Places
    <2> QED BY Zenon, <2>4, <2>8, <2>9, <2>10, <2>11, <2>12 DEF DisputeInv
  <1> QED BY Zenon, <1>4, <1>5

\* The answer of a request's call is noted in its job.
LEMMA ObserveFacts ==
  ASSUME DisputeTypes, NEW c \in Clients, NEW result \in {"SUCCEEDED", "FAILED", "UNKNOWN"}
  PROVE  LET value == [job[c] EXCEPT !.observed = result]
         IN  /\ value \in Jobs /\ value.draft = job[c].draft /\ value.mutates = job[c].mutates
             /\ value.observed = result
             /\ job' = [job EXCEPT ![c].observed = result] => job' = [job EXCEPT ![c] = value]
  <1>1. job[c] \in Jobs
    BY Zenon DEF DisputeTypes
  <1> QED BY Zenon, <1>1 DEF Jobs

\* A request that has called the network has no right to send, nor has anybody
\* else for its package.
LEMMA SentOnceMore ==
  ASSUME DisputeInv, NEW c \in Clients, NEW place \in Places, NEW value \in Jobs, Moves(c, place, value),
         place # "call", NEW p \in Drafts, Sending(c, p), sends' = [sends EXCEPT ![p] = @ + 1],
         UNCHANGED attempt
  PROVE  /\ sends' \in [Drafts -> {0, 1}]
         /\ OneSender' /\ OneAttempt'
  <1>1. /\ sends \in [Drafts -> {0, 1}] /\ sends[p] = 0
    BY Zenon DEF DisputeInv, DisputeTypes, OneSender
  <1>2. sends' \in [Drafts -> {0, 1}] /\ \A q \in Drafts \ {p} : sends'[q] = sends[q]
    BY <1>1
  <1>3. \A q \in Drafts : ~Sending(c, q)'
    BY Zenon, MoveFacts DEF DisputeInv, Sending
  <1>4. \A d \in Clients \ {c}, q \in Drafts : Sending(d, q)' <=> Sending(d, q)
    BY MoveFacts DEF DisputeInv, Sending
  <1>5. /\ \A d, e \in Clients, q \in Drafts : Sending(d, q) /\ Sending(e, q) => d = e
        /\ \A d \in Clients, q \in Drafts : Sending(d, q) => sends[q] = 0
    BY Zenon DEF DisputeInv, OneSender
  <1>6. /\ \A d, e \in Clients, q \in Drafts : Sending(d, q)' /\ Sending(e, q)' => d = e
        /\ \A d \in Clients, q \in Drafts : Sending(d, q)' => sends'[q] = 0
    <2>1. \A d \in Clients \ {c} : ~Sending(d, p)
      BY Zenon, <1>5
    <2>2. \A d \in Clients, q \in Drafts : Sending(d, q)' => q # p
      BY Zenon, <1>3, <1>4, <2>1
    <2> QED BY Zenon, <1>2, <1>3, <1>4, <1>5, <2>2
  <1>7. OneAttempt'
    <2>1. attempt[p] # Unset
      BY Zenon DEF DisputeInv, Sending, Carried
    <2>2. /\ \A q \in Drafts : sends[q] = 1 => attempt[q] # Unset
          /\ \A q, r \in Drafts : attempt[q] # Unset /\ attempt[r] # Unset => q = r
      BY Zenon DEF DisputeInv, OneAttempt
    <2>3. \A q \in Drafts : sends'[q] = 1 => attempt'[q] # Unset
      BY Zenon, <1>2, <2>1, <2>2
    <2> QED BY Zenon, <2>2, <2>3 DEF OneAttempt
  <1> QED BY Zenon, <1>2, <1>6, <1>7 DEF OneSender

\* The network's answer, or its loss, ends the right to send.
LEMMA CallsKeep ==
  ASSUME DisputeInv, NEW c \in Clients, CallNetwork(c) \/ LoseCall(c)
  PROVE  DisputeInv'
  <1> DEFINE p == job[c].draft
  <1>0. /\ DisputeTypes /\ OneSender /\ OneAttempt /\ ApprovedFirst /\ SubmittedIsTrue /\ Carried(c)
        /\ job[c] \in Jobs /\ p \in Drafts /\ attempt[p] # Unset /\ "record" \in Places /\ "idle" \in Places
        /\ network \in [Drafts -> {Unset, "SUCCEEDED", "FAILED"}] /\ sends \in [Drafts -> {0, 1}]
        /\ pc[c] \in {"call", "record"}
    BY Zenon DEF DisputeInv, DisputeTypes, CallNetwork, LoseCall, Carried, Places
  <1>1. /\ UNCHANGED <<case, latest, package, request, decision, attempt>>
    BY Zenon DEF CallNetwork, LoseCall, drafts, approval
  <1>2. \E place \in {"record", "idle"}, value \in Jobs :
           /\ Moves(c, place, value)
           /\ place = "record" => /\ value.draft = p
                                  /\ \/ value.observed = "UNKNOWN"
                                     \/ value.observed \in {"SUCCEEDED", "FAILED"} /\ network'[p] = value.observed
    <2>1. CASE CallNetwork(c)
      <3>1. \E result \in {"SUCCEEDED", "FAILED", "UNKNOWN"} :
               /\ job' = [job EXCEPT ![c].observed = result]
               /\ result # "UNKNOWN" => network'[p] = result
        BY Zenon, <1>0, <2>1 DEF CallNetwork
      <3>2. PICK result \in {"SUCCEEDED", "FAILED", "UNKNOWN"} :
               /\ job' = [job EXCEPT ![c].observed = result]
               /\ result # "UNKNOWN" => network'[p] = result
        BY Zenon, <3>1
      <3> DEFINE value == [job[c] EXCEPT !.observed = result]
      <3>3. /\ value \in Jobs /\ value.draft = p /\ value.observed = result
            /\ job' = [job EXCEPT ![c] = value]
        BY Zenon, <1>0, <3>2, ObserveFacts
      <3>4. Moves(c, "record", value)
        BY Zenon, <2>1, <3>3 DEF CallNetwork, Goto, Moves
      <3> HIDE DEF value, p
      <3> QED BY Zenon, <3>2, <3>3, <3>4
    <2>2. CASE LoseCall(c)
      <3>1. CASE Adapter = "HTTP"
        <4>1. Done(c)
          BY Zenon, <2>2, <3>1 DEF LoseCall
        <4> QED BY Zenon, <4>1, DoneCarries
      <3>2. CASE Adapter # "HTTP"
        <4> DEFINE value == [job[c] EXCEPT !.observed = "UNKNOWN"]
        <4>1. pc' = [pc EXCEPT ![c] = "record"] /\ job' = [job EXCEPT ![c].observed = "UNKNOWN"]
          BY Zenon, <2>2, <3>2 DEF LoseCall, Goto
        <4>2. /\ value \in Jobs /\ value.draft = p /\ value.observed = "UNKNOWN"
              /\ job' = [job EXCEPT ![c] = value]
          BY Zenon, <1>0, <4>1, ObserveFacts
        <4>3. Moves(c, "record", value)
          BY Zenon, <4>1, <4>2 DEF Moves
        <4> HIDE DEF value, p
        <4> QED BY Zenon, <4>2, <4>3
      <3> QED BY Zenon, <3>1, <3>2
    <2> QED BY Zenon, <2>1, <2>2
  <1>3. PICK place \in {"record", "idle"}, value \in Jobs :
           /\ Moves(c, place, value)
           /\ place = "record" => /\ value.draft = p
                                  /\ \/ value.observed = "UNKNOWN"
                                     \/ value.observed \in {"SUCCEEDED", "FAILED"} /\ network'[p] = value.observed
    BY Zenon, <1>2
  <1>4. place \in Places /\ place # "call"
    BY Zenon, <1>0
  <1>5. /\ network' \in [Drafts -> {Unset, "SUCCEEDED", "FAILED"}]
        /\ \A q \in Drafts : network[q] # Unset => network'[q] = network[q]
    BY Zenon, <1>0 DEF CallNetwork, LoseCall
  <1>6. \/ UNCHANGED sends
        \/ Sending(c, p) /\ sends' = [sends EXCEPT ![p] = @ + 1]
    BY Zenon DEF CallNetwork, LoseCall, Sending
  <1>7. pc'[c] = place /\ job'[c] = value
    BY <1>0, <1>3, <1>4, MoveFacts
  <1>8. Carried(c)'
    <2>1. "UNKNOWN" # Unset /\ "SUCCEEDED" # Unset /\ "FAILED" # Unset
      BY Zenon, DisputeAssumption
    <2>2. CASE place = "idle"
      BY Zenon, <1>7, <2>2 DEF Carried
    <2>3. CASE place = "record"
      <3> HIDE DEF p
      <3>1. value.draft = p /\ p \in Drafts /\ attempt'[p] # Unset
        BY Zenon, <1>0, <1>1, <1>3, <2>3
      <3>2. value.observed # Unset /\ (value.observed # "UNKNOWN" => network'[p] = value.observed)
        BY Zenon, <1>3, <2>1, <2>3
      <3> QED BY Zenon, <1>7, <2>3, <3>1, <3>2 DEF Carried
    <2> QED BY Zenon, <1>3, <2>2, <2>3
  <1>9. \A d \in Clients : Carried(d)'
    <2>1. Grows
      BY Zenon, <1>1, <1>5 DEF Grows
    <2> QED BY Zenon, <1>3, <1>4, <1>8, <2>1, OthersCarry
  <1>10. sends' \in [Drafts -> {0, 1}] /\ OneSender' /\ OneAttempt'
    <2>1. CASE UNCHANGED sends
      <3>1. OneSender'
        BY Zenon, <1>3, <1>4, <2>1, SendersStay
      <3> QED BY Zenon, <1>0, <1>1, <2>1, <3>1 DEF OneAttempt
    <2>2. CASE Sending(c, p) /\ sends' = [sends EXCEPT ![p] = @ + 1]
      BY Zenon, <1>0, <1>1, <1>3, <1>4, <2>2, SentOnceMore
    <2> QED BY Zenon, <1>6, <2>1, <2>2
  <1>11. ApprovedFirst'
    BY Zenon, <1>0, <1>1 DEF ApprovedFirst
  <1>12. SubmittedIsTrue'
    <2>1. "SUCCEEDED" # Unset
      BY Zenon, DisputeAssumption
    <2> QED BY Zenon, <1>0, <1>1, <1>5, <2>1 DEF SubmittedIsTrue
  <1>13. DisputeTypes'
    BY <1>0, <1>1, <1>3, <1>4, <1>5, <1>10, MoveFacts DEF DisputeTypes, Places
  <1> QED BY Zenon, <1>9, <1>10, <1>11, <1>12, <1>13 DEF DisputeInv

\* The last transaction of submit_approved_package notes which columns it will
\* write, or ends.
LEMMA SubmitReadKeeps ==
  ASSUME DisputeInv, NEW c \in Clients, SubmitRead(c)
  PROVE  DisputeInv'
  <1> DEFINE p == job[c].draft
             value == [job[c] EXCEPT !.dirty = Dirty(p, job[c].observed)]
  <1>0. /\ DisputeTypes /\ Carried(c) /\ job[c] \in Jobs /\ pc[c] = "record"
        /\ UNCHANGED <<case, latest, package, request, decision, attempt, network, sends>>
    BY Zenon DEF DisputeInv, DisputeTypes, SubmitRead, drafts, approval
  <1>1. CASE Done(c)
    <2>1. "idle" # "call"
      BY Zenon
    <2> QED BY Zenon, <1>0, <1>1, <2>1, DoneCarries, QuietStep
  <1>2. CASE job' = [job EXCEPT ![c].dirty = Dirty(p, job[c].observed)] /\ Goto(c, "write")
    <2>1. Dirty(p, job[c].observed) \in SUBSET Columns
      BY Zenon DEF Dirty
    <2>2. /\ value \in Jobs /\ value.draft = p /\ value.observed = job[c].observed
          /\ job' = [job EXCEPT ![c] = value]
      BY Zenon, <1>0, <1>2, <2>1 DEF Jobs
    <2>3. Moves(c, "write", value) /\ "write" \in Places
      BY Zenon, <1>2, <2>2 DEF Moves, Goto, Places
    <2> HIDE DEF value
    <2>4. pc'[c] = "write" /\ job'[c] = value
      BY <1>0, <2>2, <2>3, MoveFacts
    <2>5. Carried(c)'
      BY Zenon, <1>0, <2>2, <2>4 DEF Carried
    <2>6. "write" # "call"
      BY Zenon
    <2> QED BY Zenon, <1>0, <2>2, <2>3, <2>5, <2>6, QuietStep
  <1> QED BY Zenon, <1>1, <1>2 DEF SubmitRead

\* Its commit records what the network said.
LEMMA RecordKeeps ==
  ASSUME DisputeInv, NEW c \in Clients, SubmitRecord(c)
  PROVE  DisputeInv'
  <1> DEFINE p == job[c].draft
             observed == job[c].observed
  <1>0. /\ DisputeTypes /\ OneAttempt /\ ApprovedFirst /\ SubmittedIsTrue
        /\ job[c] \in Jobs /\ p \in Drafts /\ attempt[p] # Unset
        /\ observed # Unset /\ (observed # "UNKNOWN" => network[p] = observed)
        /\ attempt \in [Drafts -> {Unset, "SENT", "SUCCEEDED", "FAILED", "AMBIGUOUS"}]
        /\ package \in [Drafts -> {Unset, "FROZEN", "APPROVED", "SUBMITTED", "INVALIDATED"}]
    BY Zenon DEF DisputeInv, DisputeTypes, SubmitRecord, Carried
  <1>1. Done(c) /\ UNCHANGED <<latest, request, decision, network, sends>>
    BY Zenon DEF SubmitRecord, approval
  <1>2. observed \in {"SUCCEEDED", "FAILED", "UNKNOWN"}
    BY Zenon, <1>0 DEF Jobs
  <1> HIDE DEF p, observed
  <1>3. /\ attempt' \in [Drafts -> {Unset, "SENT", "SUCCEEDED", "FAILED", "AMBIGUOUS"}]
        /\ \A q \in Drafts : attempt'[q] # Unset <=> attempt[q] # Unset
    <2>1. AttemptStatus(observed) \in {"SUCCEEDED", "FAILED", "AMBIGUOUS"} /\ AttemptStatus(observed) # Unset
      BY Zenon, <1>2, DisputeAssumption DEF AttemptStatus
    <2>2. attempt' = attempt \/ attempt' = [attempt EXCEPT ![p] = AttemptStatus(observed)]
      BY Zenon DEF SubmitRecord, p, observed
    <2> QED BY Zenon, <1>0, <2>1, <2>2
  <1>4. /\ package' \in [Drafts -> {Unset, "FROZEN", "APPROVED", "SUBMITTED", "INVALIDATED"}]
        /\ \A q \in Drafts : \/ package'[q] = package[q]
                             \/ q = p /\ package'[q] = "SUBMITTED" /\ observed = "SUCCEEDED"
        /\ case' = "SUBMITTED" => case = "SUBMITTED" \/ observed = "SUCCEEDED"
    BY Zenon, <1>0 DEF SubmitRecord, Submitted, CaseStatus, p, observed
  <1>5. OneAttempt'
    BY Zenon, <1>0, <1>1, <1>3 DEF OneAttempt
  <1>6. ApprovedFirst'
    BY Zenon, <1>0, <1>1, <1>3, <1>4 DEF ApprovedFirst
  <1>7. SubmittedIsTrue'
    BY Zenon, <1>0, <1>1, <1>4 DEF SubmittedIsTrue
  <1>8. \A d \in Clients : Carried(d)'
    <2>1. Grows
      BY Zenon, <1>1, <1>3 DEF Grows
    <2> QED BY Zenon, <1>1, <2>1, DoneCarries, OthersCarry
  <1>9. OneSender'
    <2>1. "idle" # "call"
      BY Zenon
    <2> QED BY Zenon, <1>1, <2>1, DoneCarries, SendersStay
  <1>10. DisputeTypes'
    BY Zenon, <1>0, <1>1, <1>3, <1>4, DoneCarries DEF DisputeTypes, Places
  <1> QED BY Zenon, <1>5, <1>6, <1>7, <1>8, <1>9, <1>10 DEF DisputeInv

\* The case as consume_dispute_created opens it.
LEMMA DisputeInitInv ==
  ASSUME DisputeInit PROVE DisputeInv
  <1>1. DisputeTypes
    <2>1. NoJob \in Jobs
      BY DisputeAssumption DEF NoJob, Job, Jobs
    <2> QED BY <2>1, DisputeAssumption DEF DisputeInit, DisputeTypes
  <1>2. \A c \in Clients : Carried(c)
    BY Zenon DEF DisputeInit, Carried
  <1>3. OneSender
    BY Zenon DEF DisputeInit, OneSender, Sending
  <1>4. OneAttempt /\ ApprovedFirst /\ SubmittedIsTrue
    BY DisputeAssumption DEF DisputeInit, OneAttempt, ApprovedFirst, SubmittedIsTrue
  <1> QED BY Zenon, <1>1, <1>2, <1>3, <1>4 DEF DisputeInv

\* Every step of a request keeps the invariant.
LEMMA DisputeNextInv ==
  ASSUME DisputeInv, [DisputeNext]_disputeVars PROVE DisputeInv'
  <1>1. CASE UNCHANGED disputeVars
    <2>1. UNCHANGED <<case, latest, package, request, decision, attempt, network, sends, pc, job>>
      BY Zenon, <1>1 DEF disputeVars, drafts, approval
    <2>2. DisputeTypes' /\ OneAttempt' /\ ApprovedFirst' /\ SubmittedIsTrue'
      BY Zenon, <2>1 DEF DisputeInv, DisputeTypes, OneAttempt, ApprovedFirst, SubmittedIsTrue
    <2>3. (\A c \in Clients : Carried(c)') /\ OneSender'
      BY Zenon, <2>1 DEF DisputeInv, Carried, OneSender, Sending
    <2> QED BY Zenon, <2>2, <2>3 DEF DisputeInv
  <1>2. ASSUME NEW c \in Clients, Crash(c) PROVE DisputeInv'
    <2>1. Done(c) /\ UNCHANGED <<case, latest, package, request, decision, attempt, network, sends>>
      BY Zenon, <1>2 DEF Crash, drafts, approval
    <2>2. "idle" # "call"
      BY Zenon
    <2> QED BY Zenon, <2>1, <2>2, DoneCarries, QuietStep
  <1>3. CASE DisputeNext
    BY Zenon, <1>2, <1>3, ReadsKeep, WritesKeep, BeginKeeps, CallsKeep, SubmitReadKeeps,
        RecordKeeps DEF DisputeNext
  <1> QED BY Zenon, <1>1, <1>3

\* The rows, the calls in flight and the requests' copies of both stay
\* consistent in every behaviour of the response.
THEOREM DisputeInvariance == DisputeSpec => []DisputeInv
  BY DisputeInitInv, DisputeNextInv, PTL DEF DisputeSpec

\* Overlapping requests, lost answers and crashes send one approved package of
\* the case once, at most; what counts as submitted was accepted; and of
\* concurrent decisions the first stays (submit_approved_package,
\* decide_approval).
THEOREM ResponsePromiseTheorem == DisputeSpec => ResponsePromise
  <1>1. ASSUME DisputeInv PROVE SentAtMostOnce /\ OnlyApprovedSent /\ SubmittedIsTrue
    <2>1. /\ sends \in [Drafts -> {0, 1}] /\ OneAttempt /\ ApprovedFirst /\ SubmittedIsTrue
      BY Zenon, <1>1 DEF DisputeInv, DisputeTypes
    <2>2. \A p \in Drafts : sends[p] <= 1 /\ (sends[p] > 0 => sends[p] = 1)
      BY <2>1
    <2>3. OnlyApprovedSent
      BY Zenon, <2>1, <2>2 DEF OnlyApprovedSent, OneAttempt, ApprovedFirst
    <2> DEFINE Sent == {p \in Drafts : sends[p] > 0}
    <2>4. \A p, q \in Sent : p = q
      BY Zenon, <2>1, <2>2 DEF OneAttempt
    <2>5. Cardinality(Sent) <= 1
      <3> HIDE DEF Sent
      <3>1. Cardinality(Sent) = IF Sent = {} THEN 0 ELSE 1
        BY Zenon, <2>4, CountSmall
      <3> QED BY <3>1
    <2> QED BY Zenon, <2>1, <2>2, <2>3, <2>5 DEF SentAtMostOnce
  <1>2. ASSUME DisputeInv, DisputeInv', [DisputeNext]_disputeVars
        PROVE  [\A p \in Drafts :
                  /\ decision[p] # Unset => decision'[p] = decision[p]
                  /\ request'[p] \in {"APPROVED", "REJECTED"} => request'[p] = decision'[p]]_disputeVars
    <2>1. ASSUME NEW p \in Drafts, decision[p] # Unset PROVE decision'[p] = decision[p]
      <3>1. CASE UNCHANGED decision
        BY Zenon, <3>1
      <3>2. ASSUME NEW c \in Clients, DecideApproval(c) PROVE decision'[p] = decision[p]
        BY <1>2, <2>1, <3>2 DEF DecideApproval, Undecided, DisputeInv, DisputeTypes, approval
      <3>3. UNCHANGED decision \/ \E c \in Clients : DecideApproval(c)
        BY Zenon, <1>2 DEF DisputeNext, disputeVars, approval, EditRead, CreateDraft, FreezeRead, FreezeDraft, CallNetwork,
                    LoseCall, SubmitRead, SubmitRecord, Crash, SubmitBegin, DecideRead
      <3> QED BY Zenon, <3>1, <3>2, <3>3
    <2>2. ASSUME NEW p \in Drafts, request'[p] \in {"APPROVED", "REJECTED"} PROVE request'[p] = decision'[p]
      BY Zenon, <1>2, <2>2 DEF DisputeInv, ApprovedFirst
    <2> QED BY Zenon, <2>1, <2>2
  <1>3. DisputeSpec => []DisputeInv
    BY Zenon, DisputeInvariance
  <1> QED BY <1>1, <1>2, <1>3, PTL DEF DisputeSpec, ResponsePromise, DecisionOnRecord

-----------------------------------------------------------------------------
(* Versioned credentials.                                                  *)

\* The fields of a plan.
LEMMA PlanIs ==
  ASSUME NEW n, NEW o, NEW h
  PROVE  Plan(n, o, h).number = n /\ Plan(n, o, h).current = o /\ Plan(n, o, h).healthy = h
  BY Zenon DEF Plan

\* A version of a connector.
LEMMA VersionIs ==
  ASSUME NEW s \in Status, NEW v \in BOOLEAN
  PROVE  /\ Version(s, v) \in Versions
         /\ Version(s, v) # Absent
         /\ Version(s, v).status = s
         /\ Version(s, v).verified = v
  <1>1. Version(s, v) \in Versions /\ Version(s, v).status = s /\ Version(s, v).verified = v
    BY Zenon DEF Version, Versions
  <1> QED
    BY Zenon, <1>1, CredentialAssumption

\* A connector version that exists.
LEMMA VersionOf ==
  ASSUME CredentialTypes, NEW n \in Numbers, connectorVersion[n] # Absent
  PROVE  /\ connectorVersion[n] \in Versions
         /\ connectorVersion[n].status \in Status
         /\ connectorVersion[n].verified \in BOOLEAN
  <1>1. connectorVersion[n] \in Versions
    BY Zenon DEF CredentialTypes
  <1> QED
    BY Zenon, <1>1 DEF Versions

\* When the versions are those up to k, the latest is k (the max(version) of
\* create_connector_version).
LEMMA LatestIs ==
  ASSUME NEW k \in 0 .. MaxVersion, UpTo(k)
  PROVE  Latest(connectorVersion) = k
  <1> DEFINE S == {0} \cup {n \in Numbers : connectorVersion[n] # Absent}
  <1>1. MaxVersion \in Nat
    BY Zenon, CredentialAssumption
  <1>2. \A n : n \in S <=> n \in 0 .. k
    BY <1>1 DEF UpTo, Numbers
  <1> HIDE DEF S
  <1>3. k \in S /\ \A y \in S : k >= y
    BY <1>1, <1>2
  <1>4. \A x \in S : (\A y \in S : x >= y) => x = k
    BY <1>1, <1>2, <1>3
  <1>5. Max(S) = k
    BY Zenon, <1>3, <1>4 DEF Max
  <1> QED
    BY Zenon, <1>5 DEF Latest, S

\* The step of one request: it takes a new place and plan.
LEMMA RequestMoves ==
  ASSUME CredentialInv, NEW c \in Admins, NEW place \in AdminPlaces, NEW t,
         Reach(c, place), plan' = [plan EXCEPT ![c] = t]
  PROVE  /\ at' \in [Admins -> AdminPlaces] /\ DOMAIN plan' = Admins
         /\ at'[c] = place /\ plan'[c] = t
         /\ \A q \in Admins : q # c => at'[q] = at[q] /\ plan'[q] = plan[q]
  BY Zenon DEF Reach, CredentialInv, CredentialTypes

\* A request that is answered is idle.
LEMMA RequestEnds ==
  ASSUME CredentialInv, NEW c \in Admins, Answered(c)
  PROVE  /\ at' \in [Admins -> AdminPlaces] /\ DOMAIN plan' = Admins
         /\ at'[c] = "idle"
         /\ \A q \in Admins : q # c => at'[q] = at[q] /\ plan'[q] = plan[q]
  <1>1. "idle" \in AdminPlaces /\ Reach(c, "idle") /\ plan' = [plan EXCEPT ![c] = NoPlan]
    BY Zenon DEF Answered, AdminPlaces
  <1> QED
    BY Zenon, <1>1, RequestMoves

\* A step that writes no API key, and begins no change of one.
LEMMA KeyFrame ==
  ASSUME CredentialInv, UNCHANGED keyVars,
         \A q \in Admins : at'[q] \in {"rotate", "activate", "revoke"} => at'[q] = at[q]
  PROVE  /\ apiKey' \in {Absent, "ACTIVE", "REVOKED"}
         /\ keyVersion' \in [Numbers -> {Absent} \cup Status]
         /\ KeyVersionsAgree'
         /\ \A q \in Admins : ChangesKey(q)'
  <1>1. apiKey' = apiKey /\ keyLock' = keyLock /\ keyVersion' = keyVersion
    BY Zenon DEF keyVars
  <1>2. ASSUME NEW q \in Admins PROVE ChangesKey(q)'
    <2>1. ChangesKey(q)
      BY Zenon DEF CredentialInv
    <2> QED
      BY Zenon, <1>1, <2>1 DEF ChangesKey
  <1>3. KeyVersionsAgree'
    BY Zenon, <1>1 DEF CredentialInv, KeyVersionsAgree
  <1> QED
    BY Zenon, <1>1, <1>2, <1>3 DEF CredentialInv, CredentialTypes

\* A step that writes no connector, and begins nothing with one.
LEMMA ConnectorFrame ==
  ASSUME CredentialInv, UNCHANGED connectorVars,
         \A q \in Admins : at'[q] \in {"create", "verify", "current", "swap"} =>
            at'[q] = at[q] /\ plan'[q] = plan[q]
  PROVE  /\ connector' \in {Absent, "ACTIVE"}
         /\ connectorVersion' \in [Numbers -> {Absent} \cup Versions]
         /\ versionLock' \in [Numbers -> Admins \cup {Absent}]
         /\ ConnectorVersionsAgree'
         /\ \A q \in Admins : Creates(q)' /\ Activates(q)'
  <1>1. /\ connector' = connector /\ connectorLock' = connectorLock
        /\ connectorVersion' = connectorVersion /\ versionLock' = versionLock
    BY Zenon DEF connectorVars
  <1>2. ASSUME NEW q \in Admins PROVE Creates(q)' /\ Activates(q)'
    <2>1. Creates(q) /\ Activates(q)
      BY Zenon DEF CredentialInv
    <2>2. Creates(q)'
      BY Zenon, <1>1, <2>1 DEF Creates, UpTo
    <2>3. Activates(q)'
      BY Zenon, <1>1, <2>1 DEF Activates, Activatable
    <2> QED
      BY Zenon, <2>2, <2>3
  <1>3. ConnectorVersionsAgree'
    BY Zenon, <1>1 DEF CredentialInv, ConnectorVersionsAgree, UpTo
  <1> QED
    BY Zenon, <1>1, <1>2, <1>3 DEF CredentialInv, CredentialTypes

\* The initial state satisfies the invariant.
LEMMA CredentialStarts == CredentialInit => CredentialInv
  <1> SUFFICES ASSUME CredentialInit PROVE CredentialInv
    BY Zenon
  <1>1. CredentialTypes
    BY Zenon DEF CredentialInit, CredentialTypes, AdminPlaces
  <1>2. \A n \in Numbers : keyVersion[n] = Absent /\ connectorVersion[n] = Absent
    BY Zenon DEF CredentialInit
  <1>3. KeyVersionsAgree
    BY Zenon, <1>2, CredentialAssumption DEF KeyVersionsAgree, Status
  <1>4. UpTo(0) /\ 0 \in 0 .. MaxVersion
    BY <1>2, CredentialAssumption DEF UpTo, Numbers
  <1>5. ConnectorVersionsAgree
    BY Zenon, <1>2, <1>4 DEF ConnectorVersionsAgree
  <1>6. ASSUME NEW c \in Admins PROVE ChangesKey(c) /\ Creates(c) /\ Activates(c)
    <2>1. at[c] = "idle"
      BY Zenon DEF CredentialInit
    <2> QED
      BY Zenon, <2>1 DEF ChangesKey, Creates, Activates
  <1> QED
    BY Zenon, <1>1, <1>3, <1>5, <1>6 DEF CredentialInv

\* Creating the key.
LEMMA CreateKeyKeeps ==
  ASSUME CredentialInv, CreateAPIKey
  PROVE  CredentialInv'
  <1>1. /\ apiKey = Absent /\ apiKey' = "ACTIVE" /\ keyLock' = keyLock
        /\ keyVersion' = [keyVersion EXCEPT ![1] = "ACTIVE"]
        /\ UNCHANGED connectorVars /\ at' = at /\ plan' = plan
    BY Zenon DEF CreateAPIKey
  <1>2. \A n \in Numbers : keyVersion[n] = Absent
    BY Zenon, <1>1 DEF CredentialInv, KeyVersionsAgree
  <1>3. keyVersion' \in [Numbers -> {Absent} \cup Status]
    BY Zenon, <1>1 DEF CredentialInv, CredentialTypes, Status
  <1>4. \A n \in Numbers : n # 1 => keyVersion'[n] = Absent
    BY Zenon, <1>1, <1>2 DEF CredentialInv, CredentialTypes
  <1>5. KeyVersionsAgree'
    <2>1. Absent # "ACTIVE"
      BY Zenon, CredentialAssumption DEF Status
    <2> QED
      BY Zenon, <1>1, <1>4, <2>1 DEF KeyVersionsAgree
  <1>6. ASSUME NEW c \in Admins PROVE ChangesKey(c)'
    <2>1. ChangesKey(c)
      BY Zenon DEF CredentialInv
    <2> QED
      BY Zenon, <1>1, <2>1 DEF ChangesKey
  <1>7. /\ connector' \in {Absent, "ACTIVE"}
        /\ connectorVersion' \in [Numbers -> {Absent} \cup Versions]
        /\ versionLock' \in [Numbers -> Admins \cup {Absent}]
        /\ ConnectorVersionsAgree'
        /\ \A q \in Admins : Creates(q)' /\ Activates(q)'
    BY Zenon, <1>1, ConnectorFrame
  <1>8. CredentialTypes'
    BY Zenon, <1>1, <1>3, <1>7 DEF CredentialInv, CredentialTypes
  <1> QED
    BY Zenon, <1>5, <1>6, <1>7, <1>8 DEF CredentialInv

\* Locking the row of the key.
LEMMA BeginKeyKeeps ==
  ASSUME CredentialInv, NEW c \in Admins, NEW n \in Numbers,
         NEW operation \in {"rotate", "activate", "revoke"}, BeginKey(c, operation, n)
  PROVE  CredentialInv'
  <1>1. /\ apiKey # Absent /\ (operation # "revoke" => apiKey = "ACTIVE")
        /\ keyLock = Absent /\ keyLock' = c
        /\ apiKey' = apiKey /\ keyVersion' = keyVersion /\ UNCHANGED connectorVars
    BY Zenon DEF BeginKey, LockKey
  <1>2. PICK t : Reach(c, operation) /\ plan' = [plan EXCEPT ![c] = t]
    BY Zenon DEF BeginKey
  <1>3. /\ at' \in [Admins -> AdminPlaces] /\ DOMAIN plan' = Admins
        /\ at'[c] = operation
        /\ \A q \in Admins : q # c => at'[q] = at[q] /\ plan'[q] = plan[q]
    <2>1. operation \in AdminPlaces
      BY Zenon DEF AdminPlaces
    <2> QED
      BY Zenon, <1>2, <2>1, RequestMoves
  <1>4. ASSUME NEW q \in Admins PROVE ChangesKey(q)'
    <2>1. CASE q = c
      BY Zenon, <1>1, <1>3, <2>1 DEF ChangesKey
    <2>2. CASE q # c
      <3>1. ChangesKey(q) /\ q # Absent
        BY Zenon, CredentialAssumption DEF CredentialInv
      <3> QED
        BY Zenon, <1>1, <1>3, <2>2, <3>1 DEF ChangesKey
    <2> QED
      BY Zenon, <2>1, <2>2
  <1>5. KeyVersionsAgree'
    BY Zenon, <1>1 DEF CredentialInv, KeyVersionsAgree
  <1>6. /\ connector' \in {Absent, "ACTIVE"}
        /\ connectorVersion' \in [Numbers -> {Absent} \cup Versions]
        /\ versionLock' \in [Numbers -> Admins \cup {Absent}]
        /\ ConnectorVersionsAgree'
        /\ \A q \in Admins : Creates(q)' /\ Activates(q)'
    <2>1. \A q \in Admins : at'[q] \in {"create", "verify", "current", "swap"} =>
             at'[q] = at[q] /\ plan'[q] = plan[q]
      BY Zenon, <1>3
    <2> QED
      BY Zenon, <1>1, <2>1, ConnectorFrame
  <1>7. CredentialTypes'
    BY Zenon, <1>1, <1>3, <1>6 DEF CredentialInv, CredentialTypes
  <1> QED
    BY Zenon, <1>4, <1>5, <1>6, <1>7 DEF CredentialInv

\* A change of the key under its lock, which is released: the rest of the
\* invariant holds if the versions agree again.
LEMMA KeyChanged ==
  ASSUME CredentialInv, NEW c \in Admins, keyLock = c, Release(c), Answered(c),
         apiKey' \in {Absent, "ACTIVE", "REVOKED"},
         keyVersion' \in [Numbers -> {Absent} \cup Status],
         KeyVersionsAgree', UNCHANGED connectorVars
  PROVE  CredentialInv'
  <1>1. /\ at' \in [Admins -> AdminPlaces] /\ DOMAIN plan' = Admins
        /\ at'[c] = "idle"
        /\ \A q \in Admins : q # c => at'[q] = at[q] /\ plan'[q] = plan[q]
    BY Zenon, RequestEnds
  <1>2. ASSUME NEW q \in Admins PROVE ChangesKey(q)'
    <2>1. CASE q = c
      BY Zenon, <1>1, <2>1 DEF ChangesKey
    <2>2. CASE q # c
      <3>1. ChangesKey(q)
        BY Zenon DEF CredentialInv
      <3> QED
        BY Zenon, <1>1, <2>2, <3>1 DEF ChangesKey
    <2> QED
      BY Zenon, <2>1, <2>2
  <1>3. /\ connector' \in {Absent, "ACTIVE"}
        /\ connectorVersion' \in [Numbers -> {Absent} \cup Versions]
        /\ versionLock' \in [Numbers -> Admins \cup {Absent}]
        /\ ConnectorVersionsAgree'
        /\ \A q \in Admins : Creates(q)' /\ Activates(q)'
    <2>1. \A q \in Admins : at'[q] \in {"create", "verify", "current", "swap"} =>
             at'[q] = at[q] /\ plan'[q] = plan[q]
      BY Zenon, <1>1
    <2> QED
      BY Zenon, <2>1, ConnectorFrame
  <1>4. CredentialTypes'
    BY Zenon, <1>1, <1>3 DEF CredentialInv, CredentialTypes
  <1> QED
    BY Zenon, <1>2, <1>3, <1>4 DEF CredentialInv

\* Rotating, activating and revoking.
LEMMA ChangeKeyKeeps ==
  ASSUME CredentialInv, NEW c \in Admins,
         RotateAPIKey(c) \/ ActivateAPIKeyVersion(c) \/ RevokeAPIKey(c)
  PROVE  CredentialInv'
  <1>0. ChangesKey(c) /\ KeyVersionsAgree /\ CredentialTypes
    BY Zenon DEF CredentialInv
  <1>1. CASE RotateAPIKey(c)
    <2>1. /\ keyLock = c /\ Release(c) /\ Answered(c) /\ UNCHANGED connectorVars
          /\ apiKey = "ACTIVE" /\ apiKey' = apiKey
      BY Zenon, <1>0, <1>1 DEF RotateAPIKey, ChangesKey
    <2>2. keyVersion' \in [Numbers -> {Absent} \cup Status]
      BY Zenon, <1>0, <1>1 DEF RotateAPIKey, CredentialTypes, Status
    <2>3. \A n \in Numbers : keyVersion'[n] = keyVersion[n] \/ keyVersion'[n] = "PENDING"
      BY Zenon, <1>0, <1>1 DEF RotateAPIKey, CredentialTypes
    <2>4. KeyVersionsAgree'
      <3>1. "ACTIVE" # Absent
        BY Zenon, CredentialAssumption DEF Status
      <3> QED
        BY Zenon, <1>0, <2>1, <2>3, <3>1 DEF KeyVersionsAgree
    <2> QED
      BY Zenon, <2>1, <2>2, <2>4, KeyChanged
  <1>2. CASE ActivateAPIKeyVersion(c)
    <2>1. /\ keyLock = c /\ Release(c) /\ Answered(c) /\ UNCHANGED connectorVars
          /\ apiKey = "ACTIVE" /\ apiKey' = apiKey
      BY Zenon, <1>0, <1>2 DEF ActivateAPIKeyVersion, ChangesKey
    <2>2. keyVersion' \in [Numbers -> {Absent} \cup Status]
      BY Zenon, <1>0, <1>2 DEF ActivateAPIKeyVersion, CredentialTypes, Status
    <2>3. \/ keyVersion' = keyVersion
          \/ \A n \in Numbers : keyVersion'[n] = "ACTIVE" => n = plan[c].number
      BY Zenon, <1>0, <1>2 DEF ActivateAPIKeyVersion, CredentialTypes
    <2>4. KeyVersionsAgree'
      <3>1. "ACTIVE" # Absent
        BY Zenon, CredentialAssumption DEF Status
      <3> QED
        BY Zenon, <1>0, <2>1, <2>3, <3>1 DEF KeyVersionsAgree
    <2> QED
      BY Zenon, <2>1, <2>2, <2>4, KeyChanged
  <1>3. CASE RevokeAPIKey(c)
    <2>1. /\ keyLock = c /\ Release(c) /\ Answered(c) /\ UNCHANGED connectorVars
          /\ apiKey' = "REVOKED"
      BY Zenon, <1>0, <1>3 DEF RevokeAPIKey, ChangesKey
    <2>2. keyVersion' \in [Numbers -> {Absent} \cup Status]
      BY Zenon, <1>3 DEF RevokeAPIKey, Status
    <2>3. \A n \in Numbers : keyVersion'[n] \in {Absent, "REVOKED"}
      BY Zenon, <1>3 DEF RevokeAPIKey
    <2>4. KeyVersionsAgree'
      <3>1. "ACTIVE" # Absent /\ "REVOKED" # Absent
        BY Zenon, CredentialAssumption DEF Status
      <3> QED
        BY Zenon, <2>1, <2>3, <3>1 DEF KeyVersionsAgree
    <2> QED
      BY Zenon, <2>1, <2>2, <2>4, KeyChanged
  <1> QED
    BY Zenon, <1>1, <1>2, <1>3

\* Locking the connector and choosing the next number.
LEMMA CreateBeginKeeps ==
  ASSUME CredentialInv, NEW c \in Admins, CreateBegin(c)
  PROVE  CredentialInv'
  <1>1. /\ connectorLock = Absent
        /\ connectorLock' = IF connector = Absent THEN Absent ELSE c
        /\ UNCHANGED keyVars
        /\ connector' = connector /\ connectorVersion' = connectorVersion
        /\ versionLock' = versionLock
    BY Zenon DEF CreateBegin
  <1>2. PICK k \in 0 .. MaxVersion : UpTo(k)
    BY Zenon DEF CredentialInv, ConnectorVersionsAgree
  <1>3. k \in Nat /\ (k + 1) - 1 = k /\ k + 1 \in Nat
    BY CredentialAssumption
  <1>4. PICK t : /\ t.number = k + 1 /\ t.current = connector
                 /\ Reach(c, "create") /\ plan' = [plan EXCEPT ![c] = t]
    <2>1. plan' = [plan EXCEPT ![c] = Plan(k + 1, connector, FALSE)] /\ Reach(c, "create")
      BY Zenon, <1>2, LatestIs DEF CreateBegin
    <2>2. Plan(k + 1, connector, FALSE).number = k + 1 /\ Plan(k + 1, connector, FALSE).current = connector
      BY Zenon DEF Plan
    <2> HIDE DEF Reach, Plan
    <2> QED
      BY Zenon, <2>1, <2>2
  <1>5. /\ at' \in [Admins -> AdminPlaces] /\ DOMAIN plan' = Admins
        /\ at'[c] = "create" /\ plan'[c] = t
        /\ \A q \in Admins : q # c => at'[q] = at[q] /\ plan'[q] = plan[q]
    <2>1. "create" \in AdminPlaces
      BY Zenon DEF AdminPlaces
    <2> QED
      BY Zenon, <1>4, <2>1, RequestMoves
  <1>6. /\ apiKey' \in {Absent, "ACTIVE", "REVOKED"}
        /\ keyVersion' \in [Numbers -> {Absent} \cup Status]
        /\ KeyVersionsAgree'
        /\ \A q \in Admins : ChangesKey(q)'
    <2>1. \A q \in Admins : at'[q] \in {"rotate", "activate", "revoke"} => at'[q] = at[q]
      BY Zenon, <1>5
    <2> QED
      BY Zenon, <1>1, <2>1, KeyFrame
  <1>7. CredentialTypes'
    BY Zenon, <1>1, <1>5, <1>6 DEF CredentialInv, CredentialTypes
  <1>8. ConnectorVersionsAgree'
    BY Zenon, <1>1 DEF CredentialInv, ConnectorVersionsAgree, UpTo
  <1>9. Creates(c)' /\ Activates(c)'
    <2>1. UpTo(k)'
      BY Zenon, <1>1, <1>2 DEF UpTo
    <2>2. UpTo(t.number - 1)'
      BY Zenon, <1>3, <1>4, <2>1 DEF UpTo
    <2> QED
      BY Zenon, <1>1, <1>3, <1>4, <1>5, <2>2 DEF Creates, Activates
  <1>10. ASSUME NEW q \in Admins, q # c PROVE Creates(q)' /\ Activates(q)'
    <2>1. Creates(q) /\ Activates(q) /\ q # Absent
      BY Zenon, <1>10, CredentialAssumption DEF CredentialInv
    <2>2. at'[q] = at[q] /\ plan'[q] = plan[q]
      BY Zenon, <1>5, <1>10
    <2>3. Creates(q)'
      BY Zenon, <1>1, <2>1, <2>2 DEF Creates, UpTo
    <2>4. Activates(q)'
      BY Zenon, <1>1, <2>1, <2>2 DEF Activates, Activatable
    <2> QED
      BY Zenon, <2>3, <2>4
  <1> QED
    BY Zenon, <1>6, <1>7, <1>8, <1>9, <1>10 DEF CredentialInv

\* A step that keeps the connector versions others work with keeps what they know.
LEMMA OthersActivate ==
  ASSUME CredentialInv, NEW q \in Admins, at'[q] = at[q], plan'[q] = plan[q],
         \A n \in Numbers : connectorVersion[n] # Absent => connectorVersion'[n] # Absent,
         \A n \in Numbers : at[q] \in {"current", "swap"} /\ n = plan[q].number =>
            /\ versionLock'[n] = versionLock[n]
            /\ Activatable(n) => Activatable(n)'
  PROVE  Activates(q)'
  <1>1. Activates(q)
    BY Zenon DEF CredentialInv
  <1> QED
    BY Zenon, <1>1 DEF Activates

\* Inserting the version, or losing to the request that created the connector.
LEMMA CreateVersionKeeps ==
  ASSUME CredentialInv, NEW c \in Admins, CreateConnectorVersion(c)
  PROVE  CredentialInv'
  <1>1. /\ at[c] = "create" /\ UNCHANGED keyVars /\ versionLock' = versionLock
        /\ connectorLock' = (IF connectorLock = c THEN Absent ELSE connectorLock)
        /\ Answered(c)
    BY Zenon DEF CreateConnectorVersion
  <1>2. /\ at' \in [Admins -> AdminPlaces] /\ DOMAIN plan' = Admins
        /\ at'[c] = "idle"
        /\ \A q \in Admins : q # c => at'[q] = at[q] /\ plan'[q] = plan[q]
    BY Zenon, <1>1, RequestEnds
  <1>3. /\ apiKey' \in {Absent, "ACTIVE", "REVOKED"}
        /\ keyVersion' \in [Numbers -> {Absent} \cup Status]
        /\ KeyVersionsAgree'
        /\ \A q \in Admins : ChangesKey(q)'
    <2>1. \A q \in Admins : at'[q] \in {"rotate", "activate", "revoke"} => at'[q] = at[q]
      BY Zenon, <1>2
    <2> QED
      BY Zenon, <1>1, <2>1, KeyFrame
  <1>4. Creates(c)' /\ Activates(c)'
    BY Zenon, <1>2 DEF Creates, Activates
  <1>5. CASE UNCHANGED <<connector, connectorVersion>>
    <2>1. CredentialTypes'
      BY Zenon, <1>1, <1>2, <1>3, <1>5 DEF CredentialInv, CredentialTypes
    <2>2. ConnectorVersionsAgree'
      BY Zenon, <1>5 DEF CredentialInv, ConnectorVersionsAgree, UpTo
    <2>3. ASSUME NEW q \in Admins, q # c PROVE Creates(q)' /\ Activates(q)'
      <3>1. Creates(q) /\ Activates(q)
        BY Zenon, <2>3 DEF CredentialInv
      <3>2. at'[q] = at[q] /\ plan'[q] = plan[q]
        BY Zenon, <1>2, <2>3
      <3>3. Creates(q)'
        BY Zenon, <1>1, <1>5, <2>3, <3>1, <3>2 DEF Creates, UpTo
      <3>4. Activates(q)'
        BY Zenon, <1>1, <1>5, <3>1, <3>2 DEF Activates, Activatable
      <3> QED
        BY Zenon, <3>3, <3>4
    <2> QED
      BY Zenon, <1>3, <1>4, <2>1, <2>2, <2>3 DEF CredentialInv
  <1>6. CASE /\ plan[c].number \in Numbers /\ plan[c].current = connector
             /\ connector' = "ACTIVE"
             /\ connectorVersion' = [connectorVersion EXCEPT ![plan[c].number] = Version("PENDING", FALSE)]
    <2>1. PICK k \in Numbers : k = plan[c].number
      BY Zenon, <1>6
    <2>2. UpTo(k - 1)
      <3>1. Creates(c)
        BY Zenon DEF CredentialInv
      <3> QED
        BY Zenon, <1>1, <1>6, <2>1, <3>1 DEF Creates
    <2>3. PICK v \in Versions : /\ v.status = "PENDING" /\ v.verified = FALSE /\ v # Absent
                                /\ connectorVersion' = [connectorVersion EXCEPT ![k] = v]
      <3>1. "PENDING" \in Status
        BY Zenon DEF Status
      <3> QED
        BY Zenon, <1>6, <2>1, <3>1, VersionIs
    <2>4. /\ connectorVersion' \in [Numbers -> {Absent} \cup Versions] /\ connectorVersion'[k] = v
          /\ \A n \in Numbers : n # k => connectorVersion'[n] = connectorVersion[n]
      BY Zenon, <2>3 DEF CredentialInv, CredentialTypes
    <2>5. k \in Nat /\ k \in 1 .. MaxVersion /\ MaxVersion \in Nat
      BY CredentialAssumption DEF Numbers
    <2>6. connectorVersion[k] = Absent
      BY <2>2, <2>5 DEF UpTo
    <2>7. UpTo(k)'
      <3> SUFFICES ASSUME NEW n \in Numbers PROVE connectorVersion'[n] # Absent <=> n <= k
        BY Zenon DEF UpTo
      <3>1. n \in Nat /\ (connectorVersion[n] # Absent <=> n <= k - 1)
        BY <2>2, CredentialAssumption DEF UpTo, Numbers
      <3> QED
        BY <2>3, <2>4, <2>5, <3>1
    <2>8. ConnectorVersionsAgree'
      <3>1. connector' # Absent
        BY Zenon, <1>6, CredentialAssumption DEF Status
      <3>2. \A n \in Numbers : connectorVersion'[n] # Absent /\ connectorVersion'[n].status # "PENDING" =>
               connectorVersion'[n].verified
        BY Zenon, <2>3, <2>4 DEF CredentialInv, ConnectorVersionsAgree
      <3>3. k \in 0 .. MaxVersion
        BY <2>5
      <3> QED
        BY Zenon, <2>7, <3>1, <3>2, <3>3 DEF ConnectorVersionsAgree
    <2>9. CredentialTypes'
      BY Zenon, <1>1, <1>2, <1>3, <1>6, <2>4 DEF CredentialInv, CredentialTypes
    <2>10. ASSUME NEW q \in Admins, q # c PROVE Creates(q)' /\ Activates(q)'
      <3>1. Creates(q) /\ Creates(c) /\ Activates(q)
        BY Zenon, <2>10 DEF CredentialInv
      <3>2. at'[q] = at[q] /\ plan'[q] = plan[q]
        BY Zenon, <1>2, <2>10
      <3>3. ASSUME at[q] = "create" PROVE plan[q].current = Absent
        BY Zenon, <1>1, <1>6, <2>10, <3>1, <3>3 DEF Creates
      <3>4. connector' # Absent
        BY Zenon, <1>6, CredentialAssumption DEF Status
      <3>5. Creates(q)'
        BY Zenon, <3>1, <3>2, <3>3, <3>4 DEF Creates
      <3>6. \A n \in Numbers : connectorVersion[n] # Absent => connectorVersion'[n] # Absent
        BY Zenon, <2>4, <2>6
      <3>7. ASSUME at[q] \in {"current", "swap"} PROVE plan[q].number # k
        BY Zenon, <2>6, <3>1, <3>7 DEF Activates
      <3>8. \A n \in Numbers : at[q] \in {"current", "swap"} /\ n = plan[q].number =>
               /\ versionLock'[n] = versionLock[n]
               /\ Activatable(n) => Activatable(n)'
        BY Zenon, <1>1, <2>4, <3>7 DEF Activatable
      <3>9. Activates(q)'
        BY Zenon, <3>2, <3>6, <3>8, OthersActivate
      <3> QED
        BY Zenon, <3>5, <3>9
    <2> QED
      BY Zenon, <1>3, <1>4, <2>8, <2>9, <2>10 DEF CredentialInv
  <1> QED
    BY Zenon, <1>5, <1>6 DEF CreateConnectorVersion

\* The health of a version, the lock of one to activate, and the search for the
\* current one: these write no version.
LEMMA LookKeeps ==
  ASSUME CredentialInv, NEW c \in Admins, NEW n,
         \/ n \in Numbers /\ (CheckHealth(c, n) \/ ActivateBegin(c, n))
         \/ FindCurrent(c)
  PROVE  CredentialInv'
  <1>1. /\ UNCHANGED keyVars /\ connector' = connector /\ connectorLock' = connectorLock
        /\ connectorVersion' = connectorVersion
    BY Zenon DEF CheckHealth, ActivateBegin, FindCurrent, connectorVars
  <1> DEFINE Looks(place, t) ==
        /\ Reach(c, place) /\ plan' = [plan EXCEPT ![c] = t]
        /\ t.number \in Numbers /\ connectorVersion[t.number] # Absent
        /\ place \in {"current", "swap"} => versionLock'[t.number] = c /\ Activatable(t.number)
        /\ place = "swap" /\ t.current # Absent =>
              t.current \in Numbers /\ connectorVersion[t.current] # Absent
  <1>2. versionLock' \in [Numbers -> Admins \cup {Absent}]
    BY Zenon DEF CheckHealth, ActivateBegin, FindCurrent, connectorVars, CredentialInv, CredentialTypes
  <1>3. \A m \in Numbers : versionLock[m] # Absent => versionLock'[m] = versionLock[m]
    BY Zenon DEF CheckHealth, ActivateBegin, FindCurrent, connectorVars, CredentialInv, CredentialTypes
  <1>4. \E place \in {"verify", "current", "swap"} : \E t : Looks(place, t)
    <2>1. CASE n \in Numbers /\ CheckHealth(c, n)
      <3>1. PICK h \in BOOLEAN : plan' = [plan EXCEPT ![c] = Plan(n, Absent, h)]
        BY Zenon, <2>1 DEF CheckHealth
      <3>2. Plan(n, Absent, h).number = n
        BY PlanIs
      <3>3. Reach(c, "verify") /\ connectorVersion[n] # Absent
        BY Zenon, <2>1 DEF CheckHealth
      <3>4. Looks("verify", Plan(n, Absent, h))
        BY Zenon, <2>1, <3>1, <3>2, <3>3
      <3> HIDE DEF Looks
      <3> QED
        BY Zenon, <3>4
    <2>2. CASE n \in Numbers /\ ActivateBegin(c, n)
      <3>1. plan' = [plan EXCEPT ![c] = Plan(n, Absent, FALSE)] /\ Reach(c, "current")
        BY Zenon, <2>2 DEF ActivateBegin
      <3>2. Plan(n, Absent, FALSE).number = n
        BY Zenon DEF Plan
      <3>3. connectorVersion[n] # Absent /\ Activatable(n) /\ versionLock'[n] = c
        BY Zenon, <2>2 DEF ActivateBegin, CredentialInv, CredentialTypes
      <3>4. Looks("current", Plan(n, Absent, FALSE))
        BY Zenon, <2>2, <3>1, <3>2, <3>3
      <3> HIDE DEF Looks
      <3> QED
        BY Zenon, <3>4
    <2>3. CASE FindCurrent(c)
      <3>1. PICK old \in (IF ActiveVersions = {} THEN {Absent} ELSE ActiveVersions) :
               plan' = [plan EXCEPT ![c] = Plan(plan[c].number, old, plan[c].healthy)]
        BY Zenon, <2>3 DEF FindCurrent
      <3>2. old # Absent => old \in Numbers /\ connectorVersion[old] # Absent
        BY Zenon, <3>1 DEF ActiveVersions
      <3> DEFINE t == Plan(plan[c].number, old, plan[c].healthy)
      <3>3. t.number = plan[c].number /\ t.current = old
        BY Zenon DEF Plan
      <3>4. /\ plan[c].number \in Numbers /\ connectorVersion[plan[c].number] # Absent
            /\ versionLock'[plan[c].number] = c /\ Activatable(plan[c].number)
        <4>1. Activates(c) /\ at[c] = "current" /\ versionLock' = versionLock
          BY Zenon, <2>3 DEF CredentialInv, FindCurrent, connectorVars
        <4> QED
          BY Zenon, <4>1 DEF Activates
      <3>5. Reach(c, "swap") /\ plan' = [plan EXCEPT ![c] = t]
        BY Zenon, <2>3, <3>1 DEF FindCurrent
      <3> HIDE DEF t
      <3>6. Looks("swap", t)
        BY Zenon, <3>2, <3>3, <3>4, <3>5
      <3> HIDE DEF Looks
      <3> QED
        BY Zenon, <3>6
    <2> QED
      BY Zenon, <2>1, <2>2, <2>3
  <1> HIDE DEF Looks
  <1>a. PICK place \in {"verify", "current", "swap"} : \E t : Looks(place, t)
    BY Zenon, <1>4
  <1>5. PICK t : Looks(place, t)
    BY Zenon, <1>a
  <1>6. /\ at' \in [Admins -> AdminPlaces] /\ DOMAIN plan' = Admins
        /\ at'[c] = place /\ plan'[c] = t
        /\ \A q \in Admins : q # c => at'[q] = at[q] /\ plan'[q] = plan[q]
    <2>1. place \in AdminPlaces /\ Reach(c, place) /\ plan' = [plan EXCEPT ![c] = t]
      BY Zenon, <1>5 DEF AdminPlaces, Looks
    <2> QED
      BY Zenon, <2>1, RequestMoves
  <1>7. /\ apiKey' \in {Absent, "ACTIVE", "REVOKED"}
        /\ keyVersion' \in [Numbers -> {Absent} \cup Status]
        /\ KeyVersionsAgree'
        /\ \A q \in Admins : ChangesKey(q)'
    <2>1. \A q \in Admins : at'[q] \in {"rotate", "activate", "revoke"} => at'[q] = at[q]
      BY Zenon, <1>6
    <2> QED
      BY Zenon, <1>1, <2>1, KeyFrame
  <1>8. CredentialTypes'
    BY Zenon, <1>1, <1>2, <1>6, <1>7 DEF CredentialInv, CredentialTypes
  <1>9. ConnectorVersionsAgree'
    BY Zenon, <1>1 DEF CredentialInv, ConnectorVersionsAgree, UpTo
  <1>10. Creates(c)' /\ Activates(c)'
    BY Zenon, <1>1, <1>5, <1>6 DEF Creates, Activates, Activatable, Looks
  <1>11. ASSUME NEW q \in Admins, q # c PROVE Creates(q)' /\ Activates(q)'
    <2>1. Creates(q) /\ Activates(q) /\ q # Absent
      BY Zenon, <1>11, CredentialAssumption DEF CredentialInv
    <2>2. at'[q] = at[q] /\ plan'[q] = plan[q]
      BY Zenon, <1>6, <1>11
    <2>3. Creates(q)'
      BY Zenon, <1>1, <2>1, <2>2 DEF Creates, UpTo
    <2>4. Activates(q)'
      BY Zenon, <1>1, <1>3, <2>1, <2>2 DEF Activates, Activatable
    <2> QED
      BY Zenon, <2>3, <2>4
  <1> QED
    BY Zenon, <1>7, <1>8, <1>9, <1>10, <1>11 DEF CredentialInv

\* A request ends that wrote versions which exist: the rest of the invariant holds
\* if what is not pending is verified, and what others activate is as it was.
LEMMA VersionsChanged ==
  ASSUME CredentialInv, NEW c \in Admins, Answered(c), UNCHANGED keyVars,
         at[c] # "create", connector' = connector, connectorLock' = connectorLock,
         connectorVersion' \in [Numbers -> {Absent} \cup Versions],
         versionLock' \in [Numbers -> Admins \cup {Absent}],
         \A n \in Numbers : connectorVersion'[n] # Absent <=> connectorVersion[n] # Absent,
         \A n \in Numbers : connectorVersion'[n] # Absent /\ connectorVersion'[n].status # "PENDING" =>
            connectorVersion'[n].verified,
         \A q \in Admins, n \in Numbers :
            q # c /\ at[q] \in {"current", "swap"} /\ n = plan[q].number =>
               /\ versionLock'[n] = versionLock[n]
               /\ Activatable(n) => Activatable(n)'
  PROVE  CredentialInv'
  <1>1. /\ at' \in [Admins -> AdminPlaces] /\ DOMAIN plan' = Admins
        /\ at'[c] = "idle"
        /\ \A q \in Admins : q # c => at'[q] = at[q] /\ plan'[q] = plan[q]
    BY Zenon, RequestEnds
  <1>2. /\ apiKey' \in {Absent, "ACTIVE", "REVOKED"}
        /\ keyVersion' \in [Numbers -> {Absent} \cup Status]
        /\ KeyVersionsAgree'
        /\ \A q \in Admins : ChangesKey(q)'
    <2>1. \A q \in Admins : at'[q] \in {"rotate", "activate", "revoke"} => at'[q] = at[q]
      BY Zenon, <1>1
    <2> QED
      BY Zenon, <2>1, KeyFrame
  <1>3. CredentialTypes'
    BY Zenon, <1>1, <1>2 DEF CredentialInv, CredentialTypes
  <1>4. \A k : UpTo(k) <=> UpTo(k)'
    BY Zenon DEF UpTo
  <1>5. ConnectorVersionsAgree'
    BY Zenon, <1>4 DEF CredentialInv, ConnectorVersionsAgree
  <1>6. Creates(c)' /\ Activates(c)'
    BY Zenon, <1>1 DEF Creates, Activates
  <1>7. ASSUME NEW q \in Admins, q # c PROVE Creates(q)' /\ Activates(q)'
    <2>1. Creates(q)
      BY Zenon, <1>7 DEF CredentialInv
    <2>2. at'[q] = at[q] /\ plan'[q] = plan[q]
      BY Zenon, <1>1, <1>7
    <2>3. Creates(q)'
      BY Zenon, <1>4, <2>1, <2>2 DEF Creates
    <2>4. Activates(q)'
      BY Zenon, <1>7, <2>2, OthersActivate
    <2> QED
      BY Zenon, <2>3, <2>4
  <1> QED
    BY Zenon, <1>2, <1>3, <1>5, <1>6, <1>7 DEF CredentialInv

\* Verifying a version.
LEMMA VerifyKeeps ==
  ASSUME CredentialInv, NEW c \in Admins, VerifyConnectorVersion(c)
  PROVE  CredentialInv'
  <1>1. /\ at[c] = "verify" /\ Answered(c) /\ UNCHANGED keyVars
        /\ connector' = connector /\ connectorLock' = connectorLock /\ versionLock' = versionLock
    BY Zenon DEF VerifyConnectorVersion
  <1>2. PICK n \in Numbers : n = plan[c].number /\ connectorVersion[n] # Absent
    <2>1. Activates(c)
      BY Zenon DEF CredentialInv
    <2> QED
      BY Zenon, <1>1, <2>1 DEF Activates
  <1>3. "PENDING" \in Status
    BY Zenon DEF Status
  <1>4. PICK v \in Versions : v.status = "PENDING" /\ v.verified = TRUE /\ v # Absent
                              /\ v = Version("PENDING", TRUE)
    BY Zenon, <1>3, VersionIs
  <1>5. connectorVersion' = connectorVersion \/ connectorVersion' = [connectorVersion EXCEPT ![n] = v]
    BY Zenon, <1>2, <1>4 DEF VerifyConnectorVersion
  <1>6. /\ connectorVersion' \in [Numbers -> {Absent} \cup Versions]
        /\ \A m \in Numbers : \/ connectorVersion'[m] = connectorVersion[m]
                              \/ m = n /\ connectorVersion'[m] = v
    BY Zenon, <1>5 DEF CredentialInv, CredentialTypes
  <1>7. \A m \in Numbers : connectorVersion'[m] # Absent <=> connectorVersion[m] # Absent
    BY Zenon, <1>2, <1>4, <1>6
  <1>8. \A m \in Numbers : connectorVersion'[m] # Absent /\ connectorVersion'[m].status # "PENDING" =>
           connectorVersion'[m].verified
    BY Zenon, <1>4, <1>6 DEF CredentialInv, ConnectorVersionsAgree
  <1>9. \A m \in Numbers : Activatable(m) => Activatable(m)'
    BY Zenon, <1>4, <1>6 DEF Activatable
  <1>10. versionLock' \in [Numbers -> Admins \cup {Absent}]
    BY Zenon, <1>1 DEF CredentialInv, CredentialTypes
  <1>11. at[c] # "create"
    BY Zenon, <1>1
  <1> QED
    BY Zenon, <1>1, <1>6, <1>7, <1>8, <1>9, <1>10, <1>11, VersionsChanged

\* Activating a version in place of the current one.
LEMMA SwapKeeps ==
  ASSUME CredentialInv, NEW c \in Admins, ActivateConnectorVersion(c)
  PROVE  CredentialInv'
  <1>1. /\ at[c] = "swap" /\ Answered(c) /\ UNCHANGED keyVars
        /\ connector' = connector /\ connectorLock' = connectorLock
    BY Zenon DEF ActivateConnectorVersion
  <1>2. PICK n \in Numbers : /\ n = plan[c].number /\ connectorVersion[n] # Absent
                             /\ versionLock[n] = c /\ Activatable(n)
    <2>1. Activates(c)
      BY Zenon DEF CredentialInv
    <2> QED
      BY Zenon, <1>1, <2>1 DEF Activates
  <1>3. versionLock' = [versionLock EXCEPT ![n] = Absent]
    BY Zenon, <1>2 DEF ActivateConnectorVersion
  <1>4. /\ versionLock' \in [Numbers -> Admins \cup {Absent}]
        /\ \A m \in Numbers : m # n => versionLock'[m] = versionLock[m]
    BY Zenon, <1>3 DEF CredentialInv, CredentialTypes
  <1>5. \A m \in Numbers :
           connectorVersion'[m] =
              IF m = n THEN Version("ACTIVE", connectorVersion[m].verified)
              ELSE IF m = plan[c].current /\ connectorVersion[m].status = "ACTIVE"
                   THEN Version("REVOKED", connectorVersion[m].verified)
              ELSE connectorVersion[m]
    BY Zenon, <1>2 DEF ActivateConnectorVersion
  <1>6. \A m \in Numbers : m = plan[c].current => connectorVersion[m] # Absent
    <2>1. Activates(c)
      BY Zenon DEF CredentialInv
    <2>2. \A m \in Numbers : m # Absent
      BY Zenon, CredentialAssumption
    <2> QED
      BY Zenon, <1>1, <2>1, <2>2 DEF Activates
  <1>7. "ACTIVE" \in Status /\ "REVOKED" \in Status
    BY Zenon DEF Status
  <1> DEFINE Written(m) == /\ m = n \/ connectorVersion[m].status = "ACTIVE"
                           /\ connectorVersion[m] # Absent
                           /\ connectorVersion'[m] \in Versions /\ connectorVersion'[m] # Absent
                           /\ connectorVersion'[m].verified
  <1>8. ASSUME NEW m \in Numbers PROVE connectorVersion'[m] = connectorVersion[m] \/ Written(m)
    <2>1. CASE m = n
      <3>1. connectorVersion[m].verified = TRUE
        <4>1. connectorVersion[m].verified \in BOOLEAN
          BY Zenon, <1>2, <2>1, VersionOf DEF CredentialInv
        <4> QED
          BY Zenon, <1>2, <2>1, <4>1 DEF Activatable
      <3>2. connectorVersion'[m] = Version("ACTIVE", TRUE)
        BY Zenon, <1>5, <2>1, <3>1
      <3> QED
        BY Zenon, <1>2, <1>7, <2>1, <3>2, VersionIs
    <2>2. CASE m # n /\ m = plan[c].current /\ connectorVersion[m].status = "ACTIVE"
      <3>1. connectorVersion[m] # Absent
        BY Zenon, <1>6, <2>2
      <3>2. connectorVersion[m].verified \in BOOLEAN
        BY Zenon, <3>1, VersionOf DEF CredentialInv
      <3>3. connectorVersion[m].verified = TRUE
        BY Zenon, <2>2, <3>1, <3>2 DEF CredentialInv, ConnectorVersionsAgree
      <3>4. connectorVersion'[m] = Version("REVOKED", TRUE)
        BY Zenon, <1>5, <2>2, <3>3
      <3> QED
        BY Zenon, <1>7, <2>2, <3>1, <3>4, VersionIs
    <2>3. CASE m # n /\ ~(m = plan[c].current /\ connectorVersion[m].status = "ACTIVE")
      BY Zenon, <1>5, <2>3
    <2> QED
      BY Zenon, <2>1, <2>2, <2>3
  <1>9. connectorVersion' \in [Numbers -> {Absent} \cup Versions]
    <2>1. \A m \in Numbers : connectorVersion[m] \in {Absent} \cup Versions
      BY Zenon DEF CredentialInv, CredentialTypes
    <2>2. \A m \in Numbers : connectorVersion'[m] \in {Absent} \cup Versions
      BY Zenon, <1>8, <2>1
    <2>3. connectorVersion' = [m \in Numbers |-> connectorVersion'[m]]
      BY Zenon DEF ActivateConnectorVersion
    <2> QED
      BY Zenon, <2>2, <2>3
  <1>10. \A m \in Numbers : connectorVersion'[m] # Absent <=> connectorVersion[m] # Absent
    BY Zenon, <1>8
  <1>11. \A m \in Numbers : connectorVersion'[m] # Absent /\ connectorVersion'[m].status # "PENDING" =>
            connectorVersion'[m].verified
    BY Zenon, <1>8 DEF CredentialInv, ConnectorVersionsAgree
  <1>12. ASSUME NEW q \in Admins, NEW m \in Numbers,
                q # c, at[q] \in {"current", "swap"}, m = plan[q].number
         PROVE  versionLock'[m] = versionLock[m] /\ (Activatable(m) => Activatable(m)')
    <2>1. Activates(q)
      BY Zenon DEF CredentialInv
    <2>2. versionLock[m] = q /\ Activatable(m)
      BY Zenon, <1>12, <2>1 DEF Activates
    <2>3. m # n
      BY Zenon, <1>2, <1>12, <2>2
    <2>4. connectorVersion'[m] = connectorVersion[m]
      BY Zenon, <1>8, <2>2, <2>3 DEF Activatable
    <2> QED
      BY Zenon, <1>4, <2>3, <2>4 DEF Activatable
  <1>13. at[c] # "create"
    BY Zenon, <1>1
  <1> QED
    BY Zenon, <1>1, <1>4, <1>9, <1>10, <1>11, <1>12, <1>13, VersionsChanged

\* A step that changes nothing.
LEMMA CredentialStutter ==
  ASSUME CredentialInv, UNCHANGED credentialVars
  PROVE  CredentialInv'
  <1>1. UNCHANGED keyVars /\ UNCHANGED connectorVars /\ at' = at /\ plan' = plan
    BY Zenon DEF credentialVars
  <1>2. /\ apiKey' \in {Absent, "ACTIVE", "REVOKED"}
        /\ keyVersion' \in [Numbers -> {Absent} \cup Status]
        /\ KeyVersionsAgree'
        /\ \A q \in Admins : ChangesKey(q)'
    BY Zenon, <1>1, KeyFrame
  <1>3. /\ connector' \in {Absent, "ACTIVE"}
        /\ connectorVersion' \in [Numbers -> {Absent} \cup Versions]
        /\ versionLock' \in [Numbers -> Admins \cup {Absent}]
        /\ ConnectorVersionsAgree'
        /\ \A q \in Admins : Creates(q)' /\ Activates(q)'
    BY Zenon, <1>1, ConnectorFrame
  <1>4. CredentialTypes'
    BY Zenon, <1>1, <1>2, <1>3 DEF CredentialInv, CredentialTypes
  <1> QED
    BY Zenon, <1>2, <1>3, <1>4 DEF CredentialInv

\* Every step keeps the invariant.
LEMMA CredentialStepKeeps ==
  ASSUME CredentialInv, [CredentialNext]_credentialVars
  PROVE  CredentialInv'
  <1>1. CASE CreateAPIKey
    BY Zenon, <1>1, CreateKeyKeeps
  <1>2. ASSUME NEW c \in Admins,
               RotateAPIKey(c) \/ ActivateAPIKeyVersion(c) \/ RevokeAPIKey(c)
        PROVE  CredentialInv'
    BY Zenon, <1>2, ChangeKeyKeeps
  <1>3. ASSUME NEW c \in Admins, CreateBegin(c) \/ CreateConnectorVersion(c)
        PROVE  CredentialInv'
    BY Zenon, <1>3, CreateBeginKeeps, CreateVersionKeeps
  <1>4. ASSUME NEW c \in Admins, VerifyConnectorVersion(c) \/ ActivateConnectorVersion(c)
        PROVE  CredentialInv'
    BY Zenon, <1>4, VerifyKeeps, SwapKeeps
  <1>5. ASSUME NEW c \in Admins, NEW n \in Numbers,
               NEW operation \in {"rotate", "activate", "revoke"}, BeginKey(c, operation, n)
        PROVE  CredentialInv'
    BY Zenon, <1>5, BeginKeyKeeps
  <1>6. ASSUME NEW c \in Admins, NEW n \in Numbers, CheckHealth(c, n) \/ ActivateBegin(c, n)
        PROVE  CredentialInv'
    BY Zenon, <1>6, LookKeeps
  <1>7. ASSUME NEW c \in Admins, FindCurrent(c)
        PROVE  CredentialInv'
    BY Zenon, <1>7, LookKeeps
  <1>8. CASE UNCHANGED credentialVars
    BY Zenon, <1>8, CredentialStutter
  <1> QED
    BY Zenon, <1>1, <1>2, <1>3, <1>4, <1>5, <1>6, <1>7, <1>8 DEF CredentialNext

\* For any number of requests and versions the invariant of the credentials always
\* holds: a change of an API key holds its row, the number of a new connector
\* version is the next one, and a version that is being activated stays locked,
\* pending and verified.
THEOREM CredentialInvariance == CredentialSpec => []CredentialInv
  BY CredentialStarts, CredentialStepKeeps, PTL DEF CredentialSpec

\* The invariant of a state implies what is promised of it.
LEMMA CredentialsOfState ==
  ASSUME CredentialInv
  PROVE  OneActiveKeyVersion /\ ActiveWasVerified
  <1>1. OneActiveKeyVersion
    <2> DEFINE S == {n \in Numbers : keyVersion[n] = "ACTIVE"}
    <2>1. \A x, y \in S : x = y
      BY Zenon DEF CredentialInv, KeyVersionsAgree
    <2> HIDE DEF S
    <2>2. Cardinality(S) = IF S = {} THEN 0 ELSE 1
      BY Zenon, <2>1, CountSmall
    <2>3. Cardinality(S) <= 1
      BY <2>2
    <2> QED
      BY Zenon, <2>3 DEF CredentialInv, KeyVersionsAgree, OneActiveKeyVersion, S
  <1>2. ActiveWasVerified
    <2>1. PICK k \in 0 .. MaxVersion : UpTo(k)
      BY Zenon DEF CredentialInv, ConnectorVersionsAgree
    <2>2. ASSUME NEW n \in Numbers, connectorVersion[n] # Absent, NEW m \in 1 .. n
          PROVE  connectorVersion[m] # Absent
      <3>1. n <= k
        BY Zenon, <2>1, <2>2 DEF UpTo
      <3>2. m \in Numbers /\ m <= k
        BY <2>2, <3>1, CredentialAssumption DEF Numbers
      <3> QED
        BY Zenon, <2>1, <3>2 DEF UpTo
    <2> QED
      BY Zenon, <2>2 DEF ActiveWasVerified, CredentialInv, ConnectorVersionsAgree
  <1> QED
    BY Zenon, <1>1, <1>2

\* A step never makes a revoked version of a key valid again.
LEMMA RevokedStands ==
  ASSUME CredentialInv, [CredentialNext]_credentialVars,
         NEW n \in Numbers, keyVersion[n] = "REVOKED"
  PROVE  keyVersion'[n] = "REVOKED"
  <1>0. "REVOKED" # Absent /\ keyVersion \in [Numbers -> {Absent} \cup Status]
    BY Zenon, CredentialAssumption DEF Status, CredentialInv, CredentialTypes
  <1>1. CASE keyVersion' = keyVersion
    BY Zenon, <1>1
  <1>2. CASE CreateAPIKey
    <2>1. keyVersion[n] = Absent
      BY Zenon, <1>2 DEF CreateAPIKey, CredentialInv, KeyVersionsAgree
    <2> QED
      BY Zenon, <1>0, <2>1
  <1>3. ASSUME NEW c \in Admins, RotateAPIKey(c) PROVE keyVersion'[n] = "REVOKED"
    BY Zenon, <1>0, <1>3 DEF RotateAPIKey
  <1>4. ASSUME NEW c \in Admins, ActivateAPIKeyVersion(c) PROVE keyVersion'[n] = "REVOKED"
    BY Zenon, <1>0, <1>4 DEF ActivateAPIKeyVersion, Pending
  <1>5. ASSUME NEW c \in Admins, RevokeAPIKey(c) PROVE keyVersion'[n] = "REVOKED"
    BY Zenon, <1>0, <1>5 DEF RevokeAPIKey
  <1>6. ASSUME NEW c \in Admins,
               \/ CreateBegin(c) \/ CreateConnectorVersion(c)
               \/ VerifyConnectorVersion(c) \/ FindCurrent(c) \/ ActivateConnectorVersion(c)
        PROVE  keyVersion' = keyVersion
    BY Zenon, <1>6 DEF CreateBegin, CreateConnectorVersion, VerifyConnectorVersion, FindCurrent,
                ActivateConnectorVersion, keyVars
  <1>7. ASSUME NEW c \in Admins, NEW m \in Numbers, CheckHealth(c, m) \/ ActivateBegin(c, m)
        PROVE  keyVersion' = keyVersion
    BY Zenon, <1>7 DEF CheckHealth, ActivateBegin, keyVars
  <1>8. ASSUME NEW c \in Admins, NEW m \in Numbers, NEW operation, BeginKey(c, operation, m)
        PROVE  keyVersion' = keyVersion
    BY Zenon, <1>8 DEF BeginKey
  <1>9. CASE UNCHANGED credentialVars
    BY Zenon, <1>1, <1>9 DEF credentialVars, keyVars
  <1> QED
    BY Zenon, <1>1, <1>2, <1>3, <1>4, <1>5, <1>6, <1>7, <1>8, <1>9 DEF CredentialNext

\* CredentialPromise for any number of concurrent admin requests and of versions:
\* an API key has at most one valid secret and a revoked one is never valid again,
\* only a verified connector version becomes active, and version numbers have no
\* gaps (rotate_api_key, activate_api_key_version, revoke_api_key,
\* create_connector_version, activate_connector_version).
THEOREM CredentialPromiseTheorem == CredentialSpec => CredentialPromise
  <1>1. CredentialInv => OneActiveKeyVersion /\ ActiveWasVerified
    BY Zenon, CredentialsOfState
  <1>2. CredentialInv /\ [CredentialNext]_credentialVars =>
           [\A n \in Numbers : keyVersion[n] = "REVOKED" => keyVersion'[n] = "REVOKED"]_credentialVars
    BY Zenon, RevokedStands
  <1> QED
    BY <1>1, <1>2, CredentialInvariance, PTL
       DEF CredentialSpec, CredentialPromise, RevokedStaysRevoked

==============================================================================
