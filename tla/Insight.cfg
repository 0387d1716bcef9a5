SPECIFICATION PartSpec
CONSTANTS
    Requests = {q1, q2, q3}
    Texts = {t1, t2}
    Keys = {k1, k2}
    Tokens = {1, 2}
    TokenBudget = 3
    Raising = {"classify", "narrate"}
    MaxCrashes = 2
    NULL = NULL
    q1 = q1
    q2 = q2
    q3 = q3
    t1 = t1
    t2 = t2
    k1 = k1
    k2 = k2
INVARIANT AnswerPromise
INVARIANT ReviewPromise
INVARIANT ForecastPromise
CHECK_DEADLOCK FALSE
