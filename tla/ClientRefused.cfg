\* A first round the local client refused outright.
CONSTANTS
    Dials = {d1, d2}
    MaxAttempts = 1
    Attempts = 1
    Concurrency = 1
    RefusalLimit = 2
    DeadEndLimit = 2
SPECIFICATION Spec
INVARIANT
    FirstRoundFailuresWentUnanswered
CHECK_DEADLOCK FALSE
