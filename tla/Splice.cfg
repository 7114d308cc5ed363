\* Both deadlines set, as in the test of splice.rs:338-341, the stall one the shorter.
CONSTANTS
    Stall = {9}
    Idle = {10}
    Floor = 1
    Ceiling = 5
    IdlePeriod = 36
    Late = 1
    MaxTime = 17
SPECIFICATION Spec
INVARIANTS
    TypeOK
    AnswersHoldOffTheStall
    StallIsEarned
    StallIsTimely
    StalledMeansSilentOrUnread
    IdleIsTimely
    IdleNeverHidesAStall
CHECK_DEADLOCK FALSE
