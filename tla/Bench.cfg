\* Three trials of three attempts, one at a time or two together, for a streak limit of two.
CONSTANTS
    Dials = {"warm_up", "trial"}
    MaxAttempts = 3
    Trials = 3
    Attempts = 3
    RoundSizes = {1, 2}
    RefusalStreakLimit = 2
SPECIFICATION Spec
INVARIANTS
    UnmarkedReportIsTheTransport
    ConditionalRatesMultiply
    StreamsOfAnArmAddUp
    StoppedExactlyForADeadClient
CHECK_DEADLOCK FALSE
