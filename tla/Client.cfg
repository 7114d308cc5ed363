\* Two connections whose dials take up to two rounds, the second cut to what is left of the budget.
CONSTANTS
    Dials = {d1, d2}
    MaxAttempts = 3
    Attempts = 3
    Concurrency = 2
    RefusalLimit = 2
    DeadEndLimit = 1
SPECIFICATION FairSpec
INVARIANTS
    TypeOK
    StreamsAccountedFor
    BudgetIsSpentExactly
    VerdictFollowsTheEcho
    ConnectionsAddUp
    RetriesExplainTheGap
    StreamsAddUp
    DeadClientWasRefused
PROPERTIES
    EveryDialEnds
    OpensDoNotWaitForProbes
CHECK_DEADLOCK FALSE
