\* Three streams to try, two requests, each answered in two chunks, with and without a probe.
CONSTANTS
    Attempts = 3
    Requests = 2
    AnswerLen = 2
SPECIFICATION FairSpec
INVARIANTS
    ProbedStreamIsWhole
    OnlyTheKeptStreamIsServed
PROPERTIES
    TunnelIsAConduit
    RequestsEnd
CHECK_DEADLOCK FALSE
