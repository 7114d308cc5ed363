\* Three streams for two permits, under the deadlines of the listening half.  One stream may carry two
\* chunks, or two may carry one each.
CONSTANTS
    Streams = {s1, s2, s3}
    MaxStreams = 2
    MaxChunks = 2
    MaxSent = 2
SPECIFICATION FairSpec
INVARIANTS
    TypeOK
    CapacityIsKept
    GaugeIsHonest
    UpstreamOnlyForRequests
    CountersAddUp
PROPERTY
    SilentStreamsAreLetGo
CHECK_DEADLOCK FALSE
