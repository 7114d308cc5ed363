\* One stream whose first request is its only one.
CONSTANTS
    Streams = {s1, s2}
    MaxStreams = 2
    MaxChunks = 2
    MaxSent = 2
SPECIFICATION Spec
INVARIANT
    BytesAreWhatWasCarried
CHECK_DEADLOCK FALSE
