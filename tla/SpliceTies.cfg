\* EveryUnansweredWriteIsNoticed, on the dialling half's watchdog with a punctual ticker.
CONSTANTS
    Stall = {5}
    Idle = {}
    Floor = 2
    Ceiling = 3
    IdlePeriod = 36
    Late = 0
    MaxTime = 14
SPECIFICATION Spec
INVARIANT
    EveryUnansweredWriteIsNoticed
CHECK_DEADLOCK FALSE
