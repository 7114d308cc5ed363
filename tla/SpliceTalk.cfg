\* TalkingPostponesNothing: a check period held down by its ceiling, and a punctual ticker.
CONSTANTS
    Stall = {9}
    Idle = {}
    Floor = 1
    Ceiling = 2
    IdlePeriod = 36
    Late = 0
    MaxTime = 14
SPECIFICATION Spec
INVARIANT
    TalkingPostponesNothing
CHECK_DEADLOCK FALSE
