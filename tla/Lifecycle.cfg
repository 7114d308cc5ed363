\* Either half, watched by one supervisor.
CONSTANTS
    Supervisors = {p1}
    MaxTasks = 2
SPECIFICATION FairSpec
INVARIANTS
    ReadyIsNeverPremature
    
PROPERTIES
    StartupEnds
    StopRequestsEnd
CHECK_DEADLOCK FALSE
