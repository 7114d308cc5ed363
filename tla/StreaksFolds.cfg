\* Two tasks folding up to six dials, under the limits of the code.
CONSTANTS
    Tasks = {t1, t2}
    RefusalLimit = 5
    DeadEndLimit = 3
    MaxFolds = 6
SPECIFICATION FairSpec
INVARIANTS
    TypeOK
    ExitIsEarned
    DeadClientIsReported
PROPERTIES
    FoldsAreAtomic
    DeadClientEndsTheProcess
CHECK_DEADLOCK FALSE
