\* Two sessions, three messages, two loads of one or two slots, one unload.
SPECIFICATION FairSpec
CONSTANTS
    Ids = {a, b}
    Parallels = {1, 2}
    MaxSends = 3
    MaxLoads = 2
    MaxUnloads = 1
INVARIANTS
    TypeOK
    QueueIsExact
    RunningHasRequest
    DeletedAreStopped
    RetryIsCurrent
    EngineAgrees
    TimelyHasCaller
PROPERTIES
    RefusedOnlyForDeleted
    QueuedLeaves
CHECK_DEADLOCK FALSE
