\* A stopAllGenerations between the two stores of ClearStopAll.
SPECIFICATION Spec
CONSTANTS
    NapiReqs = {n1}
    ServeReqs = {}
    Conversations = {a}
    Stoppers = {p1}
    MaxParallel = 1
    LoadParallels = {1}
    MaxLoads = 1
    MaxUnloads = 0
    MaxDeletes = 0
    MaxServerStops = 0
    Nobody = Nobody
    NoConv = NoConv
INVARIANTS
    StopAllEndsWithLast
CHECK_DEADLOCK FALSE
