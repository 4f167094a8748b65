\* Two UI requests over two conversations and one HTTP request, pools of one
\* slot, one load, one unload, one deletion.
SPECIFICATION Spec
CONSTANTS
    NapiReqs = {n1, n2}
    ServeReqs = {s1}
    Conversations = {a, b}
    Stoppers = {}
    MaxParallel = 1
    LoadParallels = {1}
    MaxLoads = 1
    MaxUnloads = 1
    MaxDeletes = 1
    MaxServerStops = 0
    Nobody = Nobody
    NoConv = NoConv
SYMMETRY Symmetry
INVARIANTS
    TypeOK
    LeasesExclusive
    UsedSlotsHeld
    StartsClean
    CacheDescribesKv
    StopReachesAll
CHECK_DEADLOCK FALSE
