\* Three UI requests of two conversations and a stopAllGenerations.
SPECIFICATION Spec
CONSTANTS
    NapiReqs = {n1, n2, n3}
    ServeReqs = {}
    Conversations = {a, b}
    Stoppers = {p1}
    MaxParallel = 1
    LoadParallels = {1}
    MaxLoads = 1
    MaxUnloads = 0
    MaxDeletes = 0
    MaxServerStops = 0
    Nobody = Nobody
    NoConv = NoConv
SYMMETRY Symmetry
INVARIANTS
    StartsClean
CHECK_DEADLOCK FALSE
