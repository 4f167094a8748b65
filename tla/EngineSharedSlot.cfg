\* Two UI requests and two loads: a request that acquired its slot before a
\* reload is registered after it.
SPECIFICATION Spec
CONSTANTS
    NapiReqs = {n1, n2}
    ServeReqs = {}
    Conversations = {a, b}
    Stoppers = {}
    MaxParallel = 1
    LoadParallels = {1}
    MaxLoads = 2
    MaxUnloads = 0
    MaxDeletes = 0
    MaxServerStops = 0
    Nobody = Nobody
    NoConv = NoConv
SYMMETRY Symmetry
INVARIANTS
    LeasesExclusive
CHECK_DEADLOCK FALSE
