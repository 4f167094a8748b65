\* Two HTTP requests over one Serve slot: the deadline of the wait, which
\* overflows, may end it at once.
SPECIFICATION Spec
CONSTANTS
    NapiReqs = {}
    ServeReqs = {s1, s2}
    Conversations = {}
    Stoppers = {}
    MaxParallel = 1
    LoadParallels = {1}
    MaxLoads = 1
    MaxUnloads = 0
    MaxDeletes = 0
    MaxServerStops = 0
    Nobody = Nobody
    NoConv = NoConv
PROPERTIES
    QueueWaits
CHECK_DEADLOCK FALSE
