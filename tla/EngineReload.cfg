\* Two UI requests, one stopAllGenerations and two loads: the model is replaced
\* under requests that are beginning, running and ending.
SPECIFICATION Spec
CONSTANTS
    NapiReqs = {n1, n2}
    ServeReqs = {}
    Conversations = {a, b}
    Stoppers = {p1}
    MaxParallel = 2
    LoadParallels = {1, 2}
    MaxLoads = 2
    MaxUnloads = 0
    MaxDeletes = 1
    MaxServerStops = 0
    Nobody = Nobody
    NoConv = NoConv
SYMMETRY Symmetry
INVARIANTS
    ActiveCountExact
    ModelPinned
    OneSlotPerConversation
PROPERTIES
    LeaseSpec
    StopAllHandedOn
CHECK_DEADLOCK FALSE
