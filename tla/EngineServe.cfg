\* Three HTTP requests over one Serve slot, a load, an unload and a stop of the
\* server: who waits, who is woken, whose slot is stolen, what ends.
SPECIFICATION FairSpec
CONSTANTS
    NapiReqs = {}
    ServeReqs = {s1, s2, s3}
    Conversations = {}
    Stoppers = {}
    MaxParallel = 1
    LoadParallels = {1}
    MaxLoads = 1
    MaxUnloads = 1
    MaxDeletes = 0
    MaxServerStops = 1
    Nobody = Nobody
    NoConv = NoConv
PROPERTIES
    WaitersServed
    OperationsEnd
CHECK_DEADLOCK FALSE
