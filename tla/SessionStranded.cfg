\* One session whose message is sent while another model is loading.
SPECIFICATION Spec
CONSTANTS
    Ids = {a, b}
    Parallels = {1}
    MaxSends = 2
    MaxLoads = 2
    MaxUnloads = 0
SYMMETRY Symmetry
INVARIANTS
    QueueHasCaller
CHECK_DEADLOCK FALSE
