\* A sync request with a stream or a call from the UI, one slot per pool, any
\* number of servers, two callers of Stop.
SPECIFICATION Spec
CONSTANTS
    r1 = r1
    r2 = r2
    ui = ui
    task = task
    Requests <- MCRequests
    Mixes <- MCMixes
    Callers <- MCCallers
    Split <- MCSplit
    UI = ui
    PoolSize = 1
    MaxPieces = 2
INVARIANTS
    TypeOK
    ServerOutlivesHandlers
    QuietWhenDown
PROPERTIES
    DeliversAll
    WaitsEnd
