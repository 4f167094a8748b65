\* Two ids; four births or changes, so that an answer is asked for, streamed and
\* ended; two of them once the user has gone astray; any number of restarts.
SPECIFICATION Spec
CONSTANTS
    MaxId = 2
    MaxChanges = 4
    MaxAstray = 2
INVARIANTS
    TypeOK
    StoredWhole
    RemovedForGood
    
PROPERTIES
    ChainGoesOn
