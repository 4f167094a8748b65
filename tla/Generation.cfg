\* Two runs on a slot of five positions: prompts up to one more than the
\* context, batches of two, outputs that slide the window twice.
SPECIFICATION Spec
CONSTANTS
    Tokens = {a}
    Eog = Eog
    Image = Image
    None = None
    Context = 5
    Batch = 2
    MaxPrompt = 6
    Limits = {1, 7}
    MaxTurns = 2
INVARIANTS
    TypeOK
    CacheIsExact
    WindowIsKv
    FitsContext
    WindowKeepsEnds
    AlwaysSampled
CHECK_DEADLOCK FALSE
