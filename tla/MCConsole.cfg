SPECIFICATION FairSpec
CONSTANTS
    MaxStarts = 3
    MaxChunks = 3
    None = None
INVARIANTS
    TypeOK
    OnlyCurrentPipe
    PipeNotLost
PROPERTIES
    StopReturns
