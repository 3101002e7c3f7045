SPECIFICATION FairSpec
CONSTANTS
    Bytes = {"a", "b"}
    BOOT_MARKER <- Banner
    MaxChunk = 4
    MaxOutput = 5
INVARIANTS
    TypeOK
    NoLostWakeup
    ReadyMeansBooted
    KillReachesGroup
    BannerFound
PROPERTIES
    StopReturns
    BootIsDecided
    ImplementsBackend
