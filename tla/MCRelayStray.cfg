SPECIFICATION RelaySpec
CONSTANTS
    Backends = {1, 2}
    Clients = {c1}
    Names = {"creative"}
    Route <- TwoRoutes
    Default = 1
    None = None
    TICK = 1
    IdleTimeout = 1
    SessionTimeout = 2
    ShutdownGrace = 1
    MAX_HELD_CLIENTS = 1
    StatusMayFail = FALSE
    MaxWaiting = 1
PROPERTY
    PinnedByInitial
