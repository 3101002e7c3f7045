SPECIFICATION Spec
CONSTANTS
    Backends = {1, 2}
    Clients = {c1, c2}
    Names = {"creative"}
    Route <- TwoRoutes
    Default = 1
    None = None
    TICK = 2
    IdleTimeout = 3
    SessionTimeout = 3
    ShutdownGrace = 1
    MAX_HELD_CLIENTS = 1
    StatusMayFail = TRUE
PROPERTY
    StoppedAfterIdleTimeout
