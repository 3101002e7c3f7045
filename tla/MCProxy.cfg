SPECIFICATION Spec
CONSTANTS
    Backends = {1, 2}
    Clients = {c1, c2, c3}
    Names = {"creative"}
    Route <- TwoRoutes
    Default = 1
    None = None
    TICK = 2
    IdleTimeout = 2
    SessionTimeout = 3
    ShutdownGrace = 3
    MAX_HELD_CLIENTS = 2
    StatusMayFail = TRUE
SYMMETRY ClientSymmetry
INVARIANTS
    TypeOK
    HeldOnlyWhileWaking
    SessionsOnlyToRunning
    SpawnFindsAddressFree
    NoticedInTime
    NothingLeftBehind
PROPERTIES
    SessionLossHasCause
    PinIsStable
    KeepsPromise
    KeepsContract
