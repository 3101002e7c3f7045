SPECIFICATION PeekSpec
CONSTANTS
    None = None
    Clients <- SomeClients
    Datagrams <- SomeDatagrams
    MAX_SERVER_NAME = 2
    NotUtf8 = 9
    Cuts <- SomeCuts
    MaxFrames = 3
INVARIANTS
    InPlace
    NothingMissed
    PeekExact
    StaysInside
    NamedIsKnock
