SPECIFICATION Spec
CONSTANTS
    Letters = {"", "a"}
    LetterCount <- Lengths
    MAX_SERVER_NAME = 2
    MaxDots = 2
    MaxRoutes = 2
    Addresses <- SomeAddresses
INVARIANTS
    RoutesReachable
    SlotsUnambiguous
