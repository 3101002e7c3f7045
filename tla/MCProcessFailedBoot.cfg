SPECIFICATION Spec
CONSTANTS
    Bytes = {"a", "b"}
    BOOT_MARKER <- Banner
    MaxChunk = 4
    MaxOutput = 5
PROPERTY
    TimedOutBootLeavesNothing
