SPECIFICATION MCSpec
CONSTANTS
    Attempts = {"a1", "a2", "a3"}
    CallLimit = 2
    TokenLimit = 3
    TTL = 1
    Sizes = {2}
    Usages = {0, 3}
    DayLength = 2
    LockWait = 1
    MaxTime = 2
INVARIANTS
    CeilingHeld
    CalledIsCharged
    UsageIsBounded
PROPERTIES
    AmbiguityBlocks
    PilotKeepsOut
