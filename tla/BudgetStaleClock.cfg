SPECIFICATION Spec
CONSTANTS
    Attempts = {a1, a2}
    CallLimit = 2
    TokenLimit = 4
    TTL = 1
    Sizes = {2}
    Usages = {0, 3}
    DayLength = 2
    LockWait = 1
    MaxTime = 3
INVARIANT NoFalseAlarm
