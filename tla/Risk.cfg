SPECIFICATION MCSpec
CONSTANTS
    Runtimes = {"app", "daemon"}
    Apps = {"app"}
    MaxTime = 3
    MaxKills = 1
    MaxDrifts = 1
    MaxGenerations = 3
INVARIANTS
    OrdersAwaitProof
    LimitsHold
    StatusIsTrue
PROPERTIES
    StopsHold
