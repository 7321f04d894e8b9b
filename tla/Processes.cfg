SPECIFICATION MCSpec
CONSTANTS
    Procs = {"a1", "a2", "d1", "m1"}
    RoleOf <- ProcRoles
    Ttl = 2
INVARIANTS
    TenureHolds
    ProcessesAreKnown
PROPERTIES
    ControlActsOnTruth
