SPECIFICATION FairMCSpec
CONSTANTS
    Threads = {t1, t2, t3}
    Nobody = Nobody
INVARIANTS
    BarrierHolds
PROPERTIES
    NobodyStarves
    ImplementsOrderingBarrier
    RequestsEnd
    RuntimesGoOn
