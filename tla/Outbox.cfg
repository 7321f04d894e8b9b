SPECIFICATION Spec
CONSTANTS
    Nobody = Nobody
    Threads = {t1, t2}
    Orders = {o1}
    RuleOrders = {o1}
    Scopes = {"operator_global", "broker_drift", "loss"}
    Qty = 2
    Requests = {"propose", "approve", "reject", "expire", "expireApproved", "submit",
                "trip", "reset", "require", "sync", "startup"}
    Endings = {"canceled"}
SYMMETRY AnyThread
INVARIANTS
    SendOnce
    GroupHeld
    ExposureTracked
PROPERTIES
    TerminalIsFinal
    SendDiscipline
