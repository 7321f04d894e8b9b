SPECIFICATION Spec
CONSTANTS
    Nobody = Nobody
    Threads = {t1, t2}
    Orders = {o1, o2}
    RuleOrders = {}
    Scopes = {"operator_global", "broker_drift"}
    Qty = 1
    Requests = {"propose", "approve", "submit", "require", "sync", "startup"}
    Endings = {}
SYMMETRY AnyThreadOrOrder
INVARIANTS
    OneUnresolved
PROPERTIES
    UnlockIsClean
