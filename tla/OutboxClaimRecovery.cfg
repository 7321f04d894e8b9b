SPECIFICATION FairSpec
CONSTANTS
    Nobody = Nobody
    Threads = {t1}
    Orders = {o1}
    RuleOrders = {o1}
    Scopes = {"operator_global", "broker_drift"}
    Qty = 2
    Requests = {"propose", "approve", "submit", "require", "sync", "startup", "reset"}
    Endings = {"canceled", "rejected", "expired"}
PROPERTIES
    ClaimRecovers
