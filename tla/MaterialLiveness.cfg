SPECIFICATION FairSpec
CONSTANTS
    Clients = {c1}
    Loop = loop
    Worker = worker
    None = none
    Contents = {k1}
    Modules = {}
    ParseCache = TRUE
    MaxMaterial = 2
    Ops = {"retry", "reprocess", "regenerate", "delete", "search"}
    MaxOp = 2
    Failures = {"parse", "raise"}
    CallbackFirst = TRUE
    MaxKill = 1
PROPERTIES
    MaterialsSettle
    RequestsAnswered
CHECK_DEADLOCK FALSE
