SPECIFICATION Spec
CONSTANTS
    Clients = {c1}
    Loop = loop
    Worker = worker
    None = none
    Contents = {k1}
    Modules = {x1}
    ParseCache = TRUE
    MaxMaterial = 2
    Ops = {"retry", "reprocess", "regenerate", "delete", "search"}
    MaxOp = 2
    Failures = {"parse", "raise"}
    CallbackFirst = FALSE
    MaxKill = 1
INVARIANTS
    ContentListedOnce
    UnsettledIsInHand
    ReadyIsStudied
PROPERTIES
    GoneStaysGone
CHECK_DEADLOCK FALSE
