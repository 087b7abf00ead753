SPECIFICATION Spec
CONSTANTS
    Clients = {c1, c2}
    Starter = starter
    NoOne = none
    Keys = {k1}
    Cache = TRUE
    Asked = 2
    MaxTry = 2
    Failures = {"plan", "question"}
    CallbackFirst = FALSE
    MaxJob = 1
    Mishaps = {"crash", "fault"}
    MaxMishap = 1
INVARIANTS
    CompletedIsDelivered
    ProgressIsFetchable
PROPERTIES
    CancelPreventsDelivery
CHECK_DEADLOCK FALSE
