SPECIFICATION FairSpec
CONSTANTS
    Clients = {c1}
    Starter = starter
    NoOne = none
    Keys = {k1}
    Cache = TRUE
    Asked = 1
    MaxTry = 1
    Failures = {"plan"}
    CallbackFirst = FALSE
    MaxJob = 1
    Mishaps = {}
    MaxMishap = 0
PROPERTIES
    RequestsAnswered
CHECK_DEADLOCK FALSE
