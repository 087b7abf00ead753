SPECIFICATION FairSpec
CONSTANTS
    Clients = {c1, c2}
    Starter = starter
    NoOne = none
    Keys = {k1}
    Cache = TRUE
    Asked = 1
    MaxTry = 1
    Failures = {"plan", "question"}
    CallbackFirst = TRUE
    MaxJob = 1
    Mishaps = {"crash"}
    MaxMishap = 2
INVARIANTS
    NoJobForgotten
PROPERTIES
    JobsFinish
    RequestsAnswered
CHECK_DEADLOCK FALSE
