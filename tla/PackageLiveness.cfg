SPECIFICATION FairSpec
CONSTANTS
    Clients = {c1}
    Exports = {}
    Worker = worker
    Requests = {"submit", "cancel", "validate"}
    Sources = {"unavailable", "invalid", "valid"}
    NoOne = none
    MaxVersion = 4
    MaxJob = 2
    Mishaps = {"crash"}
    MaxMishap = 1
PROPERTIES
    JobsFinish
CHECK_DEADLOCK FALSE
