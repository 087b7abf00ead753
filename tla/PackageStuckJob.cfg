SPECIFICATION FairSpec
CONSTANTS
    Clients = {c1, c2}
    Exports = {}
    Worker = worker
    Requests = {"submit"}
    Sources = {"valid"}
    NoOne = none
    MaxVersion = 6
    MaxJob = 4
    Mishaps = {}
    MaxMishap = 0
PROPERTIES
    JobsFinish
CHECK_DEADLOCK FALSE
