SPECIFICATION Spec
CONSTANTS
    Clients = {c1}
    Exports = {e1}
    Worker = worker
    Requests = {"submit", "cancel"}
    Sources = {"invalid", "valid"}
    NoOne = none
    MaxVersion = 4
    MaxJob = 2
    Mishaps = {"crash", "fault"}
    MaxMishap = 1
INVARIANTS
    TypeOK
    CompleteVersionsBuilt
    EarlierVersionsBuilt
    CompletePackageBuilt
    CompleteJobsBuilt
PROPERTIES
    CancelledIsFinal
    ReleasesInOrder
CHECK_DEADLOCK FALSE
