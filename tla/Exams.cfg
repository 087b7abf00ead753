SPECIFICATION FairSpec
CONSTANTS
    p1 = p1
    p2 = p2
    p3 = p3
    p4 = p4
    right = right
    wrong = wrong
    file1 = file1
    Clients = {c1, c2}
    Loop = loop
    None = none
    Prompts = {p1, p2, p3, p4}
    Alike <- MCAlike
    Answers = {right, wrong}
    Attempts = {file1}
    Completed <- MCCompleted
    Size = 2
    MaxTries = 2
    MaxExam = 2
    MaxRequest = 4
    MaxKill = 1
INVARIANTS
    AsksNothingTwice
    StoredExamsAreComplete
    SessionsAreReadable
    RecordedIsGraded
    GradedStaysGraded
PROPERTIES
    RequestsEnd
CHECK_DEADLOCK FALSE
