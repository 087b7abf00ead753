SPECIFICATION Spec
CONSTANTS
    q = q
    x = x
    Clients = {c1, c2}
    Concepts = {x}
    Quizzes = {q}
    Asks <- MCAsks
    MaxPrompt = 2
    MaxNamed = 2
    MaxRequest = 4
    MaxKill = 1
SYMMETRY ClientSymmetry
INVARIANTS
    MasteryIsAttempted
    ResultsAreAttempted
    TableIsOfOneMoment
    SerialPracticeIsExact
CHECK_DEADLOCK FALSE
