SPECIFICATION Spec
CONSTANTS
    c1 = c1
    c2 = c2
    c3 = c3
    c4 = c4
    c5 = c5
    c6 = c6
    c7 = c7
    c8 = c8
    c9 = c9
    c10 = c10
    Chunks = {c1, c2, c3, c4, c5, c6, c7, c8, c9, c10}
    Cut <- MCCut
    Whole <- MCWhole
    MaterialOf <- MCMaterialOf
    SectionOf <- MCSectionOf
    KeyOf <- MCKeyOf
    Tagged = {}
    Rankings <- MCRankings
    Requests <- MCRequests
    Payloads <- MCPayloads
    Wordings <- MCWordings
    ShortAnswers <- MCShortAnswers
    Scores <- MCScores
    LiveModel = TRUE
    EnableTorch = TRUE
    MaxChunks = 4
    MaxQuizzes = 1
INVARIANTS
    SessionsAreWhole
    NothingRepeated
    SeenIsAsked
    KeyIsTheAnswer
    OnlyTheModelDelivers
CHECK_DEADLOCK FALSE
