SPECIFICATION QuerySpec
CONSTANTS
    g1 = g1
    g2 = g2
    g3 = g3
    Groups = {g1, g2, g3}
    NoGroup = NoGroup
    Inputs <- MCInputs
    Requests <- MCRequests
    NoPath = NoPath
    NoOwner = NoOwner
    NoRelation = NoRelation
    NoManifest = NoManifest
    NoWord = NoWord
    Bytes <- MCBytes
CHECK_DEADLOCK FALSE
INVARIANTS
    ClosureIsReachable
    CyclesAreWarned
    SectionsNest
    LinksLeadHome
    ScoresAreDistances
    AnswerIsBestInScope
    PackWithinBudget
