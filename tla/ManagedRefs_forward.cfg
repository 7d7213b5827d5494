SPECIFICATION RefSpec
CONSTANTS
    r1 = r1
    r2 = r2
    r3 = r3
    Branches = {"main", "a"}
    Default = "main"
    WorkBranches = {"a"}
    Targets = {"main"}
    Requests = {r1, r2, r3}
    MaxCommits = 3
SYMMETRY Symmetric
INVARIANTS ReportedStaysReachable
PROPERTIES DefaultMovesForward RetiredIsMerged 
