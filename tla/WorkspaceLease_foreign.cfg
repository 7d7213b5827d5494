SPECIFICATION LeaseSpec
CONSTANTS
    w1 = w1
    w2 = w2
    main = main
    Workspaces = {w1, w2}
    Branches = {main}
    NoBranch = NoBranch
    BranchOf <- MCBranchOf
    Procs = {p1}
    Shas = {c1}
    NoSha = NoSha
    Ttls = {1, 2}
    MaxCrashes = 0
    ForeignRelease = TRUE
INVARIANTS Exclusive
