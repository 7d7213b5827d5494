SPECIFICATION Spec
CONSTANTS
    main = main
    Workspaces = {w1, w2}
    Branches = {main}
    NoBranch = NoBranch
    BranchOf <- MCBranchOf
    Procs = {p1}
    Shas = {c1, c2}
    NoSha = NoSha
    Ttls = {1, 2}
    MaxCrashes = 1
    ForeignRelease = FALSE
    Contents = {x, y}
    Deleted = Deleted
    NoContent = NoContent
INVARIANTS
    
    
    
    LeaseMatchesSession
PROPERTIES
    CommitOnTop
    
SYMMETRY MCSymmetry
