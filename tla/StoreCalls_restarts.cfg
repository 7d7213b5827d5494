SPECIFICATION StoreSpec
CONSTANTS
    reg1 = reg1
    reg2 = reg2
    ret1 = ret1
    ret2 = ret2
    push1 = push1
    push2 = push2
    fetch2 = fetch2
    commit1 = commit1
    commit2 = commit2
    build1 = build1
    build2 = build2
    down1 = down1
    n1 = n1
    n2 = n2
    main = main
    topic = topic
    s1 = s1
    Names = {n1, n2}
    CatalogCalls = {reg1, reg2, ret1, ret2}
    Registers = {reg1, reg2}
    NameOf <- MCNameOf
    NoDir = NoDir
    BareDir = BareDir
    Refs = {main, topic}
    DefaultRef = main
    NoCommit = NoCommit
    PushCalls = {push1, push2}
    FetchCalls = {fetch2}
    CommitCalls = {commit1, commit2}
    BranchOf <- MCBranchOf
    RepoOf <- MCRepoOf
    Refspecs <- MCRefspecs
    Expecting = {push2}
    MaxCommits = 5
    Snapshots = {s1}
    BuildCalls = {build1, build2}
    DownloadCalls = {down1}
    SnapshotOf <- MCSnapshotOf
    MaxBuilds = 3
    SnapshotRepo <- MCSnapshotRepo
    put1 = put1
    rev1 = rev1
    ask1 = ask1
    ask2 = ask2
    ask3 = ask3
    e1 = e1
    e2 = e2
    read = read
    write = write
    Repos = {n1, n2}
    Global = Global
    Envelopes = {e1, e2}
    Capabilities <- MCCapabilities
    Inputs <- MCInputs
    Seeds <- MCSeeds
    NoGrant = NoGrant
    NoScope = NoScope
    Puts = {put1}
    Revokes = {rev1}
    Checks = {ask1, ask2, ask3}
    RepoFor <- MCRepoFor
    Never = 9
    Lifetime = 2
    MaxTime = 3
    Mixes <- MCMixes
    MaxRestarts = 2
CHECK_DEADLOCK FALSE
INVARIANTS
    AnswersHold
    
    SnapshotsStay
    ScopeIsCurrent
