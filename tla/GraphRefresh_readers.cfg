SPECIFICATION FairRefreshSpec
CONSTANTS
    p1 = p1
    p2 = p2
    p3 = p3
    v1 = v1
    k1 = k1
    Callers = {p1, p2, p3}
    Queries = {}
    Versions = {v1}
    Files = 2
    NoVersion = NoVersion
    Keys = {k1}
    VersionOf <- MCVersionOf
    KeyOf <- MCKeyOf
    Reusing = {p2}
    MaxKilled = 1
    MaxRestarts = 1
CHECK_DEADLOCK FALSE
INVARIANTS
    OneRunPerKey
    ReadsSucceed
PROPERTIES
    ReadableForEver
    EveryRefreshAnswered
