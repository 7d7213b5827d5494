SPECIFICATION FairSpec
CONSTANTS
    r1 = r1
    r2 = r2
    r3 = r3
    k1 = k1
    k2 = k2
    Readers = {r1, r2, r3}
    Writers = {c1}
    Mortal = {r1}
    Impatient = {r3}
    Perishable = {k1}
    NoProc = NoProc
    Keys = {k1, k2}
    Wants <- MCWants
    MaxEntries = 1
    MaxCalls = 1
CHECK_DEADLOCK FALSE
INVARIANTS SingleFlight BoundedTable StaleOnlyIfRaced
PROPERTIES EveryCallReturns
