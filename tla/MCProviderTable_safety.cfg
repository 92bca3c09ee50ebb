SPECIFICATION FairSpec
CONSTANTS
    o = o
    i = i
    j = j
    f = f
    None = None
    Freed = Freed
    Origins = {o}
    Intermediates = {i, j}
    Finals = {f}
    Capacity <- Capacities
    MaxCalls = 4
    MaxEdits = 2
    MaxFailures = 1
INVARIANTS
    TypeOK
    Balanced
    SentBounded
PROPERTIES
    ListConverges
    CapacityReturns
\* a monitor that is stuck may leave nothing to do
CHECK_DEADLOCK FALSE
