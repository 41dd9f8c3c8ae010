SPECIFICATION Spec
CONSTANTS
    r1 = r1
    r2 = r2
    w1 = w1
    w2 = w2
    h1 = h1
    h2 = h2
    None = None
    Runs <- MCOneRun
    Workers <- MCTwoWorkers
    Handlers <- MCTwoHandlers
    Concurrency = 1
    JanitorOn = TRUE
    HasBucket = TRUE
    MaxFaults = 1
    MaxStops = 1
SYMMETRY MCSymmetry
INVARIANTS
    TypeOK
    
    AcceptedIsStored
    RowsAgree
PROPERTIES
    WorkerVerdictsStand
    ClosedRunsStayClosed
