SPECIFICATION FairSpec
CONSTANTS
    Rounds = 3
    Burst = 2
    Capacity = 4
    MaxFaults = 2
\* localSign returns.
CHECK_DEADLOCK FALSE
INVARIANTS
    TypeOK
    HandlesLive
    SignedByBoth
    
PROPERTIES
    Returns
