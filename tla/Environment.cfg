SPECIFICATION ESpec
CONSTANTS
    MaxAttempts = 2
    Endpoints <- MCEndpoints
    NoEndpoint = none
\* After the last delivery nothing is left to happen.
CHECK_DEADLOCK FALSE
INVARIANTS
    Isolated
    
    OldPartsFirst
