SPECIFICATION Spec
CONSTANTS
    Remotes = {"plugin"}
    Initiator = "user"
    Rounds = 2
    Curves = 2
    Tries = 2
    RemotesFollow = TRUE
    MaxFaults = 1
\* performReshare returns.
CHECK_DEADLOCK FALSE
INVARIANTS
    SharesAgree
    FedInOrder
    HandlesFreed
    
