SPECIFICATION FairSpec
CONSTANTS
    Remotes = {"plugin"}
    Initiator = "server"
    Rounds = 1
    Curves = 1
    Tries = 2
    RemotesFollow = FALSE
    MaxFaults = 0
\* performReshare returns.
CHECK_DEADLOCK FALSE
PROPERTIES
    ReshareEnds
