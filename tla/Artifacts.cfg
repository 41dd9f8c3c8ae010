SPECIFICATION Spec
CONSTANTS
    MaxAttempts = 2
    Sizes = {3}
    LogLimit = 1
    ReadLimit = 2
\* A run that is over and read needs nothing more.
CHECK_DEADLOCK FALSE
INVARIANTS
    VerdictIsDocumented
    
PROPERTIES
    ArtifactsStayPut
