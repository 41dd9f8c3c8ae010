SPECIFICATION FairSpec
CONSTANT MaxAttempts = 3
\* After the last delivery nothing is left to happen.
CHECK_DEADLOCK FALSE

    
    
PROPERTIES
    
    AttemptsEnd
