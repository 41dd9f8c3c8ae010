\* Two pods of the seeder, of two configurations, and of the integration Job; two old parties and three that
\* may join.  A Job that ended need not be started again.
CONSTANTS
    Configs = {c1, c2}
    NoConfig = none
    Signers <- MCSigners
    User = "user"
    Server = "server"
    Remote = {"verifier", "plugin", "again"}
    MaxStarts <- MCMaxStarts

SPECIFICATION Spec
CHECK_DEADLOCK FALSE
INVARIANTS
    SeederVouches
    SmokeVouches
    
    LeftoversOfFailures
PROPERTY
    JobsEnd
