SPECIFICATION Spec
CONSTANTS
    Runs = {r1, r2}
    Ids <- MCIds
    Plugins <- MCPlugins
    Lower <- MCLower
    Dash = "-"
    Letters <- MCLetters
    X <- MCX
    Unknown <- MCUnknown
    MaxLabel = 6
    PrefixLen = 1
    NamespaceHead <- MCHead
    JobHeads <- MCJobHeads
\* When every run has its names nothing is left to happen.
CHECK_DEADLOCK FALSE
INVARIANT OwnNames
