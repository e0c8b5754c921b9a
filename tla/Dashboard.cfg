SPECIFICATION FairSpec
CHECK_DEADLOCK FALSE

CONSTANTS
    Null = Null
    Mutations = {1, 2}
    Modes = {"mock", "real"}
    MaxPresses = 3
    MaxLosses = 2

INVARIANTS
    TypeOK
    QuietShowsServer
    PromiseHolds

PROPERTIES
    ComesToRest
