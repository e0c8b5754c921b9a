\* One message through the pipeline, one block, the sweep, failures and restarts.
SPECIFICATION Spec
CONSTANTS
    None = None
    Messages = {m1}
    Blocks = {b1}
    Ingests = {i1}
    Skews <- LateOrEarly
    PurgeAfter = 2
    SweepEvery = 2
    MaxDrafts = 2
    MaxTime = 7
    MaxFaults = 1
INVARIANTS
    TypeOK
    RetentionBound
    ProcessedIsComplete
    BlockRetention
