\* A message with values the scrubber masks.
SPECIFICATION Spec
CONSTANTS
    None = None
    Messages = {m1}
    Blocks = {}
    Ingests = {i1}
    Skews <- OnTime
    PurgeAfter = 2
    SweepEvery = 2
    MaxDrafts = 2
    MaxTime = 7
    MaxFaults = 0
INVARIANTS
    OriginalsArePurged
