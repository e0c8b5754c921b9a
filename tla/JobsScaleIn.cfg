SPECIFICATION Spec

CONSTANTS
    Procs = {"p1", "p2"}
    JobSeq <- MCJobSeq
    Drivers = {"bullmq"}
    MaxRuns = 1
    MaxShots = 0
    MaxCrashes = 0

INVARIANTS
    RunningIsScheduled
