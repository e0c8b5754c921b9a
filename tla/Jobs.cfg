SPECIFICATION FairSpec

CONSTANTS
    Procs = {"p1"}
    JobSeq <- MCJobSeq
    Drivers = {"memory", "bullmq"}
    MaxRuns = 2
    MaxShots = 1
    MaxCrashes = 1

INVARIANTS
    TypeOK
    RunningIsScheduled

PROPERTIES
    StopLeavesNoSchedule
    QueuedJobsRun
    StopEnds
