\* Two overlapping timer runs beside a request.
SPECIFICATION Spec
CONSTANTS
    None = None
    Tasks = {t1}
    Members = {m1}
    Requests = {r1}
    TimerRuns = {k1, k2}
    DueTimes <- DueOrNot
    Settable = {"OPEN"}
    MaxEscalations = 2
    MaxTime = 2
    MaxFaults = 1
    BroadcastAfter = 1
    DropWindow = 2
    OverrideWindow = 2
INVARIANTS
    RunMissesNothing
