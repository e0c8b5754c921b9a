\* Two requests at a time, one failure.
SPECIFICATION Spec
CONSTANTS
    None = None
    Tasks = {t1}
    Members = {m1, m2}
    Requests = {r1, r2}
    TimerRuns = {}
    DueTimes <- NeverDue
    Settable = {"OPEN", "CLAIMED", "DONE", "DROPPED"}
    MaxEscalations = 2
    MaxTime = 0
    MaxFaults = 1
    BroadcastAfter = 1
    DropWindow = 2
    OverrideWindow = 2
SYMMETRY Symmetry
INVARIANTS
    TypeOK
    DropIsCovered
    LoneClaimIsExclusive
PROPERTIES
    ResolvedIsFinal
    ImplementsClaimLock
