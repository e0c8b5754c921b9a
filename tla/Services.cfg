SPECIFICATION Spec
CHECK_DEADLOCK FALSE

CONSTANTS
    Null = Null
    Minute = 1
    DayLength = 1440
    YearDays = 365
    MaxFailures = 1
    Topics = {"milestones", "localTime", "school", "digests", "radar", "search", "tenancy"}

    Projects <- MCProjects
    FireRuns = {1, 2}
    Instants <- MCInstants
    GoalDates <- MCGoalDates
    Timelines <- MCTimelines

    Hours <- MCHours
    Minutes = {0, 7, 45, 59}
    Zones <- MCZones
    Phases = {0, 8, 14}

    Uploads = {1}
    Heads = {1, 2}
    Deciders = {1, 2}

    DigestMembers = {1, 2}
    DigestTasks = {1, 2}
    Sends = {1}
    MaxMoves = 2

    Planned <- MCPlanned
    BlockKinds <- MCBlockKinds
    GoalRows <- MCGoalRows
    Radars = {1, 2}
    Searches = {1}
    PlanRange <- MCPlanRange
    MaxBlocks = 2

    Households = {"h1", "h2"}
    Ids = {1, 2}
    Requests = {1, 2}
    Values = {"x", "y"}

INVARIANTS
    TypeOK
    MilestonesFireInOrder
    DigestsComeOnTime
    GatesMatchFlags
    DigestsAreTrue
    RadarStoresWhatItSaw
    WindowsFitTheBlocks

PROPERTIES
    DueMilestonesFire
    GateMovesByDecision
    OthersChangeByBodiesOnly
