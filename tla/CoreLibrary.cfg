\* Every function of the core library on small inputs; a call ends with its reply.
SPECIFICATION Spec
CONSTANTS
    Null = Null
    Minute = 2
    NoReply = NoReply
    RouteCalls <- MCRouteCalls
    BroadcastCalls <- MCBroadcastCalls
    OfferCalls <- MCOfferCalls
    DropoffCalls <- MCDropoffCalls
    RadarCalls <- MCRadarCalls
    WindowCalls <- MCWindowCalls
    BatteryCalls <- MCBatteryCalls
    MilestoneCalls <- MCMilestoneCalls
    IntentCalls <- MCIntentCalls
    ExpandCalls <- MCExpandCalls
    ChoreCalls <- MCChoreCalls
    ChainCalls <- MCChainCalls
    ExtractCalls <- MCExtractCalls
    ScrubCalls <- MCScrubCalls
    DayLength = 2
    YearDays = 10
    Titles <- MCTitles
    Lower <- MCLower
CHECK_DEADLOCK FALSE
INVARIANTS
    RoutingIsSound
    EscalationIsSound
    CommuteIsSound
    WellbeingIsSound
    MilestonesLeadUpToGoal
    CadenceIsKept
    ChainIsComplete
    ExtractionKeepsTheBest
    ScrubRestores
