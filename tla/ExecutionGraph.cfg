SPECIFICATION FairSpec
CONSTANTS
    MAX_STATIC_REPAIRS = 5
    MAX_RUNTIME_REPAIRS = 1
    STUCK_THRESHOLD = 5
    MaxCrashes = 1
    None = None
    Shas = {a, b}
    StaticCodes <- MCStaticCodes
    ResultCodes <- MCResultCodes
INVARIANTS
    RepairBounds
    EvidenceIsEarned
    RepairIsANewRequest
    OneRunPerRound
    StuckEndsTheAttempt
PROPERTIES
    CacheOnlyEarned
    ImplementsAttempt
    AttemptEnds
