SPECIFICATION FairSpec
CONSTANTS
    MAX_GOAL_EXPANSIONS = 1
    STUCK_THRESHOLD = 1
    MaxIterations = 5
    Clocks = {"enough"}
    MaxReferences = 1
    ParentChoices = {{}}
    Goals = {g1}
    Questions = {}
    None = None
INVARIANTS
    FinishedMeansProcessed
PROPERTIES
    AnalysisEnds
