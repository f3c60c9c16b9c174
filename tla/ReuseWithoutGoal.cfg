SPECIFICATION Spec
CONSTANTS
    MAX_GOAL_EXPANSIONS = 1
    STUCK_THRESHOLD = 2
    MaxIterations = 2
    Clocks = {"enough", "short", "over"}
    MaxReferences = 1
    ParentChoices = {{}}
    Goals = {g1}
    Questions = {q}
    None = None
INVARIANTS
    ReuseNamesAGoal
