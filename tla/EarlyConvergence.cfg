SPECIFICATION Spec
CONSTANTS
    MAX_GOAL_EXPANSIONS = 1
    MaxItems = 3
INVARIANTS
    NoEarlyConvergence
CHECK_DEADLOCK FALSE
