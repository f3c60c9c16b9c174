SPECIFICATION Spec
CONSTANTS
    MAX_GOAL_EXPANSIONS = 1
    STUCK_THRESHOLD = 2
    MaxIterations = 3
    Clocks = {"enough", "short", "over"}
    MaxReferences = 2
    ParentChoices = {{1, 2}}
    Goals = {g1, g2}
    Questions = {q}
    None = None
INVARIANTS
    InProgressIsOwned
    AuditFindsNothing
    GoalsCloseOnWork
    QuestionsAreAskedOnce
    SatisfiedIsHonest
    ContradictionsAreTracked
PROPERTIES
    VerdictIsKept
    StepsAreBounded
    ImplementsInquiry
SYMMETRY GoalSymmetry
