SPECIFICATION FairSpec
CONSTANTS
    Posts = {h1, h2, h3}
    Processes = {w1, w2}
    CONNECT_RETRIES = 2
    MaxCrashes = 1
    MaxRestarts = 1
    None = None
INVARIANTS
    RunOnce
    AnswersAgree
    AnswerIsEarned
PROPERTIES
    ClientEnds
