SPECIFICATION Spec
CONSTANTS
    Requests = {r1, r2}
    MaxRestarts = 0
    None = None
PROPERTIES
    FinishedIsKept
