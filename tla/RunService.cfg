SPECIFICATION Spec
CONSTANTS
    Requests = {r1, r2, r3}
    MaxRestarts = 1
    None = None
INVARIANTS
    OneDriver
    CompletedIsTrue
    ListReconciles
SYMMETRY RequestSymmetry
