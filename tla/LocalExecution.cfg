SPECIFICATION Spec
CONSTANTS
    Runs = {r1, r2}
    Programs = {p, q}
    MaxRepairs = 1
    MaxCrashes = 1
    Garbage = Garbage
    None = None
INVARIANTS
    ResultIsOfItsProgram
    NoChildOutlivesItsNode
    CacheIsHarmless
SYMMETRY Symmetry
