SPECIFICATION Spec
CONSTANTS
    c1 = c1
    c2 = c2
    c3 = c3
    t1 = t1
    t2 = t2
    Overflow = Overflow
    Clients = {c1, c2, c3}
    Patient = {c1, c2}
    Tasks = {t1, t2}
    Limit = 2
    Window = 5
    MaxKeys = 2
    MaxConcurrent = 1
SYMMETRY Symmetry
INVARIANTS
    MemoryBounded
    WindowRespected
    CapacityCounted
    PatienceRewarded
