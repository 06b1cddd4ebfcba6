CONSTANTS
    Writers = {w1, w2, w3}
    MaxEvents = 1
    MaxWrites = 4
    MaxFaults = 1
SPECIFICATION Spec
INVARIANTS WithinCap NothingLeaks StoredIsLatest TrimIsExact
SYMMETRY Symmetry
CHECK_DEADLOCK FALSE
