\* A binlog of three records; a write to a value file or to the binlog, the compactor,
\* or the rename that ends a compaction fails once.
SPECIFICATION Spec
CONSTANTS
    Keys = {k1, k2}
    Values = {v1, v2}
    NoKey = NoKey
    NoValue = NoValue
    Broken = Broken
    MaxPlaces = 2
    MaxLog = 3
    MaxBundled = 2
    FaultKinds = {"data", "log", "compact", "swap"}
    MaxFaults = 1
SYMMETRY Symmetry
INVARIANTS
    TypeOK
    SafeUnlessLogFailed
    DiskIsRight
CHECK_DEADLOCK FALSE
