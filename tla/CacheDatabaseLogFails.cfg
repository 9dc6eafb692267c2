\* The write of a record to the binlog fails once.
SPECIFICATION Spec
CONSTANTS
    Keys = {k1, k2}
    Values = {v1, v2}
    NoKey = NoKey
    NoValue = NoValue
    Broken = Broken
    MaxPlaces = 2
    MaxLog = 3
    MaxBundled = 2
    FaultKinds = {"log"}
    MaxFaults = 1
SYMMETRY Symmetry
INVARIANT
    DonePutsAreKept
CHECK_DEADLOCK FALSE
