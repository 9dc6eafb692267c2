\* Two keys and two values in two files, a binlog of four records: crashes between any
\* two writes and compactions, no I/O failure; against the map it promises.
SPECIFICATION Spec
CONSTANTS
    Keys = {k1, k2}
    Values = {v1, v2}
    NoKey = NoKey
    NoValue = NoValue
    Broken = Broken
    MaxPlaces = 2
    MaxLog = 4
    MaxBundled = 2
    FaultKinds = {}
    MaxFaults = 0
SYMMETRY Symmetry
INVARIANT
    DonePutsAreKept
PROPERTY
    ImplementsStore
CHECK_DEADLOCK FALSE
