\* Two readers at one address, and one of them that fails or comes to its end.
SPECIFICATION FairSpec
CONSTANTS
    MaxReaders = 2
    MaxFaults = 1
INVARIANTS
    TypeOK
    ClipsAreRight
PROPERTIES
    AnimationGoesOn
\* Both readers may be deleted.
CHECK_DEADLOCK FALSE
