SPECIFICATION Spec
CONSTANTS
    None = None
    kasa = kasa
    other = other
    Preids <- MC_AlphaAndRc
    Samples <- MC_Samples
    First <- MC_First
    Repos = {kasa, other}
    Primary = kasa
    MaxNumber = 2
    MaxParts = 4
CHECK_DEADLOCK FALSE
INVARIANTS
    CompareIsOrder
    HalfReleaseIsNoticed
    ImageFollows
PROPERTIES
    VersionsIncrease
