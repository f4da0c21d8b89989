SPECIFICATION Spec
CONSTANTS
    None = None
    MaxTime = 3
    Skew = 1
    Unstamped = TRUE
    MaxInFlight = 2
    MaxCommands = 2
    MaxOutside = 1
INVARIANTS
    TypeOK
    OverrideEnds
PROPERTIES
    ShowsTheDevice
