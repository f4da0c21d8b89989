SPECIFICATION Spec
CONSTANTS
    None = None
    MaxTime = 3
    Skew = 0
    Unstamped = FALSE
    MaxInFlight = 2
    MaxCommands = 1
    MaxOutside = 1
PROPERTIES
    StaleReadingsDoNotUndo
