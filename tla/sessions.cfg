SPECIFICATION Spec
CONSTANTS
    poll = poll
    r1 = r1
    r2 = r2
    Pollers = {poll}
    Requests = {r1}
    Commands = {"toggle", "set_hue_saturation", "unsupported", "bad_saturation"}
    Features = {"power", "hue", "saturation"}
    MaxUpgrades = 1
    MaxOutages = 1
    MaxSwitches = 1
    MaxCancels = 1
    None = None
INVARIANT ConnectionsReleased
PROPERTY ReachableIsAnswered
PROPERTY CommandTakesEffect
PROPERTY PollingRecovers
