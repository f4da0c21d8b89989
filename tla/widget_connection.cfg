SPECIFICATION Spec
CONSTANTS
    None = None
    deviceA = deviceA
    deviceB = deviceB
    power = power
    brightness = brightness
    Scopes = {deviceA, deviceB}
    Slots = {power, brightness}
    SlotsOf <- MC_SlotsOf
    MaxBootstraps = 4
CHECK_DEADLOCK FALSE
INVARIANTS
    SubscriptionsKnown
    LatestIsBound
    ValuesFromScope
