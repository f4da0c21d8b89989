SPECIFICATION EntitiesSpec
CONSTANTS
    Names = {"state", "brightness", "dimming_level", "color_temperature", "color_temp", "hue",
             "saturation", "hsv", "temperature", "humidity", "power", "current_consumption",
             "consumption_today", "consumption_this_month"}
    Tokens = {"bulb", "dimmer", "plug"}
    MethodSets <- MC_MethodSets
    Callings <- MC_Callings
    MaxFeatures = 3
    MaxCalled = 2
INVARIANTS SupportedRun CommandsAgree WidgetsFit MetricsHaveCapability
