------------------------------ MODULE Entities ------------------------------
(* What a device is taken for: its capabilities and commands as            *)
(* lib/kasa_client.py derives them from its features, the telemetry that   *)
(* contract/config/routes.py makes of them, and the entity, its commands   *)
(* and its widgets that contract/entities/router.py makes of the           *)
(* capabilities.                                                           *)
(*                                                                         *)
(* The code looks for tokens in the ids of features, and for some energy   *)
(* values in their names too.  Here the ids are the ones that tell these   *)
(* searches apart, each search is the set of the ids it finds, and a name  *)
(* is the set of the energy tokens in it.                                  *)
EXTENDS FiniteSets, Naturals

CONSTANTS
    Names,       \* the ids of features a device may have
    Tokens,      \* what a device type contains
    MethodSets,  \* the sets of methods a device object may have
    Callings,    \* the sets of energy tokens that a feature's name may contain
    MaxFeatures, \* bound on the features of a device
    MaxCalled    \* the same, for a device with such tokens in a name

ASSUME FeatureBoundsAssumption == MaxFeatures \in Nat /\ MaxCalled \in Nat
ASSUME CallingsAssumption == Callings \subseteq SUBSET {"power", "today", "month"}

VARIABLES
    token,     \* the kind of device its device_type names
    methods,   \* what hasattr finds
    features   \* the normalised features, by id

entitiesVars == <<token, methods, features>>

\* What the code looks at in a feature: whether it has an attribute_setter,
\* whether its value is a number, whether its unit contains a w, and which
\* energy tokens its name contains ("current consumption" counts as power,
\* "daily" as today, "monthly" as month).
Feature == [writable : BOOLEAN, numeric : BOOLEAN, watts : BOOLEAN, called : Callings]

----------------------------------------------------------------------------
(* kasa_client.py: capabilities and commands *)

Has(ids) == DOMAIN features \cap ids # {}
Reads(ids) == \E f \in DOMAIN features \cap ids : features[f].numeric

\* _match_feature: a number whose feature has the id, or the word in its name.
Finds(ids, word) ==
    \E f \in DOMAIN features :
        (f \in ids \/ word \in features[f].called) /\ features[f].numeric
Writable(ids) == \E f \in DOMAIN features \cap ids : features[f].writable

\* The ids in which the searches find their tokens.
Brightness  == {"brightness", "dimming_level"}
ColorTemp   == {"color_temperature", "color_temp"}
Color       == {"hsv", "hue", "saturation"}
Temperature == {"temperature", "color_temperature"}
Humidity    == {"humidity"}
Power       == {"power", "current_consumption"}
Today       == {"consumption_today"}
Month       == {"consumption_this_month"}

When(condition, name) == IF condition THEN {name} ELSE {}

\* _extract_energy_metrics.
Energy ==
    When(Finds(Power, "power"), "energy_power") \cup When(Finds(Today, "today"), "energy_today")
    \cup When(Finds(Month, "month"), "energy_this_month")

\* Mutant: a dimmer's level is no brightness.
Capabilities_Undimmed ==
    When(Has({"state"}), "switch")
    \cup When(Has({"brightness"}), "brightness")
    \cup When(Has(ColorTemp), "color_temperature")
    \cup When(Has(Color), "color")
    \cup When(Has({"power"}) /\ features["power"].watts, "power")
    \cup When(Has(Today), "energy_today")
    \cup When(Has(Month), "energy_this_month")
    \cup When(Has(Temperature), "temperature")
    \cup When(Has(Humidity), "humidity")
    \cup (Energy \cap {"energy_power"})
    \cup {"refresh"}

\* _derive_capabilities_from_features.
Capabilities ==
    When(Has({"state"}), "switch")
    \cup When(Has(Brightness), "brightness")
    \cup When(Has(ColorTemp), "color_temperature")
    \cup When(Has(Color), "color")
    \cup When(Has({"power"}) /\ features["power"].watts, "power")
    \cup When(Has(Today), "energy_today")
    \cup When(Has(Month), "energy_this_month")
    \cup When(Has(Temperature), "temperature")
    \cup When(Has(Humidity), "humidity")
    \cup (Energy \cap {"energy_power"})
    \cup {"refresh"}

\* Mutant: any feature with the right token will do.
Supported_ByToken ==
    {"refresh", "read_energy"}
    \cup (methods \cap {"turn_on", "turn_off", "set_alias", "reboot"})
    \cup When({"turn_on", "turn_off"} \subseteq methods, "toggle")
    \cup (IF Writable(Names) THEN {"set_feature", "feature_action"} ELSE {})
    \cup When(Has(Brightness), "set_brightness")
    \cup When(Writable(ColorTemp), "set_color_temperature")
    \cup When(Writable({"hue", "saturation"}), "set_hue_saturation")

\* _build_supported_commands.
Supported ==
    {"refresh", "read_energy"}
    \cup (methods \cap {"turn_on", "turn_off", "set_alias", "reboot"})
    \cup When({"turn_on", "turn_off"} \subseteq methods, "toggle")
    \cup (IF Writable(Names) THEN {"set_feature", "feature_action"} ELSE {})
    \cup When(Writable(Brightness), "set_brightness")
    \cup When(Writable(ColorTemp), "set_color_temperature")
    \cup When(Writable({"hue", "saturation"}), "set_hue_saturation")

\* execute_device_command, with arguments that are in order: the device has
\* the method, or a writable feature among the candidates.
Executes(command) ==
    CASE command \in {"turn_on", "turn_off", "set_alias", "reboot"} -> command \in methods
      [] command = "toggle" -> {"turn_on", "turn_off"} \subseteq methods
      [] command \in {"set_feature", "feature_action", "dynamic_feature"} -> Writable(Names)
      [] command = "set_brightness" -> Writable({"brightness", "dimming_level"})
      [] command = "set_color_temperature" -> Writable({"color_temperature", "color_temp"})
      [] command = "set_hue_saturation" -> Writable({"hue"}) /\ Writable({"saturation"})
      [] OTHER -> command \in {"refresh", "read_energy"}

----------------------------------------------------------------------------
(* routes.py and command/router.py *)

\* The metrics of _build_telemetry_metrics that have the name of a capability:
\* switch always, power along with energy_power.  The rest are these values
\* under further names, or describe the device.
Metrics ==
    {"switch"} \cup Energy \cup When("energy_power" \in Energy, "power")
    \cup When(Reads(Brightness), "brightness")
    \cup When(Reads(ColorTemp), "color_temperature")
    \cup When(Reads(Temperature), "temperature")
    \cup When(Reads(Humidity), "humidity")

AUTOMATION_COMMANDS ==
    {"feature_action", "read_energy", "reboot", "refresh", "set_alias", "set_brightness",
     "set_color_temperature", "set_feature", "set_hue_saturation", "toggle", "turn_off",
     "turn_on"}

----------------------------------------------------------------------------
(* entities/router.py *)

IsLight   == Capabilities \cap {"brightness", "color_temperature", "color"} # {}
HasEnergy ==
    Capabilities \cap {"power", "energy_power", "energy_today", "energy_this_month"} # {}

\* _normalize_device_class: the first that fits.
DeviceClass ==
    IF token = "bulb" \/ IsLight THEN "light"
    ELSE IF token \in {"dimmer", "strip", "plug"} THEN token ELSE "device"

\* _entity_type.
EntityType ==
    IF IsLight THEN "light"
    ELSE IF "switch" \in Capabilities THEN "switch"
    ELSE IF HasEnergy THEN "energy" ELSE "device"

Controllable ==
    DeviceClass \in {"light", "dimmer", "strip"} \/ "switch" \in Capabilities

Environmental == Capabilities \cap {"temperature", "humidity"} # {}

\* _dashboard_hints.
Allowed ==
    IF Controllable THEN {"device-control", "smart-plug", "energy-monitor"}
    ELSE IF Environmental THEN {"environment-monitor"} ELSE {"energy-monitor"}

\* Mutant: energy alone decides for the smart plug.
Default_Energy ==
    IF HasEnergy THEN "smart-plug"
    ELSE IF Controllable THEN "device-control"
    ELSE IF Environmental THEN "environment-monitor" ELSE "energy-monitor"

Default ==
    IF Controllable
    THEN IF DeviceClass \notin {"light", "dimmer", "strip"} /\ HasEnergy
         THEN "smart-plug" ELSE "device-control"
    ELSE IF Environmental THEN "environment-monitor" ELSE "energy-monitor"

Recommended ==
    IF Controllable
    THEN {"device-control"} \cup (IF HasEnergy THEN {"smart-plug", "energy-monitor"} ELSE {})
    ELSE Allowed

\* Mutant: a command is offered to lights only.
Offered_Lights ==
    (IF Controllable THEN {"toggle", "turn_on", "turn_off"} ELSE {})
    \cup When(EntityType = "light" /\ token # "dimmer", "set_brightness")
    \cup When("color_temperature" \in Capabilities, "set_color_temperature")
    \cup When("color" \in Capabilities, "set_hue_saturation")
    \cup When(HasEnergy, "read_energy")
    \cup {"refresh"}

\* _available_commands.
Offered ==
    (IF Controllable THEN {"toggle", "turn_on", "turn_off"} ELSE {})
    \cup When("brightness" \in Capabilities, "set_brightness")
    \cup When("color_temperature" \in Capabilities, "set_color_temperature")
    \cup When("color" \in Capabilities, "set_hue_saturation")
    \cup When(HasEnergy, "read_energy")
    \cup {"refresh"}

----------------------------------------------------------------------------
(* _extract_features.  The specification has a name of its own: the proofs *)
(* extend KasaSessions beside this module.                                 *)

EntitiesInit ==
    /\ token \in Tokens
    /\ methods \in MethodSets
    /\ features = <<>>

\* The next feature of the device is normalised; only a power has watts.
Extract(f, a) ==
    /\ f \notin DOMAIN features /\ Cardinality(DOMAIN features) < MaxFeatures
    /\ a.watts => f = "power"
    /\ a.called # {} \/ (\E g \in DOMAIN features : features[g].called # {}) =>
          Cardinality(DOMAIN features) < MaxCalled
    /\ features' = [g \in DOMAIN features \cup {f} |-> IF g = f THEN a ELSE features[g]]
    /\ UNCHANGED <<token, methods>>

\* A feature raises, and all of them are dropped; or the next reading begins.
Restart ==
    /\ features' = <<>>
    /\ UNCHANGED <<token, methods>>

EntitiesNext == Restart \/ \E f \in Names, a \in Feature : Extract(f, a)

EntitiesSpec == EntitiesInit /\ [][EntitiesNext]_entitiesVars

----------------------------------------------------------------------------
(* Properties.  Every state holds the features of some reading, complete    *)
(* or cut off, for all that is derived from them.                           *)

\* A command that the client lists for a device is one that it can execute,
\* although the list and the execution look features up separately; except
\* that hue or saturation alone counts for set_hue_saturation
\* (kasa_client.py:298-392 against 656-727).
SupportedRun ==
    \A c \in Supported :
        Executes(c) \/ (c = "set_hue_saturation" /\ Writable({"hue"}) # Writable({"saturation"}))

\* The commands the client lists for a light are offered by its entity, and
\* whatever either of them lists is accepted by /command
\* (kasa_client.py:365-392, entities/router.py:84-191, command/router.py:22-36).
CommandsAgree ==
    /\ Supported \cap {"set_brightness", "set_color_temperature", "set_hue_saturation"}
          \subseteq Offered
    /\ Supported \cup Offered \subseteq AUTOMATION_COMMANDS

\* The widgets an entity is shown with are consistent: the default is among
\* the recommended, these among the allowed; a widget with a switch comes with
\* the commands of a switch, one about energy with read_energy, unless no
\* widget fits the device; and every light is classed as one
\* (entities/router.py:17-81).
WidgetsFit ==
    /\ Default \in Recommended /\ Recommended \subseteq Allowed
    /\ Recommended \cap {"device-control", "smart-plug"} # {} =>
          {"toggle", "turn_on", "turn_off"} \subseteq Offered
    /\ Recommended \cap {"smart-plug", "energy-monitor"} # {} =>
          "read_energy" \in Offered \/ Allowed = {"energy-monitor"}
    /\ EntityType = "light" => DeviceClass = "light"

\* A metric is published only for a capability that the device is shown with:
\* the tokens that find the one find the other.  There are three exceptions:
\* switch is published of every device; power also where the device is shown
\* with energy_power alone; and the energy of the day or the month is read
\* from a feature whose name tells what it is, where only ids make the
\* capability (kasa_client.py:145-252, routes.py:150-200).
MetricsHaveCapability ==
    \A metric \in Metrics \ Capabilities :
        \/ metric = "switch"
        \/ metric = "power" /\ "energy_power" \in Capabilities
        \/ metric = "energy_today" /\ Finds({}, "today") /\ ~Has(Today)
        \/ metric = "energy_this_month" /\ Finds({}, "month") /\ ~Has(Month)
=============================================================================
