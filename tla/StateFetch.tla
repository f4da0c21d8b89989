----------------------------- MODULE StateFetch -----------------------------
(* fetch_and_store_state of contract/config/routes.py, run at the same     *)
(* time by the poll loop of a device and by requests that refresh it, and  *)
(* fetch_device_state of lib/kasa_client.py below it.                      *)
(*                                                                         *)
(* One device stays configured at one address.  Somebody outside the       *)
(* runtime switches it: its version counts the switches, and it is on in   *)
(* the odd versions.  A reading is the version it saw.                     *)
EXTENDS Naturals

CONSTANTS
    Pollers,      \* the poll loops of the device: one, see ConfigLifecycle
    Requests,     \* refreshing requests that may be in progress at once
    HasContainer, \* a container id is known: telemetry and events are sent
    MaxChanges,   \* bound on how often the device is switched
    MaxFailures,  \* bound on failed reads and failed deliveries
    None

Fetchers == Pollers \cup Requests
Version  == 0..MaxChanges

ASSUME BoundsAssumption == MaxChanges \in Nat /\ MaxFailures \in Nat
ASSUME ContainerAssumption == HasContainer \in BOOLEAN
ASSUME NoneAssumption == None \notin Nat /\ None \notin BOOLEAN

VARIABLES
    physical,  \* the version of the device itself
    stored,    \* the version in the entry's latest_state, or None
    fpc,       \* where each fetcher is
    prev,      \* previous_state in the frame of each fetcher
    got,       \* payload in the frame of each fetcher
    since,     \* history: the version when the fetch began
    telemetry, \* versions with a telemetry delivery under way
    core,      \* the version Core was last told
    believed,  \* history: on or off, from the first reading and the events
    failures,  \* how often something has failed so far
    overlapped \* history: two fetches have been in progress at once

fetchVars == <<fpc, prev, got, since, overlapped>>
vars == <<physical, stored, fetchVars, telemetry, core, believed, failures>>

TypeOK ==
    /\ physical \in Version
    /\ stored \in Version \cup {None}
    /\ fpc \in [Fetchers -> {"idle", "connecting", "disconnecting"}]
    /\ prev \in [Fetchers -> Version \cup {None}]
    /\ got \in [Fetchers -> Version \cup {None}]
    /\ since \in [Fetchers -> Version]
    /\ telemetry \subseteq Version
    /\ core \in Version \cup {None}
    /\ believed \in BOOLEAN \cup {None}
    /\ failures \in 0..MaxFailures
    /\ overlapped \in BOOLEAN

Init ==
    /\ physical = 0
    /\ stored = None
    /\ fpc = [f \in Fetchers |-> "idle"]
    /\ prev = [f \in Fetchers |-> None]
    /\ got = [f \in Fetchers |-> None]
    /\ since = [f \in Fetchers |-> 0]
    /\ telemetry = {}
    /\ core = None
    /\ believed = None
    /\ failures = 0
    /\ overlapped = FALSE

IsOn(version) == version % 2 = 1

----------------------------------------------------------------------------

\* Somebody uses the switch, the vendor's app or another controller.
Switch ==
    /\ physical < MaxChanges
    /\ physical' = physical + 1
    /\ UNCHANGED <<stored, fetchVars, telemetry, core, believed, failures>>

\* Mutant: the poll loop is content with one reading.
Begin_Once(f) ==
    /\ fpc[f] = "idle"
    /\ stored = None
    /\ fpc' = [fpc EXCEPT ![f] = "connecting"]
    /\ prev' = [prev EXCEPT ![f] = stored]
    /\ since' = [since EXCEPT ![f] = physical]
    /\ overlapped' = (overlapped \/ \E g \in Fetchers : fpc[g] # "idle")
    /\ UNCHANGED <<physical, stored, got, telemetry, core, believed, failures>>

\* previous_state is taken from the entry before the first await.
Begin(f) ==
    /\ fpc[f] = "idle"
    /\ fpc' = [fpc EXCEPT ![f] = "connecting"]
    /\ prev' = [prev EXCEPT ![f] = stored]
    /\ since' = [since EXCEPT ![f] = physical]
    /\ overlapped' = (overlapped \/ \E g \in Fetchers : fpc[g] # "idle")
    /\ UNCHANGED <<physical, stored, got, telemetry, core, believed, failures>>

\* Mutant: a known state is returned without asking the device.
Sample_Cached(f) == IF stored = None THEN physical ELSE stored

\* What device.update() and the serialisation after it return.
Sample(f) == physical

\* The device answers; the reading is carried across _disconnect_device.
Read(f) ==
    /\ fpc[f] = "connecting"
    /\ fpc' = [fpc EXCEPT ![f] = "disconnecting"]
    /\ got' = [got EXCEPT ![f] = Sample(f)]
    /\ UNCHANGED <<physical, stored, prev, since, overlapped, telemetry, core, believed,
                   failures>>

\* Mutant: telemetry is sent for the state that is being replaced.
SendTelemetry_Previous(f) ==
    IF HasContainer THEN telemetry \cup {prev[f]} ELSE telemetry

\* Mutant: telemetry is sent only when the reading differs from the last one.
SendTelemetry_OnChange(f) ==
    IF HasContainer /\ got[f] # prev[f] THEN telemetry \cup {got[f]} ELSE telemetry

\* Telemetry is sent with every reading.
SendTelemetry(f) ==
    IF HasContainer THEN telemetry \cup {got[f]} ELSE telemetry

\* Mutant: only turning on is noticed.
Crossed_OnlyOn(f) ==
    HasContainer /\ prev[f] # None /\ ~IsOn(prev[f]) /\ IsOn(got[f])

\* turned_on / turned_off: this reading against the state before the fetch.
Crossed(f) ==
    HasContainer /\ prev[f] # None /\ IsOn(prev[f]) # IsOn(got[f])

\* update_device_state, the telemetry and the event, without an await.
Store(f) ==
    /\ fpc[f] = "disconnecting"
    /\ fpc' = [fpc EXCEPT ![f] = "idle"]
    /\ stored' = got[f]
    /\ telemetry' = SendTelemetry(f)
    /\ believed' = IF believed = None \/ Crossed(f) THEN IsOn(got[f]) ELSE believed
    /\ prev' = [prev EXCEPT ![f] = None]
    /\ got' = [got EXCEPT ![f] = None]
    /\ since' = [since EXCEPT ![f] = 0]
    /\ UNCHANGED <<physical, core, failures, overlapped>>

\* The read fails: logged by the poll loop, an error for a request.
Fail(f) ==
    /\ fpc[f] = "connecting"
    /\ failures < MaxFailures
    /\ failures' = failures + 1
    /\ fpc' = [fpc EXCEPT ![f] = "idle"]
    /\ prev' = [prev EXCEPT ![f] = None]
    /\ since' = [since EXCEPT ![f] = 0]
    /\ UNCHANGED <<physical, stored, got, overlapped, telemetry, core, believed>>

\* Each delivery is a task of its own; another one for the same version may
\* still be under way (again), or not.
Deliver(v, again) ==
    /\ v \in telemetry
    /\ core' = v
    /\ telemetry' = IF again THEN telemetry ELSE telemetry \ {v}
    /\ UNCHANGED <<physical, stored, fetchVars, believed, failures>>

\* A delivery that fails is logged and not repeated.
Lose(v) ==
    /\ v \in telemetry
    /\ failures < MaxFailures
    /\ failures' = failures + 1
    /\ telemetry' = telemetry \ {v}
    /\ UNCHANGED <<physical, stored, fetchVars, core, believed>>

Fetch(f) == Begin(f) \/ Read(f) \/ Store(f) \/ Fail(f)

Next ==
    \/ Switch
    \/ \E f \in Fetchers : Fetch(f)
    \/ \E v \in Version, again \in BOOLEAN : Deliver(v, again)
    \/ \E v \in Version : Lose(v)

\* The poll loop starts over after its sleep, a read that was begun ends, and
\* every delivery is tried.
Fairness ==
    /\ \A f \in Pollers : WF_vars(Begin(f))
    /\ \A f \in Fetchers : WF_vars(Read(f) \/ Fail(f)) /\ WF_vars(Store(f))
    /\ \A v \in Version : WF_vars(Deliver(v, FALSE))

Spec == Init /\ [][Next]_vars /\ Fairness

----------------------------------------------------------------------------
(* Properties *)

\* Whoever remembers the first reading and follows the turned_on and
\* turned_off events knows whether the device is on in latest_state, as long
\* as there is a container id and no two fetches overlap (routes.py:246-259).
BeliefMatches ==
    HasContainer /\ ~overlapped /\ stored # None => believed = IsOn(stored)

\* What a fetch stores and returns was read after that fetch began
\* (kasa_client.py:625-637).
AnswersAreFresh ==
    [][\A f \in Fetchers :
          fpc[f] = "disconnecting" /\ fpc'[f] = "idle" => stored' >= since[f]]_vars

\* Once nobody switches the device any more, latest_state becomes its state
\* and stays so, whatever older readings are still under way.
StoredConverges == <>[](stored = physical)

\* The same for what Core knows: deliveries are not ordered, but the poll loop
\* keeps sending (routes.py:214-245).
CoreConverges == <>[](core = physical)
============================================================================
