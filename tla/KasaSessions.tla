---------------------------- MODULE KasaSessions ----------------------------
(* The calls of lib/kasa_client.py to one device: fetch_device_state by    *)
(* the poll loop and by refreshing requests, execute_device_command by     *)
(* command requests.  Every call opens a connection of its own, through    *)
(* _resolve_device and the connection configuration it caches per host,    *)
(* and closes it; what lies between two awaits of a call is one action.    *)
(*                                                                         *)
(* python-kasa and the device are external.  A connection or a cached      *)
(* configuration is abstracted to the firmware it was made for: it is of   *)
(* no use once that has changed.                                           *)
EXTENDS Naturals, Sequences

CONSTANTS
    Pollers,      \* poll loops: they fetch, and they may be cancelled
    Requests,     \* requests: they fetch or execute a command
    Commands,     \* the commands that may arrive
    Features,     \* what can be written: power, hue, saturation
    MaxUpgrades,  \* bound on changes of the firmware
    MaxOutages,   \* bound on how often the device becomes unreachable
    MaxSwitches,  \* bound on changes made by somebody else
    MaxCancels,   \* bound on cancellations of poll tasks: see ConfigLifecycle
    None

Calls  == Pollers \cup Requests
Unread == [f \in Features |-> 0]

ASSUME CallersAssumption == Pollers \cap Requests = {}
ASSUME CommandsAssumption ==
    Commands \subseteq {"turn_on", "turn_off", "toggle", "set_feature",
                        "set_hue_saturation", "refresh", "unsupported",
                        "bad_saturation"}
ASSUME FeaturesAssumption ==
    /\ "power" \in Features
    /\ Commands \cap {"set_feature", "set_hue_saturation", "bad_saturation"} # {}
          => {"hue", "saturation"} \subseteq Features
ASSUME BoundsAssumption ==
    /\ MaxUpgrades \in Nat /\ MaxOutages \in Nat
    /\ MaxSwitches \in Nat /\ MaxCancels \in Nat
ASSUME NoneAssumption == None \notin Nat

VARIABLES
    firmware,   \* what the device runs
    online,     \* the device can be reached
    device,     \* the state of the device
    outages,    \* how often it became unreachable so far
    switches,   \* how often somebody else wrote to it so far
    cache,      \* _DEVICE_CONFIG_CACHE[host], or None
    pc,         \* where each call is
    job,        \* "fetch" or the command of each call
    link,       \* the configuration a call connects or is connected with
    open,       \* the connection of a call is open
    seen,       \* the device object's state: as of the last update()
    todo,       \* the writes a command has still to make
    good,       \* a call that disconnects will return, not raise
    start,      \* history: the state of the device when the call began
    disturbed,  \* history: the device was away or changed during the call
    crossed,    \* history: somebody else wrote during the call
    cancelled,  \* history: the last call of a poll task was cancelled
    cancels     \* how often a poll task was cancelled so far

deviceVars == <<firmware, online, device, outages, switches>>
frameVars  == <<job, link, seen, todo, good>>
histVars   == <<start, disturbed, crossed>>
cancelVars == <<cancelled, cancels>>
vars == <<deviceVars, cache, pc, open, frameVars, histVars, cancelVars>>

Init ==
    /\ firmware = 0
    /\ online = TRUE
    /\ device = Unread
    /\ outages = 0
    /\ switches = 0
    /\ cache = None
    /\ pc = [c \in Calls |-> "idle"]
    /\ job = [c \in Calls |-> "fetch"]
    /\ link = [c \in Calls |-> None]
    /\ open = [c \in Calls |-> FALSE]
    /\ seen = [c \in Calls |-> Unread]
    /\ todo = [c \in Calls |-> <<>>]
    /\ good = [c \in Calls |-> FALSE]
    /\ start = [c \in Requests |-> Unread]
    /\ disturbed = [c \in Requests |-> FALSE]
    /\ crossed = [c \in Requests |-> FALSE]
    /\ cancelled = [c \in Calls |-> FALSE]
    /\ cancels = 0

----------------------------------------------------------------------------
(* Outside *)

Active(c) == pc[c] # "idle"

\* The histories follow requests: a new value for c, or a mark on every one in
\* progress but those in a set.
Kept(hist, c, value) == [r \in Requests |-> IF r = c THEN value ELSE hist[r]]

Marked(hist, but) == [r \in Requests |-> hist[r] \/ (Active(r) /\ r \notin but)]

\* The device becomes unreachable ...
Outage ==
    /\ online /\ outages < MaxOutages
    /\ online' = FALSE
    /\ outages' = outages + 1
    /\ disturbed' = Marked(disturbed, {})
    /\ UNCHANGED <<firmware, device, switches, cache, pc, open, frameVars,
                   start, crossed, cancelVars>>

\* ... and comes back.
Return ==
    /\ ~online
    /\ online' = TRUE
    /\ UNCHANGED <<firmware, device, outages, switches, cache, pc, open,
                   frameVars, histVars, cancelVars>>

\* New firmware, another protocol: no old connection or configuration works.
Upgrade ==
    /\ firmware < MaxUpgrades
    /\ firmware' = firmware + 1
    /\ disturbed' = Marked(disturbed, {})
    /\ UNCHANGED <<online, device, outages, switches, cache, pc, open,
                   frameVars, start, crossed, cancelVars>>

\* Another controller writes.
Switch(f) ==
    /\ switches < MaxSwitches
    /\ switches' = switches + 1
    /\ device' = [device EXCEPT ![f] = 1 - @]
    /\ crossed' = Marked(crossed, {})
    /\ UNCHANGED <<firmware, online, outages, cache, pc, open, frameVars,
                   start, disturbed, cancelVars>>

----------------------------------------------------------------------------
(* _resolve_device *)

\* A call begins: the cached configuration is read before the first await.  A
\* connection that a cancelled call has left behind is no longer followed.
Begin(c, j) ==
    /\ ~Active(c)
    /\ pc' = [pc EXCEPT ![c] = IF cache = None THEN "direct" ELSE "cached"]
    /\ job' = [job EXCEPT ![c] = j]
    /\ link' = [link EXCEPT ![c] = cache]
    /\ start' = Kept(start, c, device)
    /\ disturbed' = Kept(disturbed, c, ~online)
    /\ crossed' = Kept(crossed, c, FALSE)
    /\ cancelled' = [cancelled EXCEPT ![c] = FALSE]
    /\ open' = [open EXCEPT ![c] = FALSE]
    /\ UNCHANGED <<deviceVars, cache, seen, todo, good, cancels>>

\* What call c has connected with still fits the device.
Usable(c) == online /\ link[c] = firmware

\* The frame of a call that is over.
Done(c) ==
    /\ pc' = [pc EXCEPT ![c] = "idle"]
    /\ job' = [job EXCEPT ![c] = "fetch"]
    /\ link' = [link EXCEPT ![c] = None]
    /\ seen' = [seen EXCEPT ![c] = Unread]
    /\ todo' = [todo EXCEPT ![c] = <<>>]
    /\ good' = [good EXCEPT ![c] = FALSE]
    /\ start' = Kept(start, c, Unread)
    /\ disturbed' = Kept(disturbed, c, FALSE)
    /\ crossed' = Kept(crossed, c, FALSE)

\* Mutant: a failure of the cached configuration fails the call.
ConnectCached_Raises(c) ==
    /\ pc[c] = "cached"
    /\ \/ /\ Usable(c)
          /\ pc' = [pc EXCEPT ![c] = "updating"]
          /\ open' = [open EXCEPT ![c] = TRUE]
          /\ UNCHANGED <<frameVars, histVars>>
       \/ /\ ~Usable(c)
          /\ Done(c)
          /\ UNCHANGED open
    /\ UNCHANGED <<deviceVars, cache, cancelVars>>

\* Device.connect with the cached configuration; if that fails, whatever is
\* cached by now is dropped.
ConnectCached(c) ==
    /\ pc[c] = "cached"
    /\ \/ /\ Usable(c)
          /\ pc' = [pc EXCEPT ![c] = "updating"]
          /\ open' = [open EXCEPT ![c] = TRUE]
          /\ UNCHANGED <<cache, link>>
       \/ /\ ~Usable(c)
          /\ pc' = [pc EXCEPT ![c] = "direct"]
          /\ cache' = None
          /\ link' = [link EXCEPT ![c] = None]
          /\ UNCHANGED open
    /\ UNCHANGED <<deviceVars, job, seen, todo, good, histVars, cancelVars>>

\* Discover.try_connect_all: a device, which is cached, or nothing: not every
\* device that is there can be connected to in this way.
ConnectDirect(c) ==
    /\ pc[c] = "direct"
    /\ \/ /\ online
          /\ pc' = [pc EXCEPT ![c] = "updating"]
          /\ open' = [open EXCEPT ![c] = TRUE]
          /\ link' = [link EXCEPT ![c] = firmware]
          /\ cache' = firmware
       \/ /\ pc' = [pc EXCEPT ![c] = "single"]
          /\ UNCHANGED <<open, link, cache>>
    /\ UNCHANGED <<deviceVars, job, seen, todo, good, histVars, cancelVars>>

\* Discover.discover_single: a device, or the call fails.
ConnectSingle(c) ==
    /\ pc[c] = "single"
    /\ \/ /\ online
          /\ pc' = [pc EXCEPT ![c] = "probing"]
          /\ open' = [open EXCEPT ![c] = TRUE]
          /\ link' = [link EXCEPT ![c] = firmware]
          /\ UNCHANGED <<job, seen, todo, good, histVars>>
       \/ /\ ~online
          /\ Done(c)
          /\ UNCHANGED open
    /\ UNCHANGED <<deviceVars, cache, cancelVars>>

\* Disconnecting: the connection is closed when the await begins.
Close(c, returns) ==
    /\ pc' = [pc EXCEPT ![c] = "closing"]
    /\ open' = [open EXCEPT ![c] = FALSE]
    /\ good' = [good EXCEPT ![c] = returns]

\* Mutant: the discovered device is left connected when it cannot be read.
Probe_Unclosed(c) ==
    /\ pc[c] = "probing"
    /\ \/ /\ Usable(c)
          /\ pc' = [pc EXCEPT ![c] = "updating"]
          /\ cache' = link[c]
          /\ UNCHANGED <<frameVars, histVars>>
       \/ /\ ~Usable(c)
          /\ Done(c)
          /\ UNCHANGED cache
    /\ UNCHANGED <<deviceVars, open, cancelVars>>

\* The first update() of a discovered device.
Probe(c) ==
    /\ pc[c] = "probing"
    /\ \/ /\ Usable(c)
          /\ pc' = [pc EXCEPT ![c] = "updating"]
          /\ cache' = link[c]
          /\ UNCHANGED <<open, good>>
       \/ /\ ~Usable(c)
          /\ Close(c, FALSE)
          /\ UNCHANGED cache
    /\ UNCHANGED <<deviceVars, job, link, seen, todo, histVars, cancelVars>>

----------------------------------------------------------------------------
(* fetch_device_state and execute_device_command *)

W(f, v) == [feature |-> f, value |-> v]

\* The writes of a command to a device seen in a state.  Every command that
\* sets one feature is like set_feature; bad_saturation is a
\* set_hue_saturation whose second argument is not an integer.
Writes(command, state) ==
    CASE command = "turn_on"            -> <<W("power", 1)>>
      [] command = "turn_off"           -> <<W("power", 0)>>
      [] command = "toggle"             -> <<W("power", 1 - state["power"])>>
      [] command = "set_feature"        -> <<W("hue", 1)>>
      [] command = "set_hue_saturation" -> <<W("hue", 1), W("saturation", 1)>>
      [] command = "bad_saturation"     -> <<W("hue", 1)>>
      [] OTHER                          -> <<>>

\* With only rest left to write the command raises: its target, its feature or
\* an argument is unknown, missing or malformed.
Refused(c, rest) == rest = <<>> /\ job[c] \in {"unsupported", "bad_saturation"}

\* update() fails, or a write does: finally disconnects, and the call raises.
Break(c) ==
    /\ pc[c] \in {"updating", "acting", "checking"}
    /\ ~Usable(c)
    /\ Close(c, FALSE)
    /\ UNCHANGED <<deviceVars, cache, job, link, seen, todo, histVars, cancelVars>>

\* update() of a fetch: the configuration is cached, the state is returned.
UpdateFetch(c) ==
    /\ pc[c] = "updating" /\ job[c] = "fetch"
    /\ Usable(c)
    /\ seen' = [seen EXCEPT ![c] = device]
    /\ cache' = link[c]
    /\ Close(c, TRUE)
    /\ UNCHANGED <<deviceVars, job, link, todo, histVars, cancelVars>>

\* After the first update() of a command or after a write: the next write, the
\* second update(), or an error.
Continue(c, rest) ==
    /\ todo' = [todo EXCEPT ![c] = rest]
    /\ \/ /\ Refused(c, rest)
          /\ Close(c, FALSE)
       \/ /\ ~Refused(c, rest)
          /\ pc' = [pc EXCEPT ![c] = IF rest = <<>> THEN "checking" ELSE "acting"]
          /\ UNCHANGED <<open, good>>

\* The first update() of a command: what to write is chosen.
UpdateCommand(c) ==
    /\ pc[c] = "updating" /\ job[c] # "fetch"
    /\ Usable(c)
    /\ seen' = [seen EXCEPT ![c] = device]
    /\ Continue(c, Writes(job[c], device))
    /\ UNCHANGED <<deviceVars, cache, job, link, histVars, cancelVars>>

\* One write reaches the device.
Act(c) ==
    /\ pc[c] = "acting"
    /\ Usable(c)
    /\ device' = [device EXCEPT ![Head(todo[c]).feature] = Head(todo[c]).value]
    /\ crossed' = Marked(crossed, {c})
    /\ Continue(c, Tail(todo[c]))
    /\ UNCHANGED <<firmware, online, outages, switches, cache, job, link, seen,
                   start, disturbed, cancelVars>>

\* Mutant: the state from before the writes is returned.
Check_Skipped(c) ==
    /\ pc[c] = "checking"
    /\ Usable(c)
    /\ Close(c, TRUE)
    /\ UNCHANGED <<deviceVars, cache, job, link, seen, todo, histVars, cancelVars>>

\* The second update() of a command: its state is returned.
Check(c) ==
    /\ pc[c] = "checking"
    /\ Usable(c)
    /\ seen' = [seen EXCEPT ![c] = device]
    /\ Close(c, TRUE)
    /\ UNCHANGED <<deviceVars, cache, job, link, todo, histVars, cancelVars>>

\* The disconnection is over, however it went: the call returns or raises.
Finish(c) ==
    /\ pc[c] = "closing"
    /\ Done(c)
    /\ UNCHANGED <<deviceVars, cache, open, cancelVars>>

\* CancelledError in a poll task.  "except Exception" does not see it: while
\* the discovered device is being read nobody disconnects it.
Cancel(c) ==
    /\ c \in Pollers /\ cancels < MaxCancels
    /\ cancels' = cancels + 1
    /\ cancelled' = [cancelled EXCEPT ![c] = TRUE]
    /\ \/ /\ pc[c] \in {"cached", "direct", "single", "probing", "closing"}
          /\ Done(c)
          /\ UNCHANGED open
       \/ /\ pc[c] = "updating"
          /\ Close(c, FALSE)
          /\ UNCHANGED <<job, link, seen, todo, histVars>>
    /\ UNCHANGED <<deviceVars, cache>>

----------------------------------------------------------------------------

Resolve(c) == ConnectCached(c) \/ ConnectDirect(c) \/ ConnectSingle(c) \/ Probe(c)

Proceed(c) ==
    \/ Resolve(c)
    \/ UpdateFetch(c) \/ UpdateCommand(c) \/ Act(c) \/ Check(c) \/ Break(c)
    \/ Finish(c)

Next ==
    \/ Outage \/ Return \/ Upgrade
    \/ \E f \in Features : Switch(f)
    \/ \E c \in Calls : Begin(c, "fetch") \/ Proceed(c) \/ Cancel(c)
    \/ \E c \in Requests, j \in Commands : Begin(c, j)

\* The poll loop starts over after its sleep, python-kasa bounds every await
\* of a call, and a device that went away comes back.
Fairness ==
    /\ \A c \in Calls : WF_vars(Proceed(c))
    /\ \A c \in Pollers : WF_vars(Begin(c, "fetch"))
    /\ WF_vars(Return)

Spec == Init /\ [][Next]_vars /\ Fairness

----------------------------------------------------------------------------
(* Properties *)

\* However a call ends, its connection is closed by then, unless it was
\* cancelled (kasa_client.py:437-442, 636-637, 731-732).
ConnectionsReleased == \A c \in Calls : open[c] => Active(c) \/ cancelled[c]

\* A call fails only if the device was away or changed its firmware while it
\* ran, or if the command is refused: what happens to be cached, and what
\* other calls do to the cache in the meantime, fails nobody
\* (kasa_client.py:413-443).
Ended(c) == Active(c) /\ pc'[c] = "idle"

ReachableIsAnswered ==
    [][\A c \in Requests :
          Ended(c) /\ ~good[c] => disturbed[c] \/ Refused(c, todo[c])]_vars

\* A command that returns, and during which nobody else wrote, has had exactly
\* its effect on the device, and the state it returns shows it
\* (kasa_client.py:651-730).
Effect(state, writes) ==
    [f \in Features |->
        LET own == {i \in DOMAIN writes : writes[i].feature = f}
        IN  IF own = {} THEN state[f] ELSE writes[CHOOSE i \in own : TRUE].value]

CommandTakesEffect ==
    [][\A c \in Requests :
          Ended(c) /\ good[c] /\ ~crossed[c]
              => /\ seen[c] = Effect(start[c], Writes(job[c], start[c]))
                 /\ device = seen[c]]_vars

\* Once the device stays reachable, the poll loop reads it again, whatever is
\* in the cache (kasa_client.py:413-443, routes.py:351-366).
PollingRecovers ==
    \A c \in Pollers : []<>(pc[c] = "closing" /\ good[c])
=============================================================================
