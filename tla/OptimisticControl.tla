-------------------------- MODULE OptimisticControl --------------------------
(* The power button of the Kasa widget: the optimistic control of          *)
(* experiences/kasa-smart-home/assets/optimistic-control.mjs, driven by    *)
(* runCommand, updateValues and connect of kasa-widget.mjs.                *)
(*                                                                         *)
(* JavaScript runs one callback at a time, so an action is one callback.   *)
(* Around the widget stand the device, which others switch as well, the    *)
(* runtime that samples it, and a host that may delay, reorder, repeat and *)
(* drop the readings and that answers every command in the end.            *)
EXTENDS Integers, FiniteSets

CONSTANTS
    MaxTime,      \* bound on the clock
    Skew,         \* how far the clock of the readings is behind the browser's
    Unstamped,    \* readings without a usable timestamp occur
    MaxInFlight,  \* bound on the readings under way
    MaxCommands,  \* bound on the number of presses
    MaxOutside,   \* bound on switches by somebody else and on rebinds
    None

ASSUME TimeAssumption == MaxTime \in Nat /\ Skew \in Nat /\ Skew < MaxTime
ASSUME BoundsAssumption ==
    /\ MaxInFlight \in Nat /\ MaxCommands \in Nat /\ MaxOutside \in Nat
    /\ Unstamped \in BOOLEAN

Time == 0..MaxTime

VARIABLES
    clock,          \* the browser's clock
    actual,         \* whether the device is on
    readings,       \* readings on their way to the widget
    command,        \* the command in flight (state.pending), or None
    confirmed,      \* the last reading the control took, or None
    override,       \* what the control shows instead of it, or None
    lastReadingAt,  \* the timestamp of that reading, or 0
    timer,          \* confirmationTimer is running
    presses,        \* number of presses so far
    outside         \* number of switches by others and rebinds so far

control == <<confirmed, override, lastReadingAt, timer>>
vars == <<clock, actual, readings, command, control, presses, outside>>

Reading  == [value: BOOLEAN, at: Time \cup {None}]
Override == [value: BOOLEAN, issuedAt: Time, pending: BOOLEAN]
Command  == [target: BOOLEAN, issuedAt: Time, executed: BOOLEAN, bound: BOOLEAN]

ASSUME NoneAssumption ==
    None \notin Int /\ None \notin BOOLEAN /\ None \notin Override /\ None \notin Command

TypeOK ==
    /\ clock \in Time
    /\ actual \in BOOLEAN
    /\ readings \subseteq Reading
    /\ command \in Command \cup {None}
    /\ confirmed \in BOOLEAN \cup {None}
    /\ override \in Override \cup {None}
    /\ lastReadingAt \in Time
    /\ timer \in BOOLEAN
    /\ presses \in 0..MaxCommands
    /\ outside \in 0..MaxOutside

Init ==
    /\ clock = Skew + 1
    /\ actual \in BOOLEAN
    /\ readings = {}
    /\ command = None
    /\ confirmed = None
    /\ override = None
    /\ lastReadingAt = 0
    /\ timer = FALSE
    /\ presses = 0
    /\ outside = 0

\* What the button shows; nothing known reads as off.
Visible ==
    IF override # None THEN override.value
    ELSE confirmed # None /\ confirmed

----------------------------------------------------------------------------
(* The surroundings *)

Tick ==
    /\ clock < MaxTime
    /\ clock' = clock + 1
    /\ UNCHANGED <<actual, readings, command, control, presses, outside>>

\* Somebody else switches the device.
Switch ==
    /\ outside < MaxOutside
    /\ outside' = outside + 1
    /\ actual' = ~actual
    /\ UNCHANGED <<clock, readings, command, control, presses>>

\* The runtime reads the device and Core publishes the reading.
Publish(at) ==
    /\ Cardinality(readings) < MaxInFlight
    /\ readings' = readings \cup {[value |-> actual, at |-> at]}
    /\ UNCHANGED <<clock, actual, command, control, presses, outside>>

Sample == Publish(clock - Skew) \/ (Unstamped /\ Publish(None))

\* The command reaches the device.
Execute ==
    /\ command # None
    /\ ~command.executed
    /\ command' = [command EXCEPT !.executed = TRUE]
    /\ actual' = IF command.bound THEN command.target ELSE actual
    /\ UNCHANGED <<clock, readings, control, presses, outside>>

\* A reading is lost.
Drop(r) ==
    /\ r \in readings
    /\ readings' = readings \ {r}
    /\ UNCHANGED <<clock, actual, command, control, presses, outside>>

----------------------------------------------------------------------------
(* runCommand and the control *)

\* Mutant: begin() does not clear the timer of the command before.
Press_KeepsTimer ==
    /\ command = None
    /\ presses < MaxCommands
    /\ presses' = presses + 1
    /\ command' = [target |-> ~Visible, issuedAt |-> clock,
                   executed |-> FALSE, bound |-> TRUE]
    /\ override' = [value |-> ~Visible, issuedAt |-> clock, pending |-> TRUE]
    /\ UNCHANGED <<clock, actual, readings, confirmed, lastReadingAt, timer, outside>>

\* The button is pressed: begin(!isOn), unless a command is pending.
Press ==
    /\ command = None
    /\ presses < MaxCommands
    /\ presses' = presses + 1
    /\ command' = [target |-> ~Visible, issuedAt |-> clock,
                   executed |-> FALSE, bound |-> TRUE]
    /\ override' = [value |-> ~Visible, issuedAt |-> clock, pending |-> TRUE]
    /\ timer' = FALSE
    /\ UNCHANGED <<clock, actual, readings, confirmed, lastReadingAt, outside>>

\* executeCommand resolves: accept(), a no-op when the override is gone.
Accept ==
    /\ command # None
    /\ command.executed
    /\ command' = None
    /\ IF override = None
       THEN UNCHANGED <<override, timer>>
       ELSE /\ override' = [override EXCEPT !.pending = FALSE]
            /\ timer' = TRUE
    /\ UNCHANGED <<clock, actual, readings, confirmed, lastReadingAt, presses, outside>>

\* executeCommand rejects, whether the device was reached or not: reject().
Reject ==
    /\ command # None
    /\ command' = None
    /\ override' = None
    /\ timer' = FALSE
    /\ UNCHANGED <<clock, actual, readings, confirmed, lastReadingAt, presses, outside>>

\* The two early returns of observe: out of order, or no timestamp where
\* there have been some, unless it confirms the override.
Ignored(r) ==
    \/ r.at # None /\ r.at < lastReadingAt
    \/ /\ r.at = None /\ lastReadingAt > 0
       /\ override = None \/ override.value # r.value

\* The reading confirms the override, or is later than an accepted command.
Reconciles(r) ==
    /\ override # None
    /\ \/ r.value = override.value
       \/ ~override.pending /\ r.at # None /\ r.at >= override.issuedAt

\* Mutant: a missing timestamp overwrites the last one.
ReadingTime_Raw(r) == r.at

\* A reading without a timestamp does not move the time of the last reading.
ReadingTime(r) == IF r.at = None THEN lastReadingAt ELSE r.at

\* updateValues: observe(value, observedAt); the host may repeat a reading.
Observe(r, again) ==
    /\ r \in readings
    /\ readings' = IF again THEN readings ELSE readings \ {r}
    /\ IF Ignored(r)
       THEN UNCHANGED control
       ELSE /\ confirmed' = r.value
            /\ lastReadingAt' = ReadingTime(r)
            /\ override' = IF Reconciles(r) THEN None ELSE override
            /\ timer' = (timer /\ ~Reconciles(r))
    /\ UNCHANGED <<clock, actual, command, presses, outside>>

\* Mutant: the timer fires without giving up the override.
Expire_KeepsOverride ==
    /\ timer
    /\ timer' = FALSE
    /\ UNCHANGED <<clock, actual, readings, command, confirmed, override,
                   lastReadingAt, presses, outside>>

\* The confirmation timer of accept() fires.
Expire ==
    /\ timer
    /\ timer' = FALSE
    /\ override' = None
    /\ UNCHANGED <<clock, actual, readings, command, confirmed, lastReadingAt,
                   presses, outside>>

\* connect with other bindings: reset() and a new subscription; a command in
\* flight still concerns the device that was bound before.
Rebind ==
    /\ outside < MaxOutside
    /\ outside' = outside + 1
    /\ confirmed' = None
    /\ override' = None
    /\ lastReadingAt' = 0
    /\ timer' = FALSE
    /\ readings' = {}
    /\ actual' \in BOOLEAN
    /\ command' = IF command = None THEN None ELSE [command EXCEPT !.bound = FALSE]
    /\ UNCHANGED <<clock, presses>>

Next ==
    \/ Tick \/ Switch \/ Sample \/ Execute
    \/ Press \/ Accept \/ Reject \/ Expire \/ Rebind
    \/ \E r \in readings : Drop(r) \/ \E again \in BOOLEAN : Observe(r, again)

\* The host answers every command, the runtime keeps sampling with a
\* timestamp, a reading is delivered or dropped, and timers fire.  That not
\* every reading is dropped takes strong fairness.
Fairness ==
    /\ WF_vars(Tick) /\ WF_vars(Expire)
    /\ WF_vars(Execute) /\ WF_vars(Accept \/ Reject)
    /\ WF_vars(Publish(clock - Skew))
    /\ \A r \in Reading : SF_vars(Observe(r, FALSE))

Spec == Init /\ [][Next]_vars /\ Fairness

----------------------------------------------------------------------------
(* Properties *)

\* An optimistic value never stays without something that will end it: the
\* answer to its own command, or the confirmation timer
\* (optimistic-control.mjs:30-52).
OverrideEnds ==
    IF override = None THEN ~timer
    ELSE IF override.pending THEN command # None /\ command.bound /\ ~timer
    ELSE timer

\* When nothing happens any more, the button shows what the device is, also
\* after rejected commands that were executed, expired confirmations and
\* skewed clocks (optimistic-control.mjs:35-65).
ShowsTheDevice == <>[](Visible = actual)

\* A reading from before the command does not change what is shown until the
\* command is answered (tests/test_experience_package.py:420).
StaleReadingsDoNotUndo ==
    [][\A r \in readings :
          /\ command # None /\ command.bound
          /\ r.at # None /\ r.at < command.issuedAt
          /\ \E again \in BOOLEAN : Observe(r, again)
          => Visible' = Visible]_vars
============================================================================
