---------------------- MODULE OptimisticControl_proofs ----------------------
(* What holds of OptimisticControl for any clock, skew and number of       *)
(* presses, switches and readings.                                         *)
EXTENDS OptimisticControl, TLAPS

\* The clock never falls behind where it began, so that every reading has a
\* timestamp that is a time.
ClockStarted == clock \in (Skew + 1)..MaxTime

TypeInv == TypeOK /\ ClockStarted

LEMMA TimeType == 0 \in Time /\ (Skew + 1)..MaxTime \subseteq Time
    BY TimeAssumption DEF Time

LEMMA VisibleType == TypeOK => Visible \in BOOLEAN
    BY NoneAssumption DEF TypeOK, Visible, Override

LEMMA TypeInit == Init => TypeInv
<1> SUFFICES ASSUME Init PROVE TypeInv
    OBVIOUS
<1>1. clock \in (Skew + 1)..MaxTime
    BY TimeAssumption DEF Init
<1>2. presses \in 0..MaxCommands /\ outside \in 0..MaxOutside
    BY BoundsAssumption DEF Init
<1>. QED BY <1>1, <1>2, TimeType DEF Init, TypeInv, ClockStarted, TypeOK

\* The surroundings of the widget.
LEMMA TypeSurroundings ==
    TypeInv /\ (Tick \/ Switch \/ Sample \/ Execute \/ \E r \in readings : Drop(r)) => TypeInv'
<1> SUFFICES ASSUME TypeInv,
                    Tick \/ Switch \/ Sample \/ Execute \/ \E r \in readings : Drop(r)
             PROVE  TypeInv'
    OBVIOUS
<1> USE DEF TypeInv, ClockStarted
<1>1. CASE Tick
    <2>1. clock' \in (Skew + 1)..MaxTime
        BY <1>1, TimeAssumption DEF Tick
    <2>. QED BY <1>1, <2>1, TimeType DEF Tick, TypeOK, control
<1>2. CASE Switch
    <2>1. outside' \in 0..MaxOutside
        BY <1>2, BoundsAssumption DEF Switch, TypeOK
    <2>. QED BY <1>2, <2>1 DEF Switch, TypeOK, control
<1>3. ASSUME NEW at \in Time \cup {None}, Publish(at) PROVE TypeInv'
    BY <1>3 DEF Publish, TypeOK, control, Reading
<1>4. CASE Sample
    <2>1. clock - Skew \in Time
        BY TimeAssumption DEF Time
    <2>. QED BY <1>3, <1>4, <2>1 DEF Sample
<1>5. CASE Execute
    <2>1. command \in Command /\ command' \in Command
        BY <1>5 DEF Execute, TypeOK, Command
    <2>. QED BY <1>5, <2>1 DEF Execute, TypeOK, control, Command
<1>6. ASSUME NEW r \in readings, Drop(r) PROVE TypeInv'
    BY <1>6 DEF Drop, TypeOK, control
<1>. QED BY <1>1, <1>2, <1>4, <1>5, <1>6

\* The callbacks of the widget.
LEMMA TypeCallbacks ==
    TypeInv /\ (Press \/ Accept \/ Reject \/ Expire \/ Rebind
                \/ \E r \in readings : \E again \in BOOLEAN : Observe(r, again)) => TypeInv'
<1> SUFFICES ASSUME TypeInv,
                    Press \/ Accept \/ Reject \/ Expire \/ Rebind
                    \/ \E r \in readings : \E again \in BOOLEAN : Observe(r, again)
             PROVE  TypeInv'
    OBVIOUS
<1> USE DEF TypeInv, ClockStarted
<1>1. CASE Press
    <2>1. presses' \in 0..MaxCommands
        BY <1>1, BoundsAssumption DEF Press, TypeOK
    <2>2. Visible \in BOOLEAN /\ clock \in Time
        BY VisibleType DEF TypeOK
    <2>3. command' \in Command /\ override' \in Override
        BY <1>1, <2>2 DEF Press, Command, Override
    <2>. QED BY <1>1, <2>1, <2>3 DEF Press, TypeOK
<1>2. CASE Accept
    <2>1. override' \in Override \cup {None} /\ timer' \in BOOLEAN
        BY <1>2 DEF Accept, TypeOK, Override
    <2>. QED BY <1>2, <2>1 DEF Accept, TypeOK
<1>3. CASE Reject
    BY <1>3 DEF Reject, TypeOK
<1>4. CASE Expire
    BY <1>4 DEF Expire, TypeOK
<1>5. CASE Rebind
    <2>1. outside' \in 0..MaxOutside
        BY <1>5, BoundsAssumption DEF Rebind, TypeOK
    <2>2. command' \in Command \cup {None}
        BY <1>5 DEF Rebind, TypeOK, Command
    <2>. QED BY <1>5, <2>1, <2>2, TimeType DEF Rebind, TypeOK
<1>6. ASSUME NEW r \in readings, NEW again \in BOOLEAN, Observe(r, again) PROVE TypeInv'
    <2>1. r \in Reading /\ ReadingTime(r) \in Time
        BY DEF TypeOK, Reading, ReadingTime
    <2>2. timer' \in BOOLEAN
        BY <1>6 DEF Observe, TypeOK, control
    <2>3. confirmed' \in BOOLEAN \cup {None}
        BY <1>6, <2>1 DEF Observe, TypeOK, control, Reading
    <2>. QED BY <1>6, <2>1, <2>2, <2>3 DEF Observe, TypeOK, control
<1>. QED BY <1>1, <1>2, <1>3, <1>4, <1>5, <1>6

LEMMA TypeStep == TypeInv /\ [Next]_vars => TypeInv'
<1>1. ASSUME TypeInv, UNCHANGED vars PROVE TypeInv'
    BY <1>1 DEF vars, control, TypeInv, ClockStarted, TypeOK
<1>. QED BY <1>1, TypeSurroundings, TypeCallbacks DEF Next

\* The control, the command in flight and the readings keep their types
\* (optimistic-control.mjs:11-72, kasa-widget.mjs:213-230).
THEOREM TypeCorrect == Spec => []TypeOK
<1>1. TypeInv => TypeOK
    BY DEF TypeInv
<1>. QED BY <1>1, TypeInit, TypeStep, PTL DEF Spec

LEMMA OverrideStep == TypeOK /\ OverrideEnds /\ [Next]_vars => OverrideEnds'
<1> SUFFICES ASSUME TypeOK, OverrideEnds, [Next]_vars PROVE OverrideEnds'
    OBVIOUS
<1> USE NoneAssumption DEF OverrideEnds
<1>1. CASE UNCHANGED vars \/ Tick \/ Switch \/ Sample
    BY <1>1 DEF vars, control, Tick, Switch, Sample, Publish
<1>2. CASE Execute
    <2>1. command \in Command /\ command' \in Command /\ command'.bound = command.bound
        BY <1>2 DEF Execute, TypeOK, Command
    <2>. QED BY <1>2, <2>1 DEF Execute, control
<1>3. CASE Press
    <2>1. Visible \in BOOLEAN /\ clock \in Time
        BY VisibleType DEF TypeOK
    <2>2. command' \in Command /\ override' \in Override
        BY <1>3, <2>1 DEF Press, Command, Override
    <2>. QED BY <1>3, <2>2 DEF Press
<1>4. CASE Accept
    <2>1. CASE override = None
        BY <1>4, <2>1 DEF Accept
    <2>2. CASE override # None
        <3>1. override' \in Override /\ ~override'.pending
            BY <1>4, <2>2 DEF Accept, TypeOK, Override
        <3>. QED BY <1>4, <2>2, <3>1 DEF Accept
    <2>. QED BY <2>1, <2>2
<1>5. CASE Reject \/ Expire \/ Rebind
    BY <1>5 DEF Reject, Expire, Rebind
<1>6. ASSUME NEW r \in readings, Drop(r) PROVE OverrideEnds'
    BY <1>6 DEF Drop, control
<1>7. ASSUME NEW r \in readings, NEW again \in BOOLEAN, Observe(r, again)
      PROVE  OverrideEnds'
    <2>1. CASE Ignored(r)
        BY <1>7, <2>1 DEF Observe, control
    <2>2. CASE ~Ignored(r) /\ Reconciles(r)
        <3>1. override' = None /\ ~timer'
            BY <1>7, <2>2, Zenon DEF Observe
        <3>. QED BY <3>1
    <2>3. CASE ~Ignored(r) /\ ~Reconciles(r)
        <3>1. override' = override /\ (timer' <=> timer) /\ command' = command
            BY <1>7, <2>3, Zenon DEF Observe
        <3>. QED BY <3>1
    <2>. QED BY <2>1, <2>2, <2>3
<1>. QED BY <1>1, <1>2, <1>3, <1>4, <1>5, <1>6, <1>7 DEF Next

\* However commands, readings, timers and rebinds interleave, an optimistic
\* value has an answer to wait for or a running timer
\* (optimistic-control.mjs:30-52).
THEOREM OverrideAlwaysEnds == Spec => []OverrideEnds
<1>1. Init => OverrideEnds
    BY DEF Init, OverrideEnds
<1>. QED BY <1>1, OverrideStep, TypeCorrect, PTL DEF Spec

----------------------------------------------------------------------------
(* What the button shows *)

\* While the command of the bound device is in flight, an override is the one of
\* that command.
CommandShown ==
    command # None /\ command.bound /\ override # None
        => override.pending /\ override.value = command.target

\* As long as a command is pending for the bound device, the button shows what was
\* asked for, until a reading agrees and takes the override off, which changes
\* nothing.  From then on only a further reading that is not ignored changes it.
PendingStep ==
    command # None /\ command.bound /\ command' # None /\ command'.bound
        => IF override # None
           THEN Visible = command.target /\ Visible' = Visible
           ELSE /\ override' = None
                /\ Visible' # Visible =>
                     \E r \in readings :
                        /\ \E again \in BOOLEAN : Observe(r, again)
                        /\ r.value = Visible'
                        /\ IF r.at = None THEN lastReadingAt = 0
                           ELSE r.at >= lastReadingAt

\* The button shows what the device is, and no reading under way disagrees.
ShownAsIs ==
    /\ override = None
    /\ confirmed = actual
    /\ \A r \in readings : r.value = actual

\* Only a press, a rebind or a change of the device itself alters what is right.
ShownStep ==
    ShownAsIs /\ actual' = actual /\ presses' = presses /\ outside' = outside
        => ShownAsIs' /\ Visible' = actual'

\* The control never goes back to a reading that is older than its last one,
\* unless it was bound anew.
OrderStep == outside' = outside => lastReadingAt <= lastReadingAt'

LEMMA ObservePending ==
    ASSUME TypeOK, NEW r \in readings, NEW again \in BOOLEAN, Observe(r, again),
           override # None, override.pending
    PROVE  Visible' = Visible
<1>1. CASE Ignored(r) \/ ~Reconciles(r)
  <2>1. override' = override
      BY <1>1, Zenon DEF Observe, control
  <2>. QED BY <2>1 DEF Visible
<1>2. CASE ~Ignored(r) /\ Reconciles(r)
  <2>1. override' = None /\ confirmed' = r.value
      BY <1>2, Zenon DEF Observe
  <2>2. r.value = override.value
      BY <1>2, Zenon DEF Reconciles
  <2>3. r.value \in BOOLEAN /\ r.value # None
      BY NoneAssumption DEF TypeOK, Reading
  <2>4. (confirmed' # None /\ confirmed') = r.value
      BY <2>1, <2>3, Zenon
  <2>. QED BY <2>1, <2>2, <2>4 DEF Visible
<1>. QED BY <1>1, <1>2

\* A reading, when there is no override to hold it back.
LEMMA ObserveShown ==
    ASSUME TypeOK, NEW r \in readings, NEW again \in BOOLEAN, Observe(r, again),
           override = None
    PROVE  /\ override' = None
           /\ Visible' # Visible =>
                 /\ r.value = Visible'
                 /\ IF r.at = None THEN lastReadingAt = 0 ELSE r.at >= lastReadingAt
<1>1. CASE Ignored(r)
  <2>1. override' = override /\ confirmed' = confirmed
      BY <1>1, Zenon DEF Observe, control
  <2>. QED BY <2>1 DEF Visible
<1>2. CASE ~Ignored(r)
  <2>1. override' = None /\ confirmed' = r.value
      BY <1>2, Zenon DEF Observe
  <2>2. r.value \in BOOLEAN /\ r.value # None
      BY NoneAssumption DEF TypeOK, Reading
  <2>3. Visible' = r.value
    <3>1. (confirmed' # None /\ confirmed') = r.value
        BY <2>1, <2>2, Zenon
    <3>. QED BY <2>1, <3>1, Zenon DEF Visible
  <2>4. /\ r.at = None => ~(lastReadingAt > 0)
        /\ r.at # None => ~(r.at < lastReadingAt)
      BY <1>2, Zenon DEF Ignored
  <2>5. /\ lastReadingAt \in Int /\ lastReadingAt >= 0
        /\ r.at # None => r.at \in Int
      BY TimeAssumption DEF TypeOK, Reading, Time
  <2>. QED BY <2>1, <2>3, <2>4, <2>5
<1>. QED BY <1>1, <1>2

LEMMA CommandShownStep ==
    TypeOK /\ OverrideEnds /\ CommandShown /\ [Next]_vars => CommandShown'
<1>. SUFFICES ASSUME TypeOK, OverrideEnds, CommandShown, [Next]_vars PROVE CommandShown'
    OBVIOUS
<1>1. CASE UNCHANGED vars \/ Tick \/ Switch \/ Sample \/ \E r \in readings : Drop(r)
    BY <1>1 DEF vars, control, Tick, Switch, Sample, Publish, Drop, CommandShown
<1>2. CASE Execute
  <2>1. command # None /\ command' = [command EXCEPT !.executed = TRUE]
        /\ override' = override
      BY <1>2 DEF Execute, control
  <2>2. command \in Command /\ command'.bound = command.bound
        /\ command'.target = command.target
      BY <2>1 DEF TypeOK, Command
  <2>. QED BY <2>1, <2>2 DEF CommandShown
<1>3. CASE Press
  <2>1. /\ command' = [target |-> ~Visible, issuedAt |-> clock,
                       executed |-> FALSE, bound |-> TRUE]
        /\ override' = [value |-> ~Visible, issuedAt |-> clock, pending |-> TRUE]
      BY <1>3 DEF Press
  <2>. QED BY <2>1 DEF CommandShown
<1>4. CASE Accept \/ Reject \/ Rebind \/ Expire
  <2>1. command' = None \/ override' = None
      BY <1>4, Zenon DEF Accept, Reject, Rebind, Expire
  <2>. QED BY <2>1 DEF CommandShown
<1>5. ASSUME NEW r \in readings, NEW again \in BOOLEAN, Observe(r, again)
      PROVE  CommandShown'
  <2>1. command' = command /\ override' \in {override, None}
      BY <1>5 DEF Observe, control
  <2>. QED BY <2>1 DEF CommandShown
<1>. QED BY <1>1, <1>2, <1>3, <1>4, <1>5 DEF Next

LEMMA PendingKept == TypeOK /\ OverrideEnds /\ CommandShown /\ [Next]_vars => PendingStep
<1>. SUFFICES ASSUME TypeOK, OverrideEnds, CommandShown, [Next]_vars,
                     command # None, command.bound, command' # None, command'.bound
              PROVE  PendingStep
    BY DEF PendingStep
<1>1. override # None =>
          override.pending /\ override.value = command.target /\ Visible = command.target
    BY DEF CommandShown, Visible
<1>2. ASSUME UNCHANGED <<confirmed, override>> PROVE PendingStep
    BY <1>1, <1>2 DEF PendingStep, Visible
<1>3. CASE UNCHANGED vars \/ Tick \/ Switch \/ Sample \/ Execute
           \/ \E r \in readings : Drop(r)
  <2>1. UNCHANGED <<confirmed, override>>
      BY <1>3 DEF vars, control, Tick, Switch, Sample, Publish, Execute, Drop
  <2>. QED BY <1>2, <2>1
<1>4. CASE Press \/ Accept \/ Reject
    BY <1>4, Zenon DEF Press, Accept, Reject
<1>5. CASE Rebind
  <2>1. ~[command EXCEPT !.bound = FALSE].bound
      BY DEF TypeOK, Command
  <2>. QED BY <1>5, <2>1 DEF Rebind
<1>6. CASE Expire
  <2>1. override # None /\ ~override.pending
      BY <1>6, Zenon DEF Expire, OverrideEnds
  <2>. QED BY <1>1, <2>1
<1>7. ASSUME NEW r \in readings, NEW again \in BOOLEAN, Observe(r, again)
      PROVE  PendingStep
  <2>1. CASE override # None
      BY <1>1, <1>7, <2>1, ObservePending DEF PendingStep
  <2>2. CASE override = None
      BY <1>7, <2>2, ObserveShown DEF PendingStep
  <2>. QED BY <2>1, <2>2
<1>. QED BY <1>3, <1>4, <1>5, <1>6, <1>7 DEF Next

LEMMA ShownKept == TypeOK /\ OverrideEnds /\ [Next]_vars => ShownStep
<1>. SUFFICES ASSUME TypeOK, OverrideEnds, [Next]_vars, ShownAsIs,
                     actual' = actual, presses' = presses, outside' = outside
              PROVE  ShownAsIs' /\ Visible' = actual'
    BY DEF ShownStep
<1>1. ShownAsIs'
  <2>1. CASE UNCHANGED vars \/ Tick \/ Execute \/ \E r \in readings : Drop(r)
      BY <2>1 DEF vars, control, Tick, Execute, Drop, ShownAsIs
  <2>2. CASE Sample
      BY <2>2 DEF Sample, Publish, control, ShownAsIs
  <2>3. CASE Switch \/ Press \/ Rebind
    <3>1. presses \in Int /\ outside \in Int
        BY BoundsAssumption DEF TypeOK
    <3>. QED BY <2>3, <3>1 DEF Switch, Press, Rebind
  <2>4. CASE Accept \/ Reject \/ Expire
      BY <2>4, Zenon DEF Accept, Reject, Expire, ShownAsIs
  <2>5. ASSUME NEW r \in readings, NEW again \in BOOLEAN, Observe(r, again)
        PROVE  ShownAsIs'
    <3>1. /\ readings' \subseteq readings
          /\ confirmed' \in {confirmed, r.value} /\ override' \in {override, None}
        BY <2>5 DEF Observe, control
    <3>. QED BY <3>1 DEF ShownAsIs
  <2>. QED BY <2>1, <2>2, <2>3, <2>4, <2>5 DEF Next
<1>2. actual' # None
    BY NoneAssumption DEF TypeOK
<1>3. actual' \in BOOLEAN
    BY DEF TypeOK
<1>4. Visible' = actual'
  <2>1. override' = None /\ confirmed' = actual' /\ confirmed' # None
      BY <1>1, <1>2 DEF ShownAsIs
  <2>2. (confirmed' # None /\ confirmed') = actual'
      BY <1>2, <1>3, <2>1, Zenon
  <2>. QED BY <2>1, <2>2, Zenon DEF Visible
<1>. QED BY <1>1, <1>4

LEMMA OrderKept == TypeOK /\ [Next]_vars => OrderStep
<1>. SUFFICES ASSUME TypeOK, [Next]_vars, outside' = outside
              PROVE  lastReadingAt <= lastReadingAt'
    BY DEF OrderStep
<1>. USE TimeAssumption DEF Time
<1>1. lastReadingAt \in Int /\ outside \in Int
    BY BoundsAssumption DEF TypeOK
<1>2. ASSUME NEW r \in readings, NEW again \in BOOLEAN, Observe(r, again)
      PROVE  lastReadingAt <= lastReadingAt'
  <2>1. CASE Ignored(r) \/ r.at = None
    <3>1. lastReadingAt' = lastReadingAt
        BY <1>2, <2>1, Zenon DEF Observe, ReadingTime, control
    <3>. QED BY <1>1, <3>1
  <2>2. CASE ~Ignored(r) /\ r.at # None
    <3>1. lastReadingAt' = r.at
        BY <1>2, <2>2, Zenon DEF Observe, ReadingTime
    <3>2. r.at \in Int /\ ~(r.at < lastReadingAt)
        BY <2>2 DEF Ignored, TypeOK, Reading
    <3>. QED BY <1>1, <3>1, <3>2
  <2>. QED BY <2>1, <2>2
<1>3. CASE Rebind
    BY <1>1, <1>3 DEF Rebind
<1>4. CASE \/ UNCHANGED vars \/ Tick \/ Switch \/ Sample \/ Execute
           \/ Press \/ Accept \/ Reject \/ Expire \/ \E r \in readings : Drop(r)
  <2>1. lastReadingAt' = lastReadingAt
      BY <1>4 DEF vars, control, Tick, Switch, Sample, Publish, Execute, Press, Accept,
                  Reject, Expire, Drop
  <2>. QED BY <1>1, <2>1
<1>. QED BY <1>2, <1>3, <1>4 DEF Next

\* While a command is pending for the bound device the button shows what was asked
\* for until a reading agrees with it, whatever its age; only a later callback with
\* another reading that is not ignored changes it before the command is answered,
\* which an agreeing reading from before the command makes possible
\* (optimistic-control.mjs:30-65).
THEOREM PendingIsShown == Spec => []CommandShown /\ [][PendingStep]_vars
<1>1. Init => CommandShown
    BY DEF Init, CommandShown
<1>2. TypeOK /\ OverrideEnds /\ CommandShown /\ [Next]_vars => CommandShown'
    BY CommandShownStep
<1>3. TypeOK /\ OverrideEnds /\ CommandShown /\ [Next]_vars => [PendingStep]_vars
    BY PendingKept
<1>. QED BY <1>1, <1>2, <1>3, TypeCorrect, OverrideAlwaysEnds, PTL DEF Spec

\* A button that shows the device, with no reading under way that disagrees,
\* goes on showing it until somebody presses, rebinds or switches the device,
\* whatever timers, answers and old commands are still to come; and as long as it
\* stays bound it takes no reading older than its last (optimistic-control.mjs:54-66).
\* This is the safety part of ShowsTheDevice.
THEOREM ShownStaysRight == Spec => [][ShownStep /\ OrderStep]_vars
<1>1. TypeOK /\ OverrideEnds /\ [Next]_vars => [ShownStep /\ OrderStep]_vars
    BY ShownKept, OrderKept
<1>. QED BY <1>1, TypeCorrect, OverrideAlwaysEnds, PTL DEF Spec
=============================================================================
