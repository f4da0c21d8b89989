------------------------ MODULE KasaSessions_proofs ------------------------
(* Proofs about KasaSessions: connections do not outlive their calls, a    *)
(* reachable device answers them, and a command leaves its effect; and     *)
(* about Entities: the commands that the same client lists can be run.     *)
EXTENDS KasaSessions, Entities, TLAPS

\* Where a call holds a connection.
Connected == {"probing", "updating", "acting", "checking"}

\* ConnectionsReleased, strengthened: a connection is open only while its call
\* is at one of the awaits that are followed by a disconnect, or has been
\* cancelled.
ReleaseInv ==
    /\ pc \in [Calls -> {"idle", "cached", "direct", "single"} \cup Connected \cup {"closing"}]
    /\ open \in [Calls -> BOOLEAN]
    /\ cancelled \in [Calls -> BOOLEAN]
    /\ \A c \in Calls : open[c] => pc[c] \in Connected \/ cancelled[c]

\* No connection is open before the first call.
LEMMA ReleaseInit == Init => ReleaseInv
BY DEF Init, ReleaseInv

\* The steps of call c, on the invariant: either it stays connected, or it has
\* closed its connection, or it has none yet.
LEMMA ReleaseCall ==
    ASSUME ReleaseInv, NEW c \in Calls,
           Begin(c, "fetch") \/ Proceed(c) \/ Cancel(c) \/ \E j \in Commands : Begin(c, j)
    PROVE  ReleaseInv'
<1> USE DEF ReleaseInv, Connected, Active, cancelVars
<1>1. ASSUME NEW j, Begin(c, j) PROVE ReleaseInv'
  BY <1>1 DEF Begin
<1>2. CASE ConnectCached(c)
  BY <1>2 DEF ConnectCached
<1>3. CASE ConnectDirect(c)
  BY <1>3 DEF ConnectDirect
<1>4. CASE ConnectSingle(c)
  BY <1>4 DEF ConnectSingle, Done
<1>5. CASE Probe(c)
  BY <1>5 DEF Probe, Close
<1>6. CASE UpdateFetch(c)
  BY <1>6 DEF UpdateFetch, Close
<1>7. CASE UpdateCommand(c)
  BY <1>7 DEF UpdateCommand, Continue, Close
<1>8. CASE Act(c)
  BY <1>8 DEF Act, Continue, Close
<1>9. CASE Check(c)
  BY <1>9 DEF Check, Close
<1>10. CASE Break(c)
  BY <1>10 DEF Break, Close
<1>11. CASE Finish(c)
  BY <1>11 DEF Finish, Done
<1>12. CASE Cancel(c)
  BY <1>12 DEF Cancel, Done, Close
<1>13. QED
  BY <1>1, <1>2, <1>3, <1>4, <1>5, <1>6, <1>7, <1>8, <1>9, <1>10, <1>11, <1>12
  DEF Proceed, Resolve

\* What happens outside touches no connection of the runtime.
LEMMA ReleaseStep == ReleaseInv /\ [Next]_vars => ReleaseInv'
<1> SUFFICES ASSUME ReleaseInv, [Next]_vars PROVE ReleaseInv'
  OBVIOUS
<1>1. CASE Outage \/ Return \/ Upgrade \/ (\E f \in Features : Switch(f))
  BY <1>1 DEF Outage, Return, Upgrade, Switch, ReleaseInv, cancelVars
<1>2. CASE \E c \in Calls : Begin(c, "fetch") \/ Proceed(c) \/ Cancel(c)
  BY <1>2, ReleaseCall
<1>3. CASE \E c \in Requests, j \in Commands : Begin(c, j)
  BY <1>3, ReleaseCall DEF Calls
<1>4. CASE UNCHANGED vars
  BY <1>4 DEF vars, cancelVars, ReleaseInv
<1>5. QED
  BY <1>1, <1>2, <1>3, <1>4 DEF Next

\* Unless it was cancelled, the connection of a call is closed by the time it
\* returns or raises, for any number of calls, commands, outages, firmware
\* changes and cancellations of others (kasa_client.py:437-442, 636-637,
\* 731-732).
THEOREM Released == Spec => []ConnectionsReleased
<1>1. ReleaseInv => ConnectionsReleased
  BY DEF ReleaseInv, ConnectionsReleased, Connected, Active
<1>2. QED
  BY <1>1, ReleaseInit, ReleaseStep, PTL DEF Spec

----------------------------------------------------------------------------
(* Reachable devices answer *)

\* A request during which the device stayed as it was finds it online, its
\* connection fits, and it is not disconnected before it has succeeded unless
\* the command is refused.
Undisturbed(c) ==
    Active(c) /\ ~disturbed[c] =>
        /\ online
        /\ pc[c] \in Connected => link[c] = firmware
        /\ pc[c] = "closing" => good[c] \/ Refused(c, todo[c])

ReachInv ==
    /\ pc \in [Calls -> {"idle", "cached", "direct", "single"} \cup Connected \cup {"closing"}]
    /\ DOMAIN link = Calls /\ DOMAIN good = Calls /\ DOMAIN todo = Calls
    /\ DOMAIN job = Calls
    /\ \A c \in Requests : Undisturbed(c)

LEMMA ReachInit == Init => ReachInv
<1> SUFFICES ASSUME Init PROVE ReachInv
  OBVIOUS
<1>1. \A c \in Requests : ~Active(c)
  BY DEF Init, Active, Calls
<1>2. QED
  BY <1>1 DEF Init, ReachInv, Undisturbed

\* Calls other than c do not change under a step of c, except that they may be
\* marked.
Same(r) ==
    pc'[r] = pc[r] /\ link'[r] = link[r] /\ good'[r] = good[r] /\ todo'[r] = todo[r]
    /\ job'[r] = job[r] /\ (disturbed'[r] <=> disturbed[r])

LEMMA SameReach ==
    ASSUME NEW r \in Requests, Undisturbed(r), Same(r), UNCHANGED <<online, firmware>>
    PROVE  Undisturbed(r)'
BY DEF Undisturbed, Same, Active, Refused

\* An update, a write or a refusal: the call goes on, or is refused.
LEMMA ContinueReach ==
    ASSUME ReachInv, NEW c \in Calls, NEW rest, Continue(c, rest),
           pc[c] \in Connected, Usable(c), UNCHANGED <<online, firmware, link, job, disturbed>>
    PROVE  ReachInv'
<1> USE DEF ReachInv, Connected
<1>1. \A r \in Requests \ {c} : Same(r)
  BY DEF Continue, Close, Same, Calls
<1>2. link[c] = firmware /\ online
  BY DEF Usable
<1>3. CASE Refused(c, rest) /\ Close(c, FALSE)
  <2>1. pc'[c] = "closing" /\ todo'[c] = rest /\ Refused(c, rest)'
    BY <1>3 DEF Continue, Close, Refused
  <2>2. Undisturbed(c)'
    BY <1>2, <2>1 DEF Undisturbed, Refused
  <2>3. QED
    BY <1>1, <1>3, <2>2, SameReach DEF Continue, Close
<1>4. CASE /\ pc' = [pc EXCEPT ![c] = IF rest = <<>> THEN "checking" ELSE "acting"]
           /\ UNCHANGED <<open, good>>
  <2>1. Undisturbed(c)'
    BY <1>2, <1>4 DEF Undisturbed
  <2>2. QED
    BY <1>1, <1>4, <2>1, SameReach DEF Continue
<1>5. QED
  BY <1>3, <1>4 DEF Continue

\* The steps of call c.
LEMMA ReachCall == ASSUME ReachInv, NEW c \in Calls, Proceed(c) PROVE ReachInv'
<1> USE DEF ReachInv, Connected
<1>1. CASE ConnectCached(c)
  <2>1. \A r \in Requests \ {c} : Same(r)
    BY <1>1 DEF ConnectCached, Same, histVars, Calls
  <2>2. c \in Requests => Undisturbed(c)'
    BY <1>1 DEF ConnectCached, Usable, Undisturbed, Active, histVars, deviceVars
  <2>3. QED
    BY <1>1, <2>1, <2>2, SameReach DEF ConnectCached, deviceVars
<1>2. CASE ConnectDirect(c)
  <2>1. \A r \in Requests \ {c} : Same(r)
    BY <1>2 DEF ConnectDirect, Same, histVars, Calls
  <2>2. c \in Requests => Undisturbed(c)'
    BY <1>2 DEF ConnectDirect, Undisturbed, Active, histVars, deviceVars
  <2>3. QED
    BY <1>2, <2>1, <2>2, SameReach DEF ConnectDirect, deviceVars
<1>3. CASE ConnectSingle(c) /\ online
  <2>1. /\ pc' = [pc EXCEPT ![c] = "probing"] /\ link' = [link EXCEPT ![c] = firmware]
        /\ UNCHANGED <<job, todo, good, disturbed, online, firmware>>
    BY <1>3 DEF ConnectSingle, Done, histVars, deviceVars
  <2>2. \A r \in Requests \ {c} : Same(r)
    BY <2>1 DEF Same, Calls
  <2>3. c \in Requests => Undisturbed(c)'
    BY <1>3, <2>1 DEF Undisturbed
  <2>4. QED
    BY <2>1, <2>2, <2>3, SameReach
<1>4. CASE (ConnectSingle(c) /\ ~online) \/ Finish(c)
  <2>1. Done(c) /\ UNCHANGED <<online, firmware>>
    BY <1>4 DEF ConnectSingle, Finish, deviceVars
  <2>2. \A r \in Requests \ {c} : Same(r)
    BY <2>1 DEF Done, Kept, Same, Calls
  <2>3. c \in Requests => Undisturbed(c)'
    BY <2>1 DEF Done, Undisturbed, Active
  <2>4. QED
    BY <2>1, <2>2, <2>3, SameReach DEF Done
<1>5. CASE Probe(c)
  <2>1. \A r \in Requests \ {c} : Same(r)
    BY <1>5 DEF Probe, Close, Same, histVars, Calls
  <2>2. c \in Requests => Undisturbed(c)'
    BY <1>5 DEF Probe, Close, Usable, Undisturbed, Active, histVars, deviceVars
  <2>3. QED
    BY <1>5, <2>1, <2>2, SameReach DEF Probe, Close, deviceVars
<1>6. CASE UpdateFetch(c) \/ Check(c)
  <2>1. /\ Close(c, TRUE) /\ UNCHANGED <<online, firmware, job, link, todo, disturbed>>
        /\ Usable(c)
    BY <1>6 DEF UpdateFetch, Check, histVars, deviceVars
  <2>2. \A r \in Requests \ {c} : Same(r)
    BY <2>1 DEF Close, Same, Calls
  <2>3. c \in Requests => Undisturbed(c)'
    BY <2>1 DEF Close, Usable, Undisturbed
  <2>4. QED
    BY <2>1, <2>2, <2>3, SameReach DEF Close
<1>7. CASE UpdateCommand(c)
  BY <1>7, ContinueReach DEF UpdateCommand, histVars, deviceVars
<1>8. CASE Act(c)
  BY <1>8, ContinueReach DEF Act
<1>9. CASE Break(c)
  <2>1. /\ Close(c, FALSE) /\ UNCHANGED <<online, firmware, job, link, todo, disturbed>>
        /\ ~Usable(c) /\ pc[c] \in {"updating", "acting", "checking"}
    BY <1>9 DEF Break, histVars, deviceVars
  <2>2. \A r \in Requests \ {c} : Same(r)
    BY <2>1 DEF Close, Same, Calls
  <2>3. c \in Requests => disturbed[c]
    BY <2>1 DEF Usable, Undisturbed, Active
  <2>4. c \in Requests => Undisturbed(c)'
    BY <2>1, <2>3 DEF Undisturbed
  <2>5. QED
    BY <2>1, <2>2, <2>4, SameReach DEF Close
<1>10. QED
  BY <1>1, <1>2, <1>3, <1>4, <1>5, <1>6, <1>7, <1>8, <1>9 DEF Proceed, Resolve

\* A call begins, or a poll task is cancelled.
LEMMA ReachEnds ==
    ASSUME ReachInv, NEW c \in Calls, Cancel(c) \/ \E j : Begin(c, j) PROVE ReachInv'
<1> USE DEF ReachInv, Connected
<1>1. ASSUME NEW j, Begin(c, j) PROVE ReachInv'
  <2>1. \A r \in Requests \ {c} : Same(r)
    BY <1>1 DEF Begin, Kept, Same, Calls
  <2>2. c \in Requests => Undisturbed(c)'
    <3>1. c \in Requests => (disturbed'[c] <=> ~online)
      BY <1>1 DEF Begin, Kept
    <3>2. pc'[c] \in {"direct", "cached"} /\ online' = online
      BY <1>1 DEF Begin, deviceVars
    <3>3. QED
      BY <3>1, <3>2 DEF Undisturbed
  <2>3. QED
    BY <1>1, <2>1, <2>2, SameReach DEF Begin, deviceVars
<1>2. CASE Cancel(c)
  <2>1. c \notin Requests /\ UNCHANGED <<online, firmware>>
    BY <1>2, CallersAssumption DEF Cancel, deviceVars
  <2>2. \A r \in Requests : Same(r)
    BY <1>2, <2>1 DEF Cancel, Done, Close, Kept, Same, Calls, histVars
  <2>3. QED
    BY <1>2, <2>1, <2>2, SameReach DEF Cancel, Done, Close
<1>3. QED
  BY <1>1, <1>2

\* What disturbs a device marks every request in progress.
LEMMA ReachStep == ReachInv /\ [Next]_vars => ReachInv'
<1> SUFFICES ASSUME ReachInv, [Next]_vars PROVE ReachInv'
  OBVIOUS
<1>1. CASE Outage \/ Upgrade
  <2>1. UNCHANGED <<pc, frameVars>> /\ disturbed' = Marked(disturbed, {})
    BY <1>1 DEF Outage, Upgrade
  <2>2. \A r \in Requests : Active(r) => disturbed'[r]
    BY <2>1 DEF Marked
  <2>3. \A r \in Requests : Undisturbed(r)'
    BY <2>1, <2>2 DEF Undisturbed, Active
  <2>4. QED
    BY <2>1, <2>3 DEF ReachInv, frameVars
<1>2. CASE Return \/ (\E f \in Features : Switch(f)) \/ UNCHANGED vars
  <2>1. /\ UNCHANGED <<pc, job, link, todo, good, disturbed, firmware>>
        /\ online' = TRUE \/ online' = online
    BY <1>2 DEF Return, Switch, vars, frameVars, histVars, deviceVars
  <2>2. QED
    BY <2>1 DEF ReachInv, Undisturbed, Active, Refused
<1>3. CASE \E c \in Calls : Begin(c, "fetch") \/ Proceed(c) \/ Cancel(c)
  BY <1>3, ReachCall, ReachEnds
<1>4. CASE \E c \in Requests, j \in Commands : Begin(c, j)
  BY <1>4, ReachEnds DEF Calls
<1>5. QED
  BY <1>1, <1>2, <1>3, <1>4 DEF Next

\* A request ends without success only where it was disturbed or refused.
LEMMA EndsExcused ==
    ASSUME ReachInv, [Next]_vars, NEW c \in Requests, Ended(c), ~good[c]
    PROVE  disturbed[c] \/ Refused(c, todo[c])
<1>1. c \in Calls /\ pc[c] # "idle" /\ pc'[c] = "idle"
  BY DEF Ended, Active, Calls
<1>2. (ConnectSingle(c) /\ ~online) \/ Finish(c)
  <2>1. PICK d \in Calls : Proceed(d) \/ Cancel(d) \/ \E j : Begin(d, j)
    BY <1>1 DEF Next, Outage, Return, Upgrade, Switch, vars, Calls
  <2>2. c = d
    BY <1>1, <2>1 DEF Proceed, Resolve, ConnectCached, ConnectDirect, ConnectSingle, Probe,
                      UpdateFetch, UpdateCommand, Act, Check, Break, Finish, Continue,
                      Cancel, Begin, Done, Close, ReachInv
  <2>3. ~Cancel(c)
    BY CallersAssumption DEF Cancel
  <2>4. ~\E j : Begin(c, j)
    BY <1>1 DEF Begin, Active
  <2>5. QED
    BY <1>1, <2>1, <2>2, <2>3, <2>4
    DEF Proceed, Resolve, ConnectCached, ConnectDirect, ConnectSingle, Probe,
        UpdateFetch, UpdateCommand, Act, Check, Break, Continue, Close, ReachInv
<1>3. QED
  BY <1>1, <1>2 DEF ReachInv, Undisturbed, Active, ConnectSingle, Finish

\* A call fails only if the device was away or changed its firmware while it
\* ran, or if the command is refused, for any number of calls that share the
\* cache (kasa_client.py:413-443).
THEOREM ReachableAnswered == Spec => ReachableIsAnswered
<1>1. ReachInv /\ [Next]_vars =>
          [\A c \in Requests :
              Ended(c) /\ ~good[c] => disturbed[c] \/ Refused(c, todo[c])]_vars
  BY EndsExcused
<1>2. QED
  BY <1>1, ReachInit, ReachStep, PTL DEF Spec, ReachableIsAnswered

----------------------------------------------------------------------------
(* Commands take effect *)

State == [Features -> {0, 1}]
Write == [feature : Features, value : {0, 1}]

\* No feature is written twice.
Distinct(writes) ==
    \A i, j \in DOMAIN writes : writes[i].feature = writes[j].feature => i = j

\* The effect of writes, feature by feature.
LEMMA EffectAt ==
    ASSUME NEW writes \in Seq(Write), Distinct(writes), NEW state, NEW f \in Features
    PROVE  /\ \A i \in DOMAIN writes :
                  writes[i].feature = f => Effect(state, writes)[f] = writes[i].value
           /\ (\A i \in DOMAIN writes : writes[i].feature # f) =>
                  Effect(state, writes)[f] = state[f]
<1> DEFINE own == {i \in DOMAIN writes : writes[i].feature = f}
<1>1. Effect(state, writes)[f] =
          IF own = {} THEN state[f] ELSE writes[CHOOSE i \in own : TRUE].value
  BY DEF Effect
<1>2. ASSUME NEW i \in own PROVE (CHOOSE k \in own : TRUE) = i
  BY <1>2 DEF Distinct
<1>3. QED
  BY <1>1, <1>2

\* No writes, no effect.
LEMMA EffectOfNone == ASSUME NEW state \in State PROVE Effect(state, <<>>) = state
BY DEF Effect, State

\* One write at a time has the effect of all.
LEMMA EffectOfHead ==
    ASSUME NEW state \in State, NEW writes \in Seq(Write), Distinct(writes), writes # <<>>
    PROVE  /\ Tail(writes) \in Seq(Write) /\ Distinct(Tail(writes))
           /\ Head(writes) \in Write
           /\ Effect([state EXCEPT ![Head(writes).feature] = Head(writes).value],
                     Tail(writes))
                  = Effect(state, writes)
<1> DEFINE rest == Tail(writes)
           next == [state EXCEPT ![Head(writes).feature] = Head(writes).value]
<1>1. /\ rest \in Seq(Write) /\ Head(writes) = writes[1] /\ Head(writes) \in Write
      /\ DOMAIN writes = 1..Len(writes) /\ Len(writes) \in Nat \ {0}
      /\ DOMAIN rest = 1..(Len(writes) - 1)
      /\ \A i \in DOMAIN rest : rest[i] = writes[i + 1]
  OBVIOUS
<1>2. Distinct(rest)
  BY <1>1 DEF Distinct
<1>3. \A i \in DOMAIN rest : rest[i].feature # Head(writes).feature
  BY <1>1 DEF Distinct
<1>4. \A f \in Features :
          next[f] = IF f = Head(writes).feature THEN Head(writes).value ELSE state[f]
  BY DEF State
<1> HIDE DEF next, rest
<1>5. ASSUME NEW f \in Features PROVE Effect(next, rest)[f] = Effect(state, writes)[f]
  <2>1. CASE f = Head(writes).feature
    <3>1. Effect(next, rest)[f] = next[f]
      BY <1>1, <1>2, <1>3, <2>1, EffectAt
    <3>2. next[f] = Head(writes).value
      BY <1>4, <2>1
    <3>3. Effect(state, writes)[f] = writes[1].value
      BY <1>1, <2>1, EffectAt
    <3>4. QED
      BY <1>1, <3>1, <3>2, <3>3
  <2>2. CASE f # Head(writes).feature /\ \E i \in DOMAIN rest : rest[i].feature = f
    <3>1. PICK i \in DOMAIN rest : rest[i].feature = f
      BY <2>2
    <3>2. Effect(next, rest)[f] = rest[i].value
      BY <1>1, <1>2, <3>1, EffectAt
    <3>3. i + 1 \in DOMAIN writes /\ writes[i + 1] = rest[i]
      BY <1>1
    <3>4. Effect(state, writes)[f] = rest[i].value
      BY <3>1, <3>3, EffectAt
    <3>5. QED
      BY <3>2, <3>4
  <2>3. CASE f # Head(writes).feature /\ \A i \in DOMAIN rest : rest[i].feature # f
    <3>1. Effect(next, rest)[f] = next[f]
      BY <1>1, <1>2, <2>3, EffectAt
    <3>2. next[f] = state[f]
      BY <1>4, <2>3
    <3>3. \A i \in DOMAIN writes : writes[i].feature # f
      <4>1. ASSUME NEW i \in DOMAIN writes, i # 1 PROVE writes[i].feature # f
        <5>1. i - 1 \in DOMAIN rest /\ rest[i - 1] = writes[i]
          BY <1>1, <4>1
        <5>2. QED
          BY <2>3, <5>1
      <4>2. QED
        BY <1>1, <2>3, <4>1
    <3>4. Effect(state, writes)[f] = state[f]
      BY <3>3, EffectAt
    <3>5. QED
      BY <3>1, <3>2, <3>4
  <2>4. QED
    BY <2>1, <2>2, <2>3
<1>6. Effect(next, rest) = Effect(state, writes)
  BY <1>5 DEF Effect
<1>7. QED
  BY <1>1, <1>2, <1>6 DEF next, rest

\* What a command writes is well formed.
LEMMA WritesType ==
    ASSUME NEW j \in Commands \cup {"fetch"}, NEW state \in State
    PROVE  Writes(j, state) \in Seq(Write) /\ Distinct(Writes(j, state))
<1>1. \A v \in {0, 1} :
          /\ <<W("power", v)>> \in Seq(Write) /\ Distinct(<<W("power", v)>>)
  BY FeaturesAssumption DEF W, Write, Distinct
<1>2. state["power"] \in {0, 1} /\ 1 - state["power"] \in {0, 1}
  BY FeaturesAssumption DEF State
<1>3. <<>> \in Seq(Write) /\ Distinct(<<>>)
  BY DEF Distinct
<1>4. {"hue", "saturation"} \subseteq Features =>
          /\ <<W("hue", 1)>> \in Seq(Write) /\ Distinct(<<W("hue", 1)>>)
          /\ <<W("hue", 1), W("saturation", 1)>> \in Seq(Write)
          /\ Distinct(<<W("hue", 1), W("saturation", 1)>>)
  BY DEF W, Write, Distinct
<1>5. CASE j \in {"turn_on", "turn_off", "toggle"}
  BY <1>1, <1>2, <1>5 DEF Writes
<1>6. CASE j \in {"set_feature", "set_hue_saturation", "bad_saturation"}
  <2>1. {"hue", "saturation"} \subseteq Features
    BY <1>6, FeaturesAssumption
  <2>2. QED
    BY <1>4, <1>6, <2>1 DEF Writes
<1>7. CASE j \notin {"turn_on", "turn_off", "toggle", "set_feature", "set_hue_saturation",
                     "bad_saturation"}
  BY <1>3, <1>7 DEF Writes
<1>8. QED
  BY <1>5, <1>6, <1>7

PCs == {"idle", "cached", "direct", "single"} \cup Connected \cup {"closing"}

CommandTypes ==
    /\ device \in State
    /\ pc \in [Calls -> PCs]
    /\ job \in [Calls -> Commands \cup {"fetch"}]
    /\ todo \in [Calls -> Seq(Write)]
    /\ seen \in [Calls -> State]
    /\ good \in [Calls -> BOOLEAN]
    /\ start \in [Requests -> State]
    /\ \A c \in Calls :
          /\ Distinct(todo[c])
          /\ pc[c] = "acting" => todo[c] # <<>>
          /\ pc[c] = "checking" => todo[c] = <<>>

\* The effect that the command of request c is to have.
Whole(c) == Effect(start[c], Writes(job[c], start[c]))

\* While nobody else writes: the device is as it was until the first write;
\* from then on, the writes that are left complete the effect; and a call that
\* will return has seen it.
Uncrossed(c) ==
    Active(c) /\ ~crossed[c] =>
        /\ pc[c] \in {"cached", "direct", "single", "probing", "updating"} =>
              device = start[c]
        /\ pc[c] \in {"acting", "checking"} => Effect(device, todo[c]) = Whole(c)
        /\ pc[c] = "closing" /\ good[c] => device = Whole(c) /\ seen[c] = Whole(c)

EffectInv == CommandTypes /\ \A c \in Requests : Uncrossed(c)

LEMMA UnreadType == Unread \in State /\ <<>> \in Seq(Write) /\ Distinct(<<>>)
BY DEF Unread, State, Distinct

LEMMA EffectInit == Init => EffectInv
<1> SUFFICES ASSUME Init PROVE EffectInv
  OBVIOUS
<1>1. CommandTypes
  BY UnreadType DEF Init, CommandTypes, PCs
<1>2. \A c \in Requests : ~Active(c)
  BY DEF Init, Active, Calls
<1>3. QED
  BY <1>1, <1>2 DEF EffectInv, Uncrossed

\* What request r relies on, when it is not its turn.
Waits(r) ==
    /\ pc'[r] = pc[r] /\ job'[r] = job[r] /\ todo'[r] = todo[r] /\ start'[r] = start[r]
    /\ seen'[r] = seen[r] /\ good'[r] = good[r] /\ (crossed'[r] <=> crossed[r])

LEMMA WaitsUncrossed ==
    ASSUME NEW r \in Requests, Uncrossed(r), Waits(r), UNCHANGED device
    PROVE  Uncrossed(r)'
BY DEF Uncrossed, Waits, Active, Whole

\* A call that is over.
LEMMA DoneEffect ==
    ASSUME EffectInv, NEW c \in Calls, Done(c), UNCHANGED device PROVE EffectInv'
<1> USE DEF EffectInv
<1>1. CommandTypes'
  <2>1. start' \in [Requests -> State]
    BY UnreadType DEF Done, Kept, CommandTypes
  <2>2. QED
    BY <2>1, UnreadType DEF Done, CommandTypes, PCs
<1>2. \A r \in Requests \ {c} : Waits(r)
  BY DEF Done, Kept, Waits, CommandTypes, Calls
<1>3. c \in Requests => Uncrossed(c)'
  BY DEF Done, CommandTypes, Uncrossed, Active
<1>4. QED
  BY <1>1, <1>2, <1>3, WaitsUncrossed

\* A call that ends without success.
LEMMA FailedEffect ==
    ASSUME EffectInv, NEW c \in Calls, Close(c, FALSE),
           UNCHANGED <<device, job, seen, todo, start, crossed>>
    PROVE  EffectInv'
<1> USE DEF EffectInv
<1>1. CommandTypes'
  BY DEF Close, CommandTypes, PCs
<1>2. \A r \in Requests \ {c} : Waits(r)
  BY DEF Close, Waits, CommandTypes, Calls
<1>3. c \in Requests => Uncrossed(c)'
  BY DEF Close, CommandTypes, Uncrossed
<1>4. QED
  BY <1>1, <1>2, <1>3, WaitsUncrossed

\* A call that goes on to connect.
LEMMA ResolveEffect ==
    ASSUME EffectInv, NEW c \in Calls, Resolve(c) PROVE EffectInv'
<1>1. CASE ConnectSingle(c) /\ ~online
  BY <1>1, DoneEffect DEF ConnectSingle, deviceVars
<1>2. CASE Probe(c) /\ ~Usable(c)
  BY <1>2, FailedEffect DEF Probe, deviceVars, histVars
<1>3. CASE \/ ConnectCached(c) \/ ConnectDirect(c)
           \/ ConnectSingle(c) /\ online
           \/ Probe(c) /\ Usable(c)
  <2>1. /\ \E p \in {"direct", "single", "probing", "updating"} :
              pc' = [pc EXCEPT ![c] = p]
        /\ pc[c] \in {"cached", "direct", "single", "probing"}
        /\ UNCHANGED <<device, job, seen, todo, good, start, crossed>>
    BY <1>3 DEF ConnectCached, ConnectDirect, ConnectSingle, Probe, deviceVars, histVars
  <2>2. CommandTypes'
    BY <2>1 DEF EffectInv, CommandTypes, PCs, Connected
  <2>3. \A r \in Requests \ {c} : Waits(r)
    BY <2>1 DEF Waits, EffectInv, CommandTypes, Calls
  <2>4. c \in Requests => Uncrossed(c)'
    BY <2>1 DEF EffectInv, CommandTypes, Uncrossed, Active
  <2>5. QED
    BY <2>1, <2>2, <2>3, <2>4, WaitsUncrossed DEF EffectInv
<1>4. QED
  BY <1>1, <1>2, <1>3 DEF Resolve, ConnectSingle

\* update() of a fetch or the last one of a command: what is returned is the
\* state of the device, after the effect.
LEMMA ReturnEffect ==
    ASSUME EffectInv, NEW c \in Calls, UpdateFetch(c) \/ Check(c) PROVE EffectInv'
<1> USE DEF EffectInv
<1>1. /\ seen' = [seen EXCEPT ![c] = device] /\ Close(c, TRUE)
      /\ UNCHANGED <<device, job, todo, start, crossed>>
      /\ \/ pc[c] = "updating" /\ job[c] = "fetch"
         \/ pc[c] = "checking" /\ todo[c] = <<>>
  BY DEF UpdateFetch, Check, deviceVars, histVars, CommandTypes
<1>2. CommandTypes'
  BY <1>1 DEF Close, CommandTypes, PCs
<1>3. \A r \in Requests \ {c} : Waits(r)
  BY <1>1 DEF Close, Waits, CommandTypes, Calls
<1>4. ASSUME c \in Requests PROVE Uncrossed(c)'
  <2>1. SUFFICES ASSUME ~crossed[c] PROVE device = Whole(c)
    BY <1>1 DEF Close, CommandTypes, Uncrossed, Whole, Active
  <2>2. CASE pc[c] = "updating" /\ job[c] = "fetch"
    <3>1. device = start[c] /\ start[c] \in State
      BY <1>4, <2>1, <2>2 DEF Uncrossed, Active, CommandTypes
    <3>2. Writes("fetch", start[c]) = <<>>
      BY DEF Writes
    <3>3. QED
      BY <2>2, <3>1, <3>2, EffectOfNone DEF Whole
  <2>3. CASE pc[c] = "checking" /\ todo[c] = <<>>
    <3>1. Effect(device, <<>>) = Whole(c) /\ device \in State
      BY <1>4, <2>1, <2>3 DEF Uncrossed, Active, CommandTypes
    <3>2. QED
      BY <3>1, EffectOfNone
  <2>4. QED
    BY <1>1, <2>2, <2>3
<1>5. QED
  BY <1>1, <1>2, <1>3, <1>4, WaitsUncrossed

\* A command chooses its writes, or has made one: those that are left complete
\* the effect, and every other request is marked unless the device is the same.
LEMMA ContinueEffect ==
    ASSUME EffectInv, NEW c \in Calls, NEW rest \in Seq(Write), Continue(c, rest),
           Distinct(rest), device' \in State, seen' \in [Calls -> State],
           \A r \in Calls \ {c} : seen'[r] = seen[r],
           UNCHANGED <<job, start>>,
           c \in Requests => (crossed'[c] <=> crossed[c]),
           \A r \in Requests \ {c} :
               \/ Active(r) /\ crossed'[r]
               \/ ~Active(r)
               \/ UNCHANGED device /\ (crossed'[r] <=> crossed[r]),
           c \in Requests /\ ~crossed[c] => Effect(device', rest) = Whole(c)
    PROVE  EffectInv'
<1> USE DEF EffectInv
<1>1. /\ todo' = [todo EXCEPT ![c] = rest]
      /\ \/ pc' = [pc EXCEPT ![c] = "closing"] /\ good' = [good EXCEPT ![c] = FALSE]
         \/ pc' = [pc EXCEPT ![c] = "checking"] /\ good' = good /\ rest = <<>>
         \/ pc' = [pc EXCEPT ![c] = "acting"] /\ good' = good /\ rest # <<>>
  BY DEF Continue, Close
<1>2. CommandTypes'
  BY <1>1 DEF CommandTypes, PCs, Connected
<1>3. \A r \in Requests \ {c} : Uncrossed(r)'
  <2> SUFFICES ASSUME NEW r \in Requests \ {c} PROVE Uncrossed(r)'
    OBVIOUS
  <2>1. /\ pc'[r] = pc[r] /\ job'[r] = job[r] /\ todo'[r] = todo[r] /\ start'[r] = start[r]
        /\ seen'[r] = seen[r] /\ good'[r] = good[r]
    BY <1>1 DEF CommandTypes, Calls
  <2>2. CASE (Active(r) /\ crossed'[r]) \/ ~Active(r)
    BY <2>1, <2>2 DEF Uncrossed, Active
  <2>3. CASE UNCHANGED device /\ (crossed'[r] <=> crossed[r])
    BY <2>1, <2>3, WaitsUncrossed DEF Waits
  <2>4. QED
    BY <2>2, <2>3
<1>4. ASSUME c \in Requests PROVE Uncrossed(c)'
  <2>1. Whole(c)' = Whole(c)
    BY DEF Whole
  <2>2. todo'[c] = rest
    BY <1>1 DEF CommandTypes
  <2>3. pc'[c] \in {"acting", "checking"} \/ (pc'[c] = "closing" /\ ~good'[c])
    BY <1>1 DEF CommandTypes
  <2>4. QED
    BY <1>4, <2>1, <2>2, <2>3 DEF Uncrossed
<1>5. QED
  BY <1>2, <1>3, <1>4

\* The first update() of a command and its writes.
LEMMA WriteEffect ==
    ASSUME EffectInv, NEW c \in Calls, UpdateCommand(c) \/ Act(c) PROVE EffectInv'
<1> USE DEF EffectInv
<1>1. CASE UpdateCommand(c)
  <2>1. /\ pc[c] = "updating" /\ Continue(c, Writes(job[c], device))
        /\ seen' = [seen EXCEPT ![c] = device]
        /\ UNCHANGED <<device, job, start, crossed>>
    BY <1>1 DEF UpdateCommand, deviceVars, histVars
  <2>2. Writes(job[c], device) \in Seq(Write) /\ Distinct(Writes(job[c], device))
    BY WritesType DEF CommandTypes
  <2>3. c \in Requests /\ ~crossed[c] => device = start[c]
    BY <2>1 DEF Uncrossed, Active
  <2>4. seen' \in [Calls -> State] /\ \A r \in Calls \ {c} : seen'[r] = seen[r]
    BY <2>1 DEF CommandTypes
  <2>5. device' \in State
    BY <2>1 DEF CommandTypes
  <2>6. QED
    BY <2>1, <2>2, <2>3, <2>4, <2>5, ContinueEffect DEF Whole
<1>2. CASE Act(c)
  <2>1. /\ pc[c] = "acting" /\ Continue(c, Tail(todo[c]))
        /\ device' = [device EXCEPT ![Head(todo[c]).feature] = Head(todo[c]).value]
        /\ crossed' = Marked(crossed, {c})
        /\ UNCHANGED <<job, start, seen>>
    BY <1>2 DEF Act
  <2>2. /\ Tail(todo[c]) \in Seq(Write) /\ Distinct(Tail(todo[c]))
        /\ Head(todo[c]) \in Write
        /\ Effect(device', Tail(todo[c])) = Effect(device, todo[c])
    BY <2>1, EffectOfHead DEF CommandTypes
  <2>3. device' \in State
    BY <2>1, <2>2 DEF CommandTypes, State, Write
  <2>4. \A r \in Requests : crossed'[r] <=> crossed[r] \/ (Active(r) /\ r # c)
    BY <2>1 DEF Marked
  <2>5. c \in Requests /\ ~crossed[c] => Effect(device, todo[c]) = Whole(c)
    BY <2>1 DEF Uncrossed, Active
  <2>6. /\ \A r \in Requests \ {c} : (Active(r) /\ crossed'[r]) \/ ~Active(r)
        /\ c \in Requests => (crossed'[c] <=> crossed[c])
    BY <2>4
  <2>7. seen' \in [Calls -> State] /\ \A r \in Calls \ {c} : seen'[r] = seen[r]
    BY <2>1 DEF CommandTypes
  <2>8. QED
    BY <2>1, <2>2, <2>3, <2>5, <2>6, <2>7, ContinueEffect
<1>3. QED
  BY <1>1, <1>2

\* A call begins with the device as it is, or a poll task is cancelled.
LEMMA BeginEffect ==
    ASSUME EffectInv, NEW c \in Calls, NEW j \in Commands \cup {"fetch"}, Begin(c, j)
    PROVE  EffectInv'
<1> USE DEF EffectInv
<1>1. /\ \E p \in {"direct", "cached"} : pc' = [pc EXCEPT ![c] = p]
      /\ job' = [job EXCEPT ![c] = j]
      /\ start' = Kept(start, c, device) /\ crossed' = Kept(crossed, c, FALSE)
      /\ UNCHANGED <<device, seen, todo, good>>
  BY DEF Begin, deviceVars
<1>2. CommandTypes'
  <2>1. start' \in [Requests -> State]
    BY <1>1 DEF Kept, CommandTypes
  <2>2. QED
    BY <1>1, <2>1 DEF CommandTypes, PCs
<1>3. \A r \in Requests \ {c} : Waits(r)
  BY <1>1 DEF Kept, Waits, CommandTypes, Calls
<1>4. c \in Requests => Uncrossed(c)'
  <2>1. c \in Requests => start'[c] = device
    BY <1>1 DEF Kept
  <2>2. pc'[c] \in {"direct", "cached"}
    BY <1>1 DEF CommandTypes
  <2>3. QED
    BY <1>1, <2>1, <2>2 DEF Uncrossed
<1>5. QED
  BY <1>1, <1>2, <1>3, <1>4, WaitsUncrossed

LEMMA CancelEffect == ASSUME EffectInv, NEW c \in Calls, Cancel(c) PROVE EffectInv'
<1>1. CASE Done(c)
  BY <1>1, DoneEffect DEF Cancel, deviceVars
<1>2. CASE Close(c, FALSE) /\ UNCHANGED <<job, link, seen, todo, histVars>>
  BY <1>2, FailedEffect DEF Cancel, deviceVars, histVars
<1>3. QED
  BY <1>1, <1>2 DEF Cancel

LEMMA EffectStep == EffectInv /\ [Next]_vars => EffectInv'
<1> SUFFICES ASSUME EffectInv, [Next]_vars PROVE EffectInv'
  OBVIOUS
<1>1. ASSUME NEW f \in Features, Switch(f) PROVE EffectInv'
  <2>1. /\ device' = [device EXCEPT ![f] = 1 - @] /\ crossed' = Marked(crossed, {})
        /\ UNCHANGED <<pc, job, seen, todo, good, start>>
    BY <1>1 DEF Switch, frameVars
  <2>2. device' \in State
    BY <2>1 DEF EffectInv, CommandTypes, State
  <2>3. CommandTypes'
    BY <2>1, <2>2 DEF EffectInv, CommandTypes
  <2>4. \A r \in Requests : Active(r) => crossed'[r]
    BY <2>1 DEF Marked
  <2>5. QED
    BY <2>1, <2>3, <2>4 DEF EffectInv, Uncrossed, Active
<1>2. CASE Outage \/ Return \/ Upgrade \/ UNCHANGED vars
  <2>1. UNCHANGED <<device, pc, job, seen, todo, good, start, crossed>>
    BY <1>2 DEF Outage, Return, Upgrade, vars, deviceVars, frameVars, histVars
  <2>2. QED
    BY <2>1 DEF EffectInv, CommandTypes, Uncrossed, Active, Whole
<1>3. ASSUME NEW c \in Calls, Proceed(c) PROVE EffectInv'
  <2>1. Break(c) => EffectInv'
    BY FailedEffect DEF Break, deviceVars, histVars
  <2>2. Finish(c) => EffectInv'
    BY DoneEffect DEF Finish, deviceVars
  <2>3. QED
    BY <1>3, <2>1, <2>2, ResolveEffect, ReturnEffect, WriteEffect DEF Proceed
<1>4. CASE \E c \in Calls : Begin(c, "fetch") \/ Cancel(c)
  BY <1>4, BeginEffect, CancelEffect
<1>5. CASE \E c \in Requests, j \in Commands : Begin(c, j)
  BY <1>5, BeginEffect DEF Calls
<1>6. QED
  BY <1>1, <1>2, <1>3, <1>4, <1>5 DEF Next

\* A request that returns has disconnected, and its device is as the effect
\* of its writes left it.
LEMMA ReturnsEffect ==
    ASSUME EffectInv, [Next]_vars, NEW c \in Requests, Ended(c), good[c], ~crossed[c],
           pc[c] = "closing"
    PROVE  seen[c] = Whole(c) /\ device = seen[c]
BY DEF EffectInv, Uncrossed, Ended

\* Only a call that is disconnecting is going to return.
LEMMA GoodCloses == Spec => [](\A c \in Calls : good[c] => pc[c] = "closing")
<1> DEFINE GoodInv == /\ pc \in [Calls -> PCs] /\ good \in [Calls -> BOOLEAN]
                      /\ \A c \in Calls : good[c] => pc[c] = "closing"
<1>1. Init => GoodInv
  BY DEF Init, PCs
<1>2. ASSUME GoodInv, NEW c \in Calls,
             Begin(c, "fetch") \/ Proceed(c) \/ Cancel(c) \/ \E j \in Commands : Begin(c, j)
      PROVE  GoodInv'
  <2>1. ASSUME NEW j, Begin(c, j) PROVE GoodInv'
    BY <1>2, <2>1 DEF Begin, Active, PCs
  <2>2. CASE Resolve(c)
    <3>1. pc[c] # "closing" /\ (good' = good \/ good' = [good EXCEPT ![c] = FALSE])
      BY <2>2 DEF Resolve, ConnectCached, ConnectDirect, ConnectSingle, Probe, Done, Close,
                  frameVars
    <3>2. \E p \in PCs : pc' = [pc EXCEPT ![c] = p]
      <4>1. {"direct", "single", "probing", "updating", "closing", "idle"} \subseteq PCs
        BY DEF PCs, Connected
      <4>2. QED
        BY <2>2, <4>1 DEF Resolve, ConnectCached, ConnectDirect, ConnectSingle, Probe,
                          Done, Close
    <3>3. QED
      BY <1>2, <3>1, <3>2
  <2>3. CASE UpdateFetch(c) \/ Check(c) \/ Break(c) \/ Finish(c) \/ Cancel(c)
    BY <1>2, <2>3 DEF UpdateFetch, Check, Break, Finish, Cancel, Done, Close, PCs, Connected
  <2>4. CASE UpdateCommand(c) \/ Act(c)
    BY <1>2, <2>4 DEF UpdateCommand, Act, Continue, Close, PCs, Connected
  <2>5. QED
    BY <1>2, <2>1, <2>2, <2>3, <2>4 DEF Proceed
<1>3. GoodInv /\ [Next]_vars => GoodInv'
  <2> SUFFICES ASSUME GoodInv, [Next]_vars PROVE GoodInv'
    OBVIOUS
  <2>1. CASE \/ Outage \/ Return \/ Upgrade \/ (\E f \in Features : Switch(f))
             \/ UNCHANGED vars
    BY <2>1 DEF Outage, Return, Upgrade, Switch, vars, frameVars
  <2>2. CASE \E c \in Calls : Begin(c, "fetch") \/ Proceed(c) \/ Cancel(c)
    BY <1>2, <2>2
  <2>3. CASE \E c \in Requests, j \in Commands : Begin(c, j)
    BY <1>2, <2>3 DEF Calls
  <2>4. QED
    BY <2>1, <2>2, <2>3 DEF Next
<1>4. QED
  BY <1>1, <1>3, PTL DEF Spec

\* A command that returns, and during which nobody else wrote, has had exactly
\* its effect and shows it, for any number of concurrent calls, outages and
\* firmware changes (kasa_client.py:651-730).
THEOREM CommandsWork == Spec => CommandTakesEffect
<1>1. /\ EffectInv /\ [Next]_vars
      /\ \A c \in Calls : good[c] => pc[c] = "closing"
      => [\A c \in Requests :
             Ended(c) /\ good[c] /\ ~crossed[c]
                 => /\ seen[c] = Effect(start[c], Writes(job[c], start[c]))
                    /\ device = seen[c]]_vars
  BY ReturnsEffect DEF Whole, Calls
<1>2. QED
  BY <1>1, EffectInit, EffectStep, GoodCloses, PTL DEF Spec, CommandTakesEffect
----------------------------------------------------------------------------
(* The commands that a client lists are commands that it runs: Entities,    *)
(* for any features, tokens and methods.  All of it follows from the        *)
(* definitions, so each theorem is a lemma about a state.                   *)

\* A command of the client's list finds the method or the writable feature
\* it looks for when it is executed (kasa_client.py:298-392, 656-727).
LEMMA ListedRuns == SupportedRun
<1> SUFFICES ASSUME NEW c \in Supported
             PROVE  Executes(c) \/ (c = "set_hue_saturation"
                       /\ Writable({"hue"}) # Writable({"saturation"}))
    BY DEF SupportedRun
<1> USE DEF Executes, When
<1>1. CASE c \in {"refresh", "read_energy"}
    BY <1>1
<1>2. CASE c \in methods \cap {"turn_on", "turn_off", "set_alias", "reboot"}
    BY <1>2
<1>3. CASE c = "toggle" /\ {"turn_on", "turn_off"} \subseteq methods
    BY <1>3
<1>4. CASE c \in {"set_feature", "feature_action"} /\ Writable(Names)
    BY <1>4
<1>5. CASE c = "set_brightness" /\ Writable(Brightness)
    BY <1>5 DEF Brightness
<1>6. CASE c = "set_color_temperature" /\ Writable(ColorTemp)
    BY <1>6 DEF ColorTemp
<1>7. CASE c = "set_hue_saturation" /\ Writable({"hue", "saturation"})
    <2>1. Writable({"hue"}) \/ Writable({"saturation"})
        BY <1>7 DEF Writable
    <2>. QED BY <1>7, <2>1 DEF Writable
<1>. QED BY <1>1, <1>2, <1>3, <1>4, <1>5, <1>6, <1>7 DEF Supported

\* Every command listed by the client can be executed, or is the one for
\* color on a device with only one of hue and saturation.
THEOREM ListedCommandsRun == EntitiesSpec => []SupportedRun
    BY ListedRuns, PTL

LEMMA WritableIsPresent == ASSUME NEW ids, Writable(ids) PROVE Has(ids)
    BY DEF Writable, Has

LEMMA Agree == CommandsAgree
<1>1. Supported \cap {"set_brightness", "set_color_temperature", "set_hue_saturation"}
          \subseteq Offered
    <2>1. "set_brightness" \in Supported => "brightness" \in Capabilities
        <3>1. "set_brightness" \in Supported => Has(Brightness)
            BY WritableIsPresent DEF Supported, When
        <3>. QED BY <3>1 DEF Capabilities, When
    <2>2. "set_color_temperature" \in Supported =>
              "color_temperature" \in Capabilities
        <3>1. "set_color_temperature" \in Supported => Has(ColorTemp)
            BY WritableIsPresent DEF Supported, When
        <3>. QED BY <3>1 DEF Capabilities, When
    <2>3. "set_hue_saturation" \in Supported => "color" \in Capabilities
        <3>1. "set_hue_saturation" \in Supported => Has({"hue", "saturation"})
            BY WritableIsPresent DEF Supported, When
        <3>2. Has({"hue", "saturation"}) => Has(Color)
            BY DEF Has, Color
        <3>. QED BY <3>1, <3>2 DEF Capabilities, When
    <2>. QED BY <2>1, <2>2, <2>3 DEF Offered, When
<1>2. Supported \subseteq AUTOMATION_COMMANDS
    BY DEF Supported, When, AUTOMATION_COMMANDS
<1>3. Offered \subseteq AUTOMATION_COMMANDS
    BY DEF Offered, When, AUTOMATION_COMMANDS
<1>. QED BY <1>1, <1>2, <1>3 DEF CommandsAgree

\* What the client lists for a light is offered by its entity, and every
\* command of either list is accepted by /command.
THEOREM CommandListsAgree == EntitiesSpec => []CommandsAgree
    BY Agree, PTL

LEMMA Fit == WidgetsFit
<1>1. CASE Controllable
    BY <1>1 DEF WidgetsFit, Default, Recommended, Allowed,
                Offered, When, EntityType, DeviceClass
<1>2. CASE ~Controllable
    <2>1. ~IsLight
        BY <1>2 DEF Controllable, DeviceClass
    <2>. QED BY <1>2, <2>1 DEF WidgetsFit, Default, Recommended,
                               Allowed, EntityType
<1>. QED BY <1>1, <1>2

\* The widgets recommended for an entity are allowed and have the commands
\* they need, for any capabilities and class (entities/router.py:16-81).
THEOREM WidgetsAlwaysFit == EntitiesSpec => []WidgetsFit
    BY Fit, PTL

LEMMA MetricsCovered == MetricsHaveCapability
<1>1. \A ids : Reads(ids) => Has(ids)
    BY DEF Reads, Has
<1>2. \A ids, word : Finds(ids, word) => Has(ids) \/ Finds({}, word)
    BY DEF Finds, Has
<1>3. SUFFICES ASSUME NEW metric \in Metrics, metric \notin Capabilities
      PROVE  \/ metric = "switch"
             \/ metric = "power" /\ "energy_power" \in Capabilities
             \/ metric = "energy_today" /\ Finds({}, "today") /\ ~Has(Today)
             \/ metric = "energy_this_month" /\ Finds({}, "month") /\ ~Has(Month)
    BY DEF MetricsHaveCapability
<1>4. "energy_power" \in Energy => "energy_power" \in Capabilities
    BY DEF Capabilities
<1>5. CASE metric \in Energy
    BY <1>2, <1>3, <1>4, <1>5 DEF Energy, Capabilities, When
<1>6. CASE metric = "power" /\ "energy_power" \in Energy
    BY <1>4, <1>6
<1>7. CASE metric \in When(Reads(Brightness), "brightness")
                        \cup When(Reads(ColorTemp), "color_temperature")
                        \cup When(Reads(Temperature), "temperature")
                        \cup When(Reads(Humidity), "humidity")
    BY <1>1, <1>3, <1>7 DEF Capabilities, When
<1>. QED BY <1>3, <1>5, <1>6, <1>7 DEF Metrics, When

\* A published metric belongs to a capability of the device, except switch,
\* which every device has, power beside energy_power, and an energy found
\* through the name of a feature only, for any features and names
\* (routes.py:150-200, kasa_client.py:145-252).
THEOREM MetricsAreCovered == EntitiesSpec => []MetricsHaveCapability
    BY MetricsCovered, PTL
=============================================================================
