------------------------- MODULE StateFetch_proofs -------------------------
(* What holds of StateFetch for any number of switches and failures.       *)
EXTENDS StateFetch, TLAPS

\* What one fetch at a time keeps: there is no other, and the state it
\* compares with is still the state it is about to replace.
PrevIsStored ==
    ~overlapped =>
        \A f \in Fetchers : fpc[f] # "idle" =>
            /\ prev[f] = stored
            /\ \A g \in Fetchers : fpc[g] # "idle" => g = f

Carries == \A f \in Fetchers : fpc[f] = "disconnecting" => got[f] \in Version

BeliefInv ==
    /\ TypeOK
    /\ Carries
    /\ PrevIsStored
    /\ BeliefMatches
    /\ stored = None <=> believed = None

LEMMA IsOnType == ASSUME NEW v \in Version PROVE IsOn(v) \in BOOLEAN
    BY DEF IsOn

\* The types, for any number of fetchers.
LEMMA TypeStep == TypeOK /\ Carries /\ [Next]_vars => TypeOK' /\ Carries'
<1>. SUFFICES ASSUME TypeOK, Carries, [Next]_vars PROVE TypeOK' /\ Carries'
    OBVIOUS
<1>. USE BoundsAssumption
<1>1. CASE UNCHANGED vars
    BY <1>1 DEF vars, fetchVars, TypeOK, Carries
<1>2. CASE Switch
    BY <1>2 DEF Switch, fetchVars, TypeOK, Carries, Version
<1>3. ASSUME NEW f \in Fetchers, Begin(f) PROVE TypeOK' /\ Carries'
    BY <1>3 DEF Begin, TypeOK, Carries
<1>4. ASSUME NEW f \in Fetchers, Read(f) PROVE TypeOK' /\ Carries'
    BY <1>4 DEF Read, Sample, TypeOK, Carries
<1>5. ASSUME NEW f \in Fetchers, Store(f) PROVE TypeOK' /\ Carries'
    <2>1. got[f] \in Version /\ IsOn(got[f]) \in BOOLEAN
        BY <1>5, IsOnType DEF Store, Carries
    <2>2. telemetry' \subseteq Version /\ believed' \in BOOLEAN \cup {None}
        BY <1>5, <2>1 DEF Store, SendTelemetry, TypeOK
    <2>3. 0 \in Version
        BY DEF Version
    <2>. QED BY <1>5, <2>1, <2>2, <2>3 DEF Store, TypeOK, Carries
<1>6. ASSUME NEW f \in Fetchers, Fail(f) PROVE TypeOK' /\ Carries'
    <2>1. 0 \in Version /\ failures' \in 0..MaxFailures
        BY <1>6 DEF Version, Fail, TypeOK
    <2>. QED BY <1>6, <2>1 DEF Fail, TypeOK, Carries
<1>7. ASSUME NEW v \in Version, NEW again \in BOOLEAN, Deliver(v, again)
      PROVE  TypeOK' /\ Carries'
    BY <1>7 DEF Deliver, fetchVars, TypeOK, Carries
<1>8. ASSUME NEW v \in Version, Lose(v) PROVE TypeOK' /\ Carries'
    <2>1. failures' \in 0..MaxFailures
        BY <1>8 DEF Lose, TypeOK
    <2>. QED BY <1>8, <2>1 DEF Lose, fetchVars, TypeOK, Carries
<1>. QED BY <1>1, <1>2, <1>3, <1>4, <1>5, <1>6, <1>7, <1>8 DEF Next, Fetch

LEMMA TypeInit == Init => TypeOK /\ Carries
<1>1. 0 \in Version /\ 0 \in 0..MaxFailures
    BY BoundsAssumption DEF Version
<1>2. Init => TypeOK
    BY <1>1 DEF Init, TypeOK
<1>3. Init => Carries
    BY DEF Init, Carries
<1>. QED BY <1>2, <1>3

\* The frames of the fetches, the stored state and the deliveries keep their
\* types for any number of pollers and requests (routes.py:202-260).
THEOREM TypeCorrect == Spec => []TypeOK
    BY TypeInit, TypeStep, PTL DEF Spec

LEMMA BeliefStep == BeliefInv /\ [Next]_vars => BeliefInv'
<1>. SUFFICES ASSUME BeliefInv, [Next]_vars PROVE BeliefInv'
    OBVIOUS
<1>. DEFINE Rest == PrevIsStored /\ BeliefMatches /\ (stored = None <=> believed = None)
<1>0. TypeOK' /\ Carries'
    BY TypeStep DEF BeliefInv
<1>1. CASE UNCHANGED <<stored, fpc, prev, believed, overlapped>>
    BY <1>0, <1>1 DEF BeliefInv, PrevIsStored, BeliefMatches
<1>2. ASSUME NEW f \in Fetchers, Begin(f) PROVE Rest'
    BY <1>2 DEF Begin, BeliefInv, TypeOK, PrevIsStored, BeliefMatches
<1>3. ASSUME NEW f \in Fetchers, Read(f) PROVE Rest'
    BY <1>3 DEF Read, BeliefInv, TypeOK, PrevIsStored, BeliefMatches
<1>4. ASSUME NEW f \in Fetchers, Store(f) PROVE Rest'
    <2>1. /\ got[f] \in Version /\ got[f] # None /\ stored' = got[f]
          /\ overlapped' = overlapped /\ fpc[f] # "idle"
          /\ fpc' = [fpc EXCEPT ![f] = "idle"]
        BY <1>4, NoneAssumption DEF Store, BeliefInv, Carries, Version
    <2>2. IsOn(got[f]) \in BOOLEAN /\ IsOn(got[f]) # None
        BY <2>1, IsOnType, NoneAssumption
    <2>3. PrevIsStored'
        BY <2>1 DEF PrevIsStored, BeliefInv, TypeOK
    <2>4. believed' # None
        BY <1>4, <2>1, <2>2 DEF Store, BeliefInv
    <2>5. ASSUME HasContainer, ~overlapped PROVE believed' = IsOn(got[f])
        <3>1. prev[f] = stored
            BY <2>1, <2>5 DEF BeliefInv, PrevIsStored
        <3>2. CASE believed = None \/ Crossed(f)
            BY <1>4, <3>2 DEF Store
        <3>3. CASE believed # None /\ ~Crossed(f)
            <4>1. stored # None /\ IsOn(stored) = IsOn(got[f])
                BY <2>5, <3>1, <3>3 DEF Crossed, BeliefInv
            <4>. QED BY <1>4, <2>5, <3>3, <4>1 DEF Store, BeliefInv, BeliefMatches
        <3>. QED BY <3>2, <3>3
    <2>. QED BY <2>1, <2>3, <2>4, <2>5 DEF BeliefMatches
<1>5. ASSUME NEW f \in Fetchers, Fail(f) PROVE Rest'
    BY <1>5 DEF Fail, BeliefInv, TypeOK, PrevIsStored, BeliefMatches
<1>6. CASE Next
    <2>1. CASE \/ Switch
               \/ \E v \in Version, again \in BOOLEAN : Deliver(v, again)
               \/ \E v \in Version : Lose(v)
        <3>1. UNCHANGED <<stored, fpc, prev, believed, overlapped>>
            BY <2>1 DEF Switch, Deliver, Lose, fetchVars
        <3>. QED BY <1>1, <3>1
    <2>2. CASE \E f \in Fetchers : Fetch(f)
        BY <1>0, <1>2, <1>3, <1>4, <1>5, <2>2 DEF Fetch, BeliefInv
    <2>. QED BY <1>6, <2>1, <2>2 DEF Next
<1>7. CASE UNCHANGED vars
    BY <1>1, <1>7 DEF vars, fetchVars
<1>. QED BY <1>6, <1>7

\* Until a request first refreshes a device while it is being polled, the
\* consumers of its turned_on and turned_off events have the right idea of
\* latest_state, for any number of switches and failures (routes.py:246-259).
THEOREM EventsFollowState == Spec => []BeliefMatches
<1>1. Init => BeliefInv
    BY TypeInit DEF Init, BeliefInv, PrevIsStored, BeliefMatches
<1>2. BeliefInv => BeliefMatches
    BY DEF BeliefInv
<1>. QED BY <1>1, <1>2, BeliefStep, PTL DEF Spec

\* A fetch in progress began at a version the device has seen, and what it
\* carries is no older.
Fresh ==
    \A f \in Fetchers :
        /\ fpc[f] # "idle" => since[f] <= physical
        /\ fpc[f] = "disconnecting" => since[f] <= got[f]

FreshInv == TypeOK /\ Carries /\ Fresh

LEMMA FreshStep == FreshInv /\ [Next]_vars => FreshInv'
<1>. SUFFICES ASSUME FreshInv, [Next]_vars PROVE FreshInv'
    OBVIOUS
<1>. USE BoundsAssumption DEF FreshInv, Version
<1>0. TypeOK' /\ Carries'
    BY TypeStep
<1>1. CASE Switch
    BY <1>0, <1>1 DEF Switch, fetchVars, TypeOK, Fresh
<1>2. ASSUME NEW f \in Fetchers, Begin(f) PROVE Fresh'
    BY <1>2 DEF Begin, TypeOK, Fresh
<1>3. ASSUME NEW f \in Fetchers, Read(f) PROVE Fresh'
    BY <1>3 DEF Read, Sample, TypeOK, Fresh
<1>4. ASSUME NEW f \in Fetchers, Store(f) \/ Fail(f) PROVE Fresh'
    BY <1>4 DEF Store, Fail, TypeOK, Fresh
<1>5. ASSUME \/ UNCHANGED vars
             \/ \E v \in Version, again \in BOOLEAN : Deliver(v, again)
             \/ \E v \in Version : Lose(v)
      PROVE  Fresh'
    <2>1. UNCHANGED <<fpc, since, got, physical>>
        BY <1>5 DEF vars, Deliver, Lose, fetchVars
    <2>. QED BY <2>1 DEF Fresh
<1>. QED BY <1>0, <1>1, <1>2, <1>3, <1>4, <1>5 DEF Next, Fetch

\* A step that ends a fetch with a reading stores that reading.
LEMMA StoresFresh ==
    ASSUME FreshInv, [Next]_vars, NEW f \in Fetchers,
           fpc[f] = "disconnecting", fpc'[f] = "idle"
    PROVE  stored' >= since[f]
<1>1. got[f] \in Nat /\ since[f] \in Nat /\ since[f] <= got[f]
    BY BoundsAssumption DEF FreshInv, Carries, Fresh, TypeOK, Version
<1>2. Store(f)
    <2>1. fpc' # fpc
        OBVIOUS
    <2>2. PICK g \in Fetchers : Fetch(g)
        BY <2>1 DEF Next, Switch, Deliver, Lose, vars, fetchVars
    <2>3. g = f
        BY <2>2 DEF Fetch, Begin, Read, Store, Fail, FreshInv, TypeOK
    <2>. QED BY <2>2, <2>3 DEF Fetch, Begin, Read, Fail
<1>. QED BY <1>1, <1>2 DEF Store

\* What a fetch stores and returns was read after it began, however many
\* fetches overlap (kasa_client.py:625-637).
THEOREM AnswersFresh == Spec => AnswersAreFresh
<1>1. Init => FreshInv
    BY TypeInit DEF Init, FreshInv, Fresh
<1>2. FreshInv /\ [Next]_vars =>
          [\A f \in Fetchers :
              fpc[f] = "disconnecting" /\ fpc'[f] = "idle" => stored' >= since[f]]_vars
    BY StoresFresh
<1>. QED BY <1>1, <1>2, FreshStep, PTL DEF Spec, AnswersAreFresh

----------------------------------------------------------------------------
(* What the convergence of the state rests on *)

\* Nothing is carried, kept or sent that the device has not been.
Seen ==
    /\ \A f \in Fetchers : fpc[f] = "disconnecting" => got[f] <= physical
    /\ stored # None => stored <= physical
    /\ \A v \in telemetry : v <= physical

SeenInv == FreshInv /\ Seen

LEMMA SeenStep == SeenInv /\ [Next]_vars => SeenInv'
<1>. SUFFICES ASSUME SeenInv, [Next]_vars PROVE SeenInv'
    OBVIOUS
<1>. USE BoundsAssumption DEF Version
<1>0. FreshInv' /\ TypeOK /\ Carries
    BY FreshStep DEF SeenInv, FreshInv
<1>1. CASE Switch
  <2>1. physical \in Nat /\ physical' = physical + 1 /\ UNCHANGED <<stored, fpc, got, telemetry>>
      BY <1>0, <1>1 DEF Switch, fetchVars, TypeOK
  <2>2. /\ \A f \in Fetchers : fpc[f] = "disconnecting" => got[f] \in Nat
        /\ stored # None => stored \in Nat
        /\ \A v \in telemetry : v \in Nat
      BY <1>0 DEF TypeOK, Carries
  <2>. QED BY <1>0, <2>1, <2>2 DEF SeenInv, Seen
<1>2. ASSUME NEW f \in Fetchers, Begin(f) \/ Fail(f) PROVE Seen'
    BY <1>0, <1>2 DEF Begin, Fail, SeenInv, Seen, TypeOK
<1>3. ASSUME NEW f \in Fetchers, Read(f) PROVE Seen'
    BY <1>0, <1>3 DEF Read, Sample, SeenInv, Seen, TypeOK
<1>4. ASSUME NEW f \in Fetchers, Store(f) PROVE Seen'
  <2>1. /\ got[f] <= physical /\ physical' = physical /\ stored' = got[f]
        /\ telemetry' \subseteq telemetry \cup {got[f]}
        /\ \A g \in Fetchers : fpc'[g] = "disconnecting" =>
               fpc[g] = "disconnecting" /\ got'[g] = got[g]
      BY <1>0, <1>4 DEF Store, SendTelemetry, SeenInv, Seen, TypeOK
  <2>. QED BY <2>1 DEF SeenInv, Seen
<1>5. ASSUME \/ UNCHANGED vars
             \/ \E v \in Version, again \in BOOLEAN : Deliver(v, again)
             \/ \E v \in Version : Lose(v)
      PROVE  Seen'
  <2>1. UNCHANGED <<stored, fpc, got, physical>> /\ telemetry' \subseteq telemetry
      BY <1>5 DEF vars, Deliver, Lose, fetchVars
  <2>. QED BY <2>1 DEF SeenInv, Seen
<1>. QED BY <1>0, <1>1, <1>2, <1>3, <1>4, <1>5 DEF Next, Fetch, SeenInv

LEMMA SeenInit == Init => SeenInv
    BY TypeInit DEF Init, SeenInv, FreshInv, Fresh, Seen

\* latest_state is what the device is, and no older reading is under way.
Settled ==
    /\ stored = physical
    /\ \A f \in Fetchers : fpc[f] = "disconnecting" => got[f] = physical

\* And so it is for Core.
Told ==
    /\ Settled
    /\ core = physical
    /\ telemetry \subseteq {physical}

\* Until the device is switched again, what is right stays right, and a fetch
\* that began since the last switch sets it right.
SettledStep ==
    physical' = physical =>
        /\ Settled => Settled'
        /\ Told => Told'
        /\ \A f \in Fetchers :
              fpc[f] = "disconnecting" /\ fpc'[f] = "idle" /\ since[f] = physical
                  => stored' = physical

LEMMA SettledKept ==
    ASSUME SeenInv, [Next]_vars, physical' = physical
    PROVE  /\ Settled => Settled'
           /\ Told => Told'
<1>0. TypeOK /\ Carries
    BY DEF SeenInv, FreshInv
<1>1. ASSUME NEW f \in Fetchers, Begin(f) \/ Fail(f)
      PROVE  (Settled => Settled') /\ (Told => Told')
  <2>1. /\ UNCHANGED <<stored, core, telemetry>>
        /\ \A g \in Fetchers : fpc'[g] = "disconnecting" =>
               fpc[g] = "disconnecting" /\ got'[g] = got[g]
      BY <1>0, <1>1 DEF Begin, Fail, TypeOK
  <2>. QED BY <2>1 DEF Settled, Told
<1>2. ASSUME NEW f \in Fetchers, Read(f)
      PROVE  (Settled => Settled') /\ (Told => Told')
  <2>1. /\ UNCHANGED <<stored, core, telemetry>>
        /\ \A g \in Fetchers : fpc'[g] = "disconnecting" =>
               \/ got'[g] = physical
               \/ fpc[g] = "disconnecting" /\ got'[g] = got[g]
      BY <1>0, <1>2 DEF Read, Sample, TypeOK
  <2>. QED BY <2>1 DEF Settled, Told
<1>3. ASSUME NEW f \in Fetchers, Store(f)
      PROVE  (Settled => Settled') /\ (Told => Told')
  <2>1. /\ fpc[f] = "disconnecting" /\ stored' = got[f] /\ core' = core
        /\ telemetry' \subseteq telemetry \cup {got[f]}
        /\ \A g \in Fetchers : fpc'[g] = "disconnecting" =>
               fpc[g] = "disconnecting" /\ got'[g] = got[g]
      BY <1>0, <1>3 DEF Store, SendTelemetry, TypeOK
  <2>. QED BY <2>1 DEF Settled, Told
<1>4. ASSUME NEW v \in Version, NEW again \in BOOLEAN, Deliver(v, again)
      PROVE  (Settled => Settled') /\ (Told => Told')
    BY <1>4 DEF Deliver, fetchVars, Settled, Told
<1>5. CASE UNCHANGED vars \/ Switch \/ \E v \in Version : Lose(v)
  <2>1. UNCHANGED <<stored, fpc, got, core>> /\ telemetry' \subseteq telemetry
      BY <1>5 DEF vars, Switch, Lose, fetchVars
  <2>. QED BY <2>1 DEF Settled, Told
<1>. QED BY <1>1, <1>2, <1>3, <1>4, <1>5 DEF Next, Fetch

\* A reading that was begun after the last switch is the device's state.
LEMMA FetchSettles ==
    ASSUME SeenInv, [Next]_vars, NEW f \in Fetchers, physical' = physical,
           fpc[f] = "disconnecting", fpc'[f] = "idle", since[f] = physical
    PROVE  stored' = physical
<1>1. stored' >= since[f]
    BY StoresFresh DEF SeenInv
<1>2. SeenInv' /\ physical \in Nat
    BY SeenStep, BoundsAssumption DEF SeenInv, FreshInv, TypeOK, Version
<1>3. stored' \in Version
  <2>1. Store(f) => stored' = got[f] /\ got[f] \in Version
      BY DEF Store, SeenInv, FreshInv, Carries
  <2>2. Store(f)
    <3>1. PICK g \in Fetchers : Fetch(g)
        BY DEF Next, Switch, Deliver, Lose, vars, fetchVars
    <3>2. g = f
        BY <3>1 DEF Fetch, Begin, Read, Store, Fail, SeenInv, FreshInv, TypeOK
    <3>. QED BY <3>1, <3>2 DEF Fetch, Begin, Read, Fail
  <2>. QED BY <2>1, <2>2
<1>4. stored' # None /\ stored' \in Nat
    BY <1>3, NoneAssumption DEF Version
<1>. QED BY <1>1, <1>2, <1>4 DEF SeenInv, Seen

\* latest_state and Core, once they have the device's state and no older reading
\* is under way, keep it until the device is switched, however many fetches and
\* deliveries overlap; and every fetch begun after a switch leaves latest_state
\* right (routes.py:202-245).  This is the safety part of StoredConverges and
\* CoreConverges.
THEOREM StateStaysRight == Spec => [][SettledStep]_vars
<1>1. SeenInv /\ [Next]_vars => [SettledStep]_vars
    BY SettledKept, FetchSettles DEF SettledStep
<1>. QED BY <1>1, SeenInit, SeenStep, PTL DEF Spec
============================================================================
