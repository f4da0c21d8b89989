---------------------- MODULE WidgetConnection_proofs ----------------------
(* Proofs about WidgetConnection, for any number of overlapping calls.     *)
EXTENDS WidgetConnection, TLAPS

\* Only a call that is releasing has taken subscriptions.
TakenToRelease == \A c \in Calls : pc[c] # "releasing" => taken[c] = {}

\* A call that has not begun is waiting.
LaterWait == \A c \in Calls : c > sent => pc[c] = "waiting"

\* A subscription belongs to a call that has rebound the widget, and which
\* does not ask for that slot again.
AskedOnce ==
    \A s \in live : /\ pc[s.call] \in {"subscribing", "over"}
                    /\ s.slot \notin todo[s.call]

\* SubscriptionsKnown, element by element.
Known ==
    /\ \A s \in Subscription :
          s \in live <=> s \in subscriptions \/ \E c \in Calls : s \in taken[c]
    /\ \A c \in Calls : taken[c] \cap subscriptions = {}
    /\ \A c, d \in Calls : c # d => taken[c] \cap taken[d] = {}

KnownInv == TypeOK /\ TakenToRelease /\ LaterWait /\ AskedOnce /\ Known

\* Nothing is subscribed before the first bootstrap.
LEMMA KnownInit == Init => KnownInv
<1> SUFFICES ASSUME Init PROVE KnownInv
  OBVIOUS
<1>1. TypeOK
  <2>1. sent \in 0..MaxBootstraps
    BY BootstrapsAssumption DEF Init
  <2>2. /\ scope \in [Calls -> Scope]
        /\ pc \in [Calls -> {"waiting", "readying", "releasing", "subscribing", "over"}]
        /\ taken \in [Calls -> SUBSET Subscription]
        /\ todo \in [Calls -> SUBSET Slots]
    BY DEF Init, Scope
  <2>3. /\ ready \in BOOLEAN /\ overlapped \in BOOLEAN /\ bindingScope \in Scope
        /\ subscriptions \in SUBSET Subscription /\ values \in SUBSET Scope
        /\ live \in SUBSET Subscription /\ missed \in SUBSET Slots
    BY DEF Init, Scope
  <2>4. QED
    BY <2>1, <2>2, <2>3 DEF TypeOK
<1>2. TakenToRelease /\ LaterWait
  BY DEF Init, TakenToRelease, LaterWait
<1>3. AskedOnce
  BY DEF Init, AskedOnce
<1>4. Known
  BY DEF Init, Known
<1>5. QED
  BY <1>1, <1>2, <1>3, <1>4 DEF KnownInv

\* What Rebind keeps of the types.
LEMMA RebindType ==
    ASSUME TypeOK, NEW c \in Calls, NEW s \in Scope, Rebind(c, s)
    PROVE  /\ bindingScope' \in Scope /\ values' \in SUBSET Scope
           /\ missed' \in SUBSET Slots
           /\ todo' \in [Calls -> SUBSET Slots]
           /\ pc' \in [Calls -> {"waiting", "readying", "releasing", "subscribing", "over"}]
<1>1. SlotsOf[s] \in SUBSET Slots
  BY SlotsAssumption
<1>2. QED
  BY <1>1 DEF Rebind, TypeOK

\* A call that enters has nothing live and nothing taken yet.
LEMMA EnterStep ==
    ASSUME KnownInv, NEW c \in Calls, NEW s \in Scope, Enter(c, s),
           pc[c] \in {"waiting", "readying"},
           UNCHANGED live
    PROVE  /\ taken' \in [Calls -> SUBSET Subscription]
           /\ todo' \in [Calls -> SUBSET Slots]
           /\ pc' \in [Calls -> {"waiting", "readying", "releasing", "subscribing", "over"}]
           /\ bindingScope' \in Scope /\ values' \in SUBSET Scope
           /\ missed' \in SUBSET Slots
           /\ subscriptions' \in SUBSET Subscription
           /\ \A d \in Calls \ {c} : pc'[d] = pc[d]
           /\ TakenToRelease' /\ AskedOnce' /\ Known'
<1> USE DEF KnownInv
<1>0. /\ taken[c] = {}
      /\ \A t \in live : t \in Subscription /\ t.call # c
  BY DEF TakenToRelease, AskedOnce, TypeOK
<1>1. CASE AlreadyBound(s) /\ pc' = [pc EXCEPT ![c] = "over"]
           /\ UNCHANGED <<taken, todo, bindingScope, subscriptions, values, missed>>
  BY <1>0, <1>1 DEF TypeOK, TakenToRelease, AskedOnce, Known, Subscription
<1>2. CASE /\ pc' = [pc EXCEPT ![c] = "releasing"]
           /\ taken' = [taken EXCEPT ![c] = subscriptions]
           /\ subscriptions' = {}
           /\ UNCHANGED <<todo, bindingScope, values, missed>>
  <2>1. TakenToRelease' /\ AskedOnce'
    BY <1>0, <1>2 DEF TypeOK, TakenToRelease, AskedOnce, Subscription
  <2>2. Known'
    BY <1>0, <1>2 DEF TypeOK, Known
  <2>3. QED
    BY <1>2, <2>1, <2>2 DEF TypeOK
<1>3. CASE Rebind(c, s) /\ UNCHANGED <<taken, subscriptions>>
  <2>1. TakenToRelease' /\ AskedOnce' /\ Known'
    BY <1>0, <1>3 DEF TypeOK, Rebind, TakenToRelease, AskedOnce, Known, Subscription
  <2>2. QED
    BY <1>3, <2>1, RebindType DEF TypeOK, Rebind
<1>4. QED
  BY <1>1, <1>2, <1>3 DEF Enter

\* The first step of a call.
LEMMA BootstrapStep == ASSUME KnownInv, NEW s \in Scope, Bootstrap(s) PROVE KnownInv'
<1> DEFINE c == sent + 1
<1>1. c \in Calls /\ pc[c] = "waiting"
  BY BootstrapsAssumption DEF KnownInv, LaterWait, TypeOK, Calls, Bootstrap
<1>2. /\ sent' \in 0..MaxBootstraps
      /\ scope' \in [Calls -> Scope]
      /\ overlapped' \in BOOLEAN
  BY <1>1, BootstrapsAssumption DEF KnownInv, TypeOK, Bootstrap
<1>3. CASE ready /\ Enter(c, s)
  <2>1. UNCHANGED <<live, ready>> /\ sent' = c
    BY DEF Bootstrap
  <2>2. TypeOK' /\ TakenToRelease' /\ AskedOnce' /\ Known'
    BY <1>1, <1>2, <1>3, <2>1, EnterStep DEF KnownInv, TypeOK
  <2>3. \A d \in Calls \ {c} : pc'[d] = pc[d]
    BY <1>1, <1>3, <2>1, EnterStep
  <2>4. LaterWait'
    BY <1>1, <2>1, <2>3 DEF KnownInv, LaterWait, TypeOK, Calls
  <2>5. QED
    BY <2>2, <2>4 DEF KnownInv
<1>4. CASE /\ pc' = [pc EXCEPT ![c] = "readying"]
           /\ UNCHANGED <<taken, todo, bindingScope, subscriptions, values, missed>>
  <2>1. UNCHANGED <<live, ready>> /\ sent' = c
    BY DEF Bootstrap
  <2>2. TypeOK'
    BY <1>1, <1>2, <1>4, <2>1 DEF KnownInv, TypeOK
  <2>3. TakenToRelease' /\ AskedOnce' /\ Known'
    BY <1>1, <1>4, <2>1 DEF KnownInv, TypeOK, TakenToRelease, AskedOnce, Known, Subscription
  <2>4. LaterWait'
    BY <1>1, <1>4, <2>1 DEF KnownInv, LaterWait, TypeOK, Calls
  <2>5. QED
    BY <2>2, <2>3, <2>4 DEF KnownInv
<1>5. QED
  BY <1>3, <1>4 DEF Bootstrap

\* A call that waited for the host's readiness goes on.
LEMMA ReadyStep == ASSUME KnownInv, NEW c \in Calls, Ready(c) PROVE KnownInv'
<1>1. /\ Enter(c, scope[c]) /\ scope[c] \in Scope /\ pc[c] = "readying"
      /\ UNCHANGED <<sent, scope, overlapped, live>> /\ ready' = TRUE
  BY DEF Ready, KnownInv, TypeOK, callVars
<1>2. TypeOK' /\ TakenToRelease' /\ AskedOnce' /\ Known'
  BY <1>1, EnterStep DEF KnownInv, TypeOK
<1>3. \A d \in Calls \ {c} : pc'[d] = pc[d]
  BY <1>1, EnterStep
<1>4. LaterWait'
  BY <1>1, <1>3 DEF KnownInv, LaterWait
<1>5. QED
  BY <1>2, <1>4 DEF KnownInv

\* A subscription that is ended is in no other place.
LEMMA ReleaseStep ==
    ASSUME KnownInv, NEW c \in Calls, NEW old \in Subscription, Release(c, old)
    PROVE  KnownInv'
<1>1. /\ pc[c] = "releasing" /\ old \in taken[c]
      /\ live' = live \ {old}
      /\ taken' = [taken EXCEPT ![c] = @ \ {old}]
      /\ UNCHANGED <<sent, scope, overlapped, ready, subscriptions>>
  BY DEF Release, callVars
<1>2. Known'
  BY <1>1 DEF KnownInv, Known, TypeOK
<1>3. \A t \in live : t \in Subscription /\ t.call # c
  BY <1>1 DEF KnownInv, AskedOnce, TypeOK
<1>4. taken' \in [Calls -> SUBSET Subscription] /\ live' \in SUBSET Subscription
  BY <1>1 DEF KnownInv, TypeOK
<1>5. CASE taken[c] = {old} /\ Rebind(c, scope[c])
  <2>1. scope[c] \in Scope
    BY DEF KnownInv, TypeOK
  <2>2. TypeOK'
    BY <1>1, <1>4, <1>5, <2>1, RebindType DEF KnownInv, TypeOK
  <2>3. TakenToRelease' /\ AskedOnce' /\ LaterWait'
    BY <1>1, <1>3, <1>5
    DEF KnownInv, TypeOK, Rebind, TakenToRelease, AskedOnce, LaterWait, Subscription
  <2>4. QED
    BY <1>2, <2>2, <2>3 DEF KnownInv
<1>6. CASE UNCHANGED <<pc, todo, bindingScope, values, missed>>
  <2>1. TypeOK'
    BY <1>1, <1>4, <1>6 DEF KnownInv, TypeOK
  <2>2. TakenToRelease' /\ AskedOnce' /\ LaterWait'
    BY <1>1, <1>6 DEF KnownInv, TypeOK, TakenToRelease, AskedOnce, LaterWait
  <2>3. QED
    BY <1>2, <2>1, <2>2 DEF KnownInv
<1>7. QED
  BY <1>5, <1>6 DEF Release

\* A new subscription is not one that is known already.
LEMMA SubscribeStep ==
    ASSUME KnownInv, NEW c \in Calls, NEW slot \in Slots, Subscribe(c, slot)
    PROVE  KnownInv'
<1> DEFINE new == [call |-> c, slot |-> slot]
<1>1. /\ pc[c] = "subscribing" /\ slot \in todo[c]
      /\ todo' = [todo EXCEPT ![c] = @ \ {slot}]
      /\ pc' = [pc EXCEPT ![c] = IF todo[c] = {slot} THEN "over" ELSE "subscribing"]
      /\ UNCHANGED <<sent, scope, overlapped, taken, ready, bindingScope, values>>
  BY DEF Subscribe, callVars
<1>2. new \in Subscription /\ new \notin live
  BY <1>1 DEF KnownInv, AskedOnce, Subscription
<1>3. TakenToRelease' /\ LaterWait'
  BY <1>1 DEF KnownInv, TypeOK, TakenToRelease, LaterWait
<1>4. CASE /\ live' = live \cup {new}
           /\ subscriptions' = subscriptions \cup {new}
           /\ UNCHANGED missed
  <2>1. TypeOK'
    BY <1>1, <1>2, <1>4 DEF KnownInv, TypeOK
  <2>2. AskedOnce'
    BY <1>1, <1>4 DEF KnownInv, TypeOK, AskedOnce, Subscription
  <2>3. Known'
    BY <1>1, <1>2, <1>4 DEF KnownInv, TypeOK, Known
  <2>4. QED
    BY <1>3, <2>1, <2>2, <2>3 DEF KnownInv
<1>5. CASE missed' = missed \cup {slot} /\ UNCHANGED <<live, subscriptions>>
  <2>1. TypeOK'
    BY <1>1, <1>5 DEF KnownInv, TypeOK
  <2>2. AskedOnce' /\ Known'
    BY <1>1, <1>5 DEF KnownInv, TypeOK, AskedOnce, Known, Subscription
  <2>3. QED
    BY <1>3, <2>1, <2>2 DEF KnownInv
<1>6. QED
  BY <1>4, <1>5 DEF Subscribe

\* A rejected readiness and an event touch no subscription.
LEMMA OtherStep ==
    ASSUME KnownInv,
           \/ \E c \in Calls : NotReady(c)
           \/ \E old \in Subscription : Event(old)
           \/ UNCHANGED vars
    PROVE  KnownInv'
<1>1. CASE \E c \in Calls : NotReady(c)
  <2>1. PICK c \in Calls : NotReady(c)
    BY <1>1
  <2>2. QED
    BY <2>1 DEF NotReady, callVars, KnownInv, TypeOK, TakenToRelease, LaterWait,
                AskedOnce, Known, Subscription
<1>2. CASE \E old \in Subscription : Event(old)
  <2>1. PICK old \in Subscription : Event(old)
    BY <1>2
  <2>2. scope[old.call] \in Scope
    BY DEF KnownInv, TypeOK, Subscription
  <2>3. QED
    BY <2>1, <2>2 DEF Event, Updated, callVars, KnownInv, TypeOK, TakenToRelease,
                LaterWait, AskedOnce, Known
<1>3. CASE UNCHANGED vars
  BY <1>3 DEF vars, callVars, KnownInv, TypeOK, TakenToRelease, LaterWait, AskedOnce, Known
<1>4. QED
  BY <1>1, <1>2, <1>3

LEMMA KnownStep == KnownInv /\ [Next]_vars => KnownInv'
<1> SUFFICES ASSUME KnownInv, [Next]_vars PROVE KnownInv'
  OBVIOUS
<1>1. CASE \E s \in Scope : Bootstrap(s)
  BY <1>1, BootstrapStep
<1>2. ASSUME NEW c \in Calls, Proceed(c) PROVE KnownInv'
  BY <1>2, ReadyStep, ReleaseStep, SubscribeStep, OtherStep DEF Proceed
<1>3. CASE (\E old \in Subscription : Event(old)) \/ UNCHANGED vars
  BY <1>3, OtherStep
<1>4. QED
  BY <1>1, <1>2, <1>3 DEF Next

\* The calls, the subscriptions and the readings keep their types.
THEOREM TypeCorrect == Spec => []TypeOK
<1>1. KnownInv => TypeOK
  BY DEF KnownInv
<1>2. QED
  BY <1>1, KnownInit, KnownStep, PTL DEF Spec

\* However many bootstraps overlap, the widget knows every subscription the
\* host serves, and no subscription is ended twice (kasa-widget.mjs:245-247,
\* 272).
THEOREM NothingLeaks == Spec => []SubscriptionsKnown
<1>1. KnownInv => SubscriptionsKnown
  BY DEF KnownInv, Known, SubscriptionsKnown, TypeOK
<1>2. QED
  BY <1>1, KnownInit, KnownStep, PTL DEF Spec

----------------------------------------------------------------------------
(* Bootstraps that do not overlap *)

\* Only a call that is subscribing has slots to ask for.
TodoToSubscribe == \A c \in Calls : pc[c] # "subscribing" => todo[c] = {}

\* The call in progress, if any, is the last one, and has brought the widget
\* as far as it says; between calls the widget is bound to the last bootstrap.
Alone ==
    /\ \A c \in InProgress : c = sent
    /\ \A c \in Calls :
          /\ pc[c] = "readying" => ~ready
          /\ pc[c] = "releasing" => ready /\ subscriptions = {}
          /\ pc[c] = "subscribing" => bindingScope = scope[c]
    /\ ready /\ InProgress = {} => sent \in Calls /\ bindingScope = scope[sent]

\* All subscriptions and readings are those of the scope the widget is bound
\* to, with one subscription per slot.
OneScope ==
    /\ \A s \in live : scope[s.call] = bindingScope
    /\ values \subseteq {bindingScope}
    /\ \A s, t \in live : s.slot = t.slot => s = t

\* What is still to ask for is a slot of the scope, neither subscribed nor
\* refused.
TodoOfScope ==
    \A c \in Calls : todo[c] \subseteq SlotsOf[bindingScope] \ missed

\* Unless the old subscriptions are being ended, every slot of the scope is
\* subscribed, refused or still to be asked for.
SlotsCovered ==
    (\A c \in Calls : pc[c] # "releasing") =>
        \A x \in Slots :
            (\E s \in live : s.slot = x) <=>
                /\ x \in SlotsOf[bindingScope] \ missed
                /\ \A c \in Calls : x \notin todo[c]

InTurn == Alone /\ OneScope /\ TodoOfScope /\ SlotsCovered

TurnInv == KnownInv /\ TodoToSubscribe /\ (~overlapped => InTurn)

LEMMA TurnInit == Init => TurnInv
<1> SUFFICES ASSUME Init PROVE TurnInv
  OBVIOUS
<1>1. TodoToSubscribe
  BY DEF Init, TodoToSubscribe
<1>2. Alone /\ OneScope
  BY DEF Init, Alone, OneScope, InProgress
<1>3. TodoOfScope /\ SlotsCovered
  BY SlotsAssumption DEF Init, TodoOfScope, SlotsCovered
<1>4. QED
  BY <1>1, <1>2, <1>3, KnownInit DEF TurnInv, InTurn

\* The widget is reset to the scope of call c, which is the only one: nothing
\* is subscribed, and all slots are to be asked for.
LEMMA RebindTurn ==
    ASSUME KnownInv, KnownInv', TodoToSubscribe, NEW c \in Calls, Rebind(c, scope'[c]),
           c = sent', live' = {}, scope'[c] \in Scope, ready',
           \A d \in Calls \ {c} : pc[d] \in {"waiting", "over"}
    PROVE  TodoToSubscribe' /\ InTurn'
<1>1. /\ bindingScope' = scope'[c] /\ values' = {} /\ missed' = {}
      /\ todo'[c] = SlotsOf[scope'[c]]
      /\ pc'[c] = IF SlotsOf[scope'[c]] = {} THEN "over" ELSE "subscribing"
      /\ \A d \in Calls \ {c} : pc'[d] = pc[d] /\ todo'[d] = {}
  BY DEF Rebind, KnownInv, TypeOK, TodoToSubscribe
<1>2. TodoToSubscribe'
  BY <1>1 DEF TodoToSubscribe
<1>3. \A d \in Calls : pc'[d] \notin {"readying", "releasing"}
  BY <1>1
<1>4. Alone'
  BY <1>1, <1>3 DEF Alone, InProgress
<1>5. OneScope'
  BY <1>1 DEF OneScope
<1>6. TodoOfScope' /\ SlotsCovered'
  BY <1>1, SlotsAssumption DEF TodoOfScope, SlotsCovered
<1>7. QED
  BY <1>2, <1>4, <1>5, <1>6 DEF InTurn

\* A call enters while no other is in progress.
LEMMA EnterTurn ==
    ASSUME TurnInv, KnownInv', NEW c \in Calls, Enter(c, scope'[c]),
           InTurn, ready', UNCHANGED live,
           c = sent', scope'[c] \in Scope,
           \A d \in Calls \ {c} : scope'[d] = scope[d],
           pc[c] \in {"waiting", "readying"},
           \A d \in Calls \ {c} : pc[d] \in {"waiting", "over"}
    PROVE  TodoToSubscribe' /\ InTurn'
<1> USE DEF TurnInv
<1>1. /\ \A d \in Calls : todo[d] = {} /\ taken[d] = {}
      /\ \A s \in live : s \in Subscription /\ s.call \in Calls \ {c}
      /\ live = subscriptions
  <2>1. \A d \in Calls : todo[d] = {} /\ taken[d] = {}
    BY DEF TodoToSubscribe, KnownInv, TakenToRelease
  <2>2. \A s \in live : s \in Subscription /\ s.call \in Calls \ {c}
    BY DEF KnownInv, AskedOnce, TypeOK, Subscription
  <2>3. live = subscriptions
    BY <2>1, <2>2 DEF KnownInv, Known, TypeOK
  <2>4. QED
    BY <2>1, <2>2, <2>3
<1>2. CASE /\ AlreadyBound(scope'[c])
           /\ pc' = [pc EXCEPT ![c] = "over"]
           /\ UNCHANGED <<taken, todo, bindingScope, subscriptions, values, missed>>
  <2>1. bindingScope' = scope'[c] /\ \A d \in Calls : pc'[d] \in {"waiting", "over"}
    BY <1>2 DEF AlreadyBound, KnownInv, TypeOK
  <2>2. TodoToSubscribe'
    BY <1>1, <1>2 DEF TodoToSubscribe
  <2>3. Alone'
    BY <2>1 DEF Alone, InProgress
  <2>4. OneScope'
    BY <1>1, <1>2 DEF InTurn, OneScope
  <2>5. TodoOfScope' /\ SlotsCovered'
    BY <1>1, <1>2, <2>1 DEF InTurn, TodoOfScope, SlotsCovered
  <2>6. QED
    BY <2>2, <2>3, <2>4, <2>5 DEF InTurn
<1>3. CASE /\ pc' = [pc EXCEPT ![c] = "releasing"]
           /\ subscriptions' = {}
           /\ UNCHANGED <<todo, bindingScope, values, missed>>
  <2>1. pc'[c] = "releasing" /\ \A d \in Calls \ {c} : pc'[d] \in {"waiting", "over"}
    BY <1>3 DEF KnownInv, TypeOK
  <2>2. TodoToSubscribe' /\ TodoOfScope' /\ SlotsCovered'
    BY <1>1, <1>3, <2>1 DEF InTurn, TodoToSubscribe, TodoOfScope, SlotsCovered
  <2>3. Alone'
    BY <1>3, <2>1 DEF Alone, InProgress
  <2>4. OneScope'
    BY <1>1, <1>3 DEF InTurn, OneScope
  <2>5. QED
    BY <2>2, <2>3, <2>4 DEF InTurn
<1>4. CASE subscriptions = {} /\ Rebind(c, scope'[c])
  BY <1>1, <1>4, RebindTurn
<1>5. QED
  BY <1>2, <1>3, <1>4 DEF Enter

\* A bootstrap finds no call in progress, or calls overlap from now on.
LEMMA BootstrapTurn ==
    ASSUME TurnInv, NEW s \in Scope, Bootstrap(s) PROVE TurnInv'
<1> DEFINE c == sent + 1
<1>1. KnownInv'
  BY BootstrapStep DEF TurnInv
<1>2. /\ c \in Calls /\ pc[c] = "waiting"
      /\ sent' = c /\ scope'[c] = s /\ \A d \in Calls \ {c} : scope'[d] = scope[d]
  BY BootstrapsAssumption DEF TurnInv, KnownInv, LaterWait, TypeOK, Calls, Bootstrap
<1>3. UNCHANGED <<ready, live>> /\ (overlapped' <=> overlapped \/ InProgress # {})
  BY DEF Bootstrap
<1>4. CASE InProgress # {} \/ overlapped
  <2>1. overlapped'
    BY <1>3, <1>4
  <2>2. TodoToSubscribe'
    BY <1>2 DEF Bootstrap, Enter, Rebind, TurnInv, KnownInv, TypeOK, TodoToSubscribe
  <2>3. QED
    BY <1>1, <2>1, <2>2 DEF TurnInv
<1>5. CASE InProgress = {} /\ ~overlapped
  <2>1. InTurn /\ \A d \in Calls : pc[d] \in {"waiting", "over"}
    BY <1>5 DEF TurnInv, InProgress
  <2>2. CASE ready /\ Enter(c, s)
    BY <1>1, <1>2, <1>3, <2>1, <2>2, EnterTurn DEF TurnInv
  <2>3. CASE /\ ~ready
             /\ pc' = [pc EXCEPT ![c] = "readying"]
             /\ UNCHANGED <<taken, todo, bindingScope, subscriptions, values, missed>>
    <3>1. pc'[c] = "readying" /\ \A d \in Calls \ {c} : pc'[d] \in {"waiting", "over"}
      BY <1>2, <2>1, <2>3 DEF TurnInv, KnownInv, TypeOK
    <3>2. \A t \in live : t.call \in Calls \ {c}
      BY <1>2 DEF TurnInv, KnownInv, AskedOnce, TypeOK, Subscription
    <3>3. TodoToSubscribe' /\ TodoOfScope'
      BY <2>1, <2>3, <3>1 DEF TurnInv, InTurn, TodoToSubscribe, TodoOfScope
    <3>4. SlotsCovered'
      BY <1>3, <2>1, <2>3, <3>1 DEF InTurn, SlotsCovered
    <3>5. Alone'
      BY <1>2, <1>3, <2>3, <3>1 DEF Alone, InProgress
    <3>6. OneScope'
      BY <1>2, <1>3, <2>1, <2>3, <3>2 DEF InTurn, OneScope
    <3>7. QED
      BY <1>1, <3>3, <3>4, <3>5, <3>6 DEF TurnInv, InTurn
  <2>4. QED
    BY <2>2, <2>3 DEF Bootstrap
<1>6. QED
  BY <1>4, <1>5

\* The call that waited for the host goes on, alone.
LEMMA ReadyTurn == ASSUME TurnInv, NEW c \in Calls, Ready(c) PROVE TurnInv'
<1>1. KnownInv'
  BY ReadyStep DEF TurnInv
<1>2. /\ Enter(c, scope'[c]) /\ scope'[c] \in Scope /\ pc[c] = "readying"
      /\ UNCHANGED <<sent, scope, overlapped, live>> /\ ready'
  BY DEF Ready, TurnInv, KnownInv, TypeOK, callVars
<1>3. CASE overlapped
  <2>1. TodoToSubscribe'
    BY <1>2 DEF Enter, Rebind, TurnInv, KnownInv, TypeOK, TodoToSubscribe
  <2>2. QED
    BY <1>1, <1>2, <1>3, <2>1 DEF TurnInv
<1>4. CASE ~overlapped
  <2>1. InTurn /\ c = sent' /\ \A d \in Calls \ {c} : pc[d] \in {"waiting", "over"}
    BY <1>2, <1>4 DEF TurnInv, InTurn, Alone, InProgress
  <2>2. QED
    BY <1>1, <1>2, <2>1, EnterTurn DEF TurnInv
<1>5. QED
  BY <1>3, <1>4

\* When the last old subscription ends, nothing is subscribed.
LEMMA ReleaseTurn ==
    ASSUME TurnInv, NEW c \in Calls, NEW old \in Subscription, Release(c, old)
    PROVE  TurnInv'
<1>1. KnownInv'
  BY ReleaseStep DEF TurnInv
<1>2. /\ pc[c] = "releasing" /\ old \in taken[c] /\ live' = live \ {old}
      /\ UNCHANGED <<sent, scope, overlapped, ready, subscriptions>>
  BY DEF Release, callVars
<1>3. CASE overlapped
  <2>1. TodoToSubscribe'
    BY <1>2 DEF Release, Rebind, TurnInv, KnownInv, TypeOK, TodoToSubscribe
  <2>2. QED
    BY <1>1, <1>2, <1>3, <2>1 DEF TurnInv
<1>4. CASE ~overlapped
  <2>1. /\ InTurn /\ c = sent' /\ \A d \in Calls \ {c} : pc[d] \in {"waiting", "over"}
        /\ ready /\ subscriptions = {}
    BY <1>2, <1>4 DEF TurnInv, InTurn, Alone, InProgress
  <2>2. CASE taken[c] = {old} /\ Rebind(c, scope[c])
    <3>1. live' = {}
      <4>1. \A d \in Calls \ {c} : taken[d] = {}
        BY <2>1 DEF TurnInv, KnownInv, TakenToRelease
      <4>2. QED
        BY <1>2, <2>1, <2>2, <4>1 DEF TurnInv, KnownInv, Known, TypeOK
    <3>2. scope[c] \in Scope
      BY DEF TurnInv, KnownInv, TypeOK
    <3>3. QED
      BY <1>1, <1>2, <2>1, <2>2, <3>1, <3>2, RebindTurn DEF TurnInv
  <2>3. CASE UNCHANGED <<pc, todo, bindingScope, values, missed>>
    <3>1. TodoToSubscribe' /\ TodoOfScope' /\ SlotsCovered'
      BY <1>2, <2>1, <2>3 DEF TurnInv, InTurn, TodoToSubscribe, TodoOfScope, SlotsCovered
    <3>2. Alone' /\ OneScope'
      BY <1>2, <2>1, <2>3 DEF InTurn, Alone, OneScope, InProgress
    <3>3. QED
      BY <1>1, <3>1, <3>2 DEF TurnInv, InTurn
  <2>4. QED
    BY <2>2, <2>3 DEF Release
<1>5. QED
  BY <1>3, <1>4

\* A slot that is asked for is not subscribed yet, and is subscribed or
\* refused then.
LEMMA SubscribeTurn ==
    ASSUME TurnInv, NEW c \in Calls, NEW slot \in Slots, Subscribe(c, slot)
    PROVE  TurnInv'
<1> DEFINE new == [call |-> c, slot |-> slot]
<1>1. KnownInv'
  BY SubscribeStep DEF TurnInv
<1>2. /\ pc[c] = "subscribing" /\ slot \in todo[c]
      /\ todo' = [todo EXCEPT ![c] = @ \ {slot}]
      /\ pc' = [pc EXCEPT ![c] = IF todo[c] = {slot} THEN "over" ELSE "subscribing"]
      /\ UNCHANGED <<sent, scope, overlapped, taken, ready, bindingScope, values>>
  BY DEF Subscribe, callVars
<1>3. TodoToSubscribe'
  BY <1>2 DEF TurnInv, KnownInv, TypeOK, TodoToSubscribe
<1>4. ASSUME ~overlapped PROVE InTurn'
  <2>1. /\ InTurn /\ c = sent /\ \A d \in Calls \ {c} : pc[d] \in {"waiting", "over"}
        /\ bindingScope = scope[c]
    BY <1>2, <1>4 DEF TurnInv, InTurn, Alone, InProgress
  <2>2. /\ \A d \in Calls \ {c} : pc'[d] = pc[d] /\ todo'[d] = {}
        /\ pc'[c] \in {"over", "subscribing"} /\ todo'[c] = todo[c] \ {slot}
    BY <1>2, <2>1 DEF TurnInv, KnownInv, TypeOK, TodoToSubscribe
  <2>3. Alone'
    BY <1>2, <2>1, <2>2 DEF Alone, InProgress
  <2>4. \A x \in Slots :
            (\E s \in live : s.slot = x) <=>
                x \in SlotsOf[bindingScope] \ missed /\ x \notin todo[c]
    <3>1. \A d \in Calls : pc[d] # "releasing" /\ (d # c => todo[d] = {})
      BY <1>2, <2>1 DEF TurnInv, TodoToSubscribe
    <3>2. SlotsCovered
      BY <2>1 DEF InTurn
    <3>3. QED
      BY <3>1, <3>2 DEF SlotsCovered
  <2>5. slot \in SlotsOf[bindingScope] \ missed /\ \A s \in live : s.slot # slot
    BY <1>2, <2>1, <2>4 DEF InTurn, TodoOfScope
  <2>6. todo[c] \subseteq SlotsOf[bindingScope] \ missed
    BY <2>1 DEF InTurn, TodoOfScope
  <2>7. CASE live' = live \cup {new} /\ UNCHANGED missed
    <3>1. OneScope'
      BY <1>2, <2>1, <2>5, <2>7 DEF InTurn, OneScope
    <3>2. TodoOfScope'
      BY <1>2, <2>2, <2>6, <2>7 DEF TodoOfScope
    <3>3. \A x \in Slots :
              (\E s \in live' : s.slot = x) <=> x = slot \/ \E s \in live : s.slot = x
      <4>1. new.slot = slot /\ new \in live' /\ live \subseteq live'
        BY <2>7
      <4>2. \A s \in live' : s \in live \/ s.slot = slot
        BY <2>7, <4>1
      <4>3. QED
        BY <4>1, <4>2, Zenon
    <3>4. SlotsCovered'
      BY <1>2, <2>2, <2>4, <2>5, <2>7, <3>3 DEF SlotsCovered
    <3>5. QED
      BY <2>3, <3>1, <3>2, <3>4 DEF InTurn
  <2>8. CASE missed' = missed \cup {slot} /\ UNCHANGED live
    <3>1. OneScope'
      BY <1>2, <2>1, <2>8 DEF InTurn, OneScope
    <3>2. TodoOfScope'
      BY <1>2, <2>2, <2>6, <2>8 DEF TodoOfScope
    <3>3. SlotsCovered'
      BY <1>2, <2>2, <2>4, <2>5, <2>8 DEF SlotsCovered
    <3>4. QED
      BY <2>3, <3>1, <3>2, <3>3 DEF InTurn
  <2>9. QED
    BY <2>7, <2>8 DEF Subscribe
<1>5. QED
  BY <1>1, <1>2, <1>3, <1>4 DEF TurnInv

\* A rejected readiness leaves the widget not ready; an event is one of the
\* scope.
LEMMA OtherTurn ==
    ASSUME TurnInv,
           \/ \E c \in Calls : NotReady(c)
           \/ \E old \in Subscription : Event(old)
           \/ UNCHANGED vars
    PROVE  TurnInv'
<1>1. KnownInv'
  BY OtherStep DEF TurnInv
<1>2. CASE \E c \in Calls : NotReady(c)
  <2>1. PICK c \in Calls : NotReady(c)
    BY <1>2
  <2>2. /\ pc[c] = "readying" /\ pc' = [pc EXCEPT ![c] = "over"]
        /\ UNCHANGED <<sent, scope, overlapped, todo, ready, bindingScope, subscriptions,
                       values, live, missed>>
    BY <2>1 DEF NotReady, callVars
  <2>3. TodoToSubscribe'
    BY <2>2 DEF TurnInv, KnownInv, TypeOK, TodoToSubscribe
  <2>4. ASSUME ~overlapped PROVE InTurn'
    <3>1. InTurn /\ ~ready /\ \A d \in Calls \ {c} : pc[d] \in {"waiting", "over"}
      BY <2>2, <2>4 DEF TurnInv, InTurn, Alone, InProgress
    <3>2. \A d \in Calls : pc'[d] \in {"waiting", "over"}
      BY <2>2, <3>1 DEF TurnInv, KnownInv, TypeOK
    <3>3. Alone' /\ OneScope' /\ TodoOfScope'
      BY <2>2, <3>1, <3>2 DEF InTurn, Alone, InProgress, OneScope, TodoOfScope
    <3>4. SlotsCovered'
      BY <2>2, <3>1 DEF InTurn, SlotsCovered
    <3>5. QED
      BY <3>3, <3>4 DEF InTurn
  <2>5. QED
    BY <1>1, <2>2, <2>3, <2>4 DEF TurnInv
<1>3. CASE (\E old \in Subscription : Event(old)) \/ UNCHANGED vars
  <2>1. /\ UNCHANGED <<sent, scope, overlapped, pc, todo, ready, bindingScope,
                       subscriptions, live, missed>>
        /\ \/ UNCHANGED values
           \/ \E old \in live : values' = values \cup {scope[old.call]}
    BY <1>3 DEF Event, Updated, vars, callVars
  <2>2. TodoToSubscribe'
    BY <2>1 DEF TurnInv, TodoToSubscribe
  <2>3. InTurn => InTurn'
    <3>1. Alone => Alone'
      BY <2>1 DEF Alone, InProgress
    <3>2. OneScope => OneScope'
      BY <2>1 DEF OneScope
    <3>3. TodoOfScope /\ SlotsCovered => TodoOfScope' /\ SlotsCovered'
      BY <2>1 DEF TodoOfScope, SlotsCovered
    <3>4. QED
      BY <3>1, <3>2, <3>3 DEF InTurn
  <2>4. QED
    BY <1>1, <2>1, <2>2, <2>3 DEF TurnInv
<1>4. QED
  BY <1>2, <1>3

LEMMA TurnStep == TurnInv /\ [Next]_vars => TurnInv'
<1> SUFFICES ASSUME TurnInv, [Next]_vars PROVE TurnInv'
  OBVIOUS
<1>1. CASE \E s \in Scope : Bootstrap(s)
  BY <1>1, BootstrapTurn
<1>2. ASSUME NEW c \in Calls, Proceed(c) PROVE TurnInv'
  BY <1>2, ReadyTurn, ReleaseTurn, SubscribeTurn, OtherTurn DEF Proceed
<1>3. CASE (\E old \in Subscription : Event(old)) \/ UNCHANGED vars
  BY <1>3, OtherTurn
<1>4. QED
  BY <1>1, <1>2, <1>3 DEF Next

\* As long as bootstraps do not overlap, a widget at rest is bound to the last
\* one, with one subscription for each slot that was not refused, for any
\* number of bootstraps, scopes and slots (kasa-widget.mjs:240-278).
THEOREM LastOneIsBound == Spec => []LatestIsBound
<1>1. TurnInv => LatestIsBound
  <2> SUFFICES ASSUME TurnInv, ~overlapped, InProgress = {}, ready
               PROVE  /\ bindingScope = scope[sent]
                      /\ {s.slot : s \in live} = SlotsOf[bindingScope] \ missed
                      /\ \A s, t \in live : s.slot = t.slot => s = t
    BY DEF LatestIsBound
  <2>1. InTurn /\ \A c \in Calls : pc[c] \in {"waiting", "over"}
    BY DEF TurnInv, InProgress
  <2>2. \A c \in Calls : todo[c] = {}
    BY <2>1 DEF TurnInv, TodoToSubscribe
  <2>3. bindingScope \in Scope /\ \A s \in live : s.slot \in Slots
    BY DEF TurnInv, KnownInv, TypeOK, Subscription
  <2>4. {s.slot : s \in live} = SlotsOf[bindingScope] \ missed
    BY <2>1, <2>2, <2>3, SlotsAssumption DEF InTurn, SlotsCovered
  <2>5. QED
    BY <2>1, <2>4 DEF InTurn, Alone, OneScope
<1>2. QED
  BY <1>1, TurnInit, TurnStep, PTL DEF Spec

\* As long as bootstraps do not overlap, no reading of a former scope is shown
\* (kasa-widget.mjs:245-254).
THEOREM OwnValues == Spec => []ValuesFromScope
<1>1. TurnInv => ValuesFromScope
  BY DEF TurnInv, InTurn, OneScope, ValuesFromScope
<1>2. QED
  BY <1>1, TurnInit, TurnStep, PTL DEF Spec
=============================================================================
