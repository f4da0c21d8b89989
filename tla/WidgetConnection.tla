-------------------------- MODULE WidgetConnection --------------------------
(* connect of the dashboard widget, assets/kasa-widget.mjs: every          *)
(* bootstrap the host sends starts one call, which awaits the host's       *)
(* readiness, the end of the old subscriptions and each new one.  Nothing  *)
(* keeps a second call from starting in the meantime.  An action is the    *)
(* code between two awaits of a call; the host is external.                *)
(*                                                                         *)
(* A bootstrap is abstracted to its binding scope, a reading to the scope  *)
(* it comes from: what a reading does to the button is in                  *)
(* OptimisticControl, error messages and rendering are left out.           *)
EXTENDS Naturals, FiniteSets

CONSTANTS
    Scopes,         \* binding scopes a bootstrap may have
    Slots,          \* the slots of a widget
    SlotsOf,        \* the slots that are bound in each scope
    MaxBootstraps,  \* bound on the bootstraps, and so on the calls
    None            \* the scope of a bootstrap without bindings: ""

Scope == Scopes \cup {None}
Calls == 1..MaxBootstraps

\* What host.subscribeState returned to a call, for one slot.
Subscription == [call: Calls, slot: Slots]

ASSUME SlotsAssumption == SlotsOf \in [Scope -> SUBSET Slots] /\ SlotsOf[None] = {}
ASSUME BootstrapsAssumption == MaxBootstraps \in Nat
ASSUME ScopesAssumption == None \notin Scopes

VARIABLES
    sent,           \* the bootstraps sent so far: call n handles the n-th
    scope,          \* the binding scope of each call's bootstrap
    pc,             \* where each call is
    taken,          \* the old subscriptions a call has still to end
    todo,           \* the slots a call has still to subscribe
    ready,          \* state.ready
    bindingScope,   \* state.bindingScope
    subscriptions,  \* state.subscriptions
    values,         \* state.values: the scopes its readings came from
    live,           \* the subscriptions the host serves
    missed,         \* history: slots refused since the last rebinding
    overlapped      \* history: two calls have been in progress at once

callVars == <<sent, scope, overlapped>>
vars == <<callVars, pc, taken, todo, ready, bindingScope, subscriptions, values,
          live, missed>>

TypeOK ==
    /\ sent \in 0..MaxBootstraps
    /\ scope \in [Calls -> Scope]
    /\ pc \in [Calls -> {"waiting", "readying", "releasing", "subscribing", "over"}]
    /\ taken \in [Calls -> SUBSET Subscription]
    /\ todo \in [Calls -> SUBSET Slots]
    /\ ready \in BOOLEAN
    /\ bindingScope \in Scope
    /\ subscriptions \in SUBSET Subscription
    /\ values \in SUBSET Scope
    /\ live \in SUBSET Subscription
    /\ missed \in SUBSET Slots
    /\ overlapped \in BOOLEAN

Init ==
    /\ sent = 0
    /\ scope = [c \in Calls |-> None]
    /\ pc = [c \in Calls |-> "waiting"]
    /\ taken = [c \in Calls |-> {}]
    /\ todo = [c \in Calls |-> {}]
    /\ ready = FALSE
    /\ bindingScope = None
    /\ subscriptions = {}
    /\ values = {}
    /\ live = {}
    /\ missed = {}
    /\ overlapped = FALSE

InProgress == {c \in Calls : pc[c] \notin {"waiting", "over"}}

----------------------------------------------------------------------------
(* connect *)

\* Mutant: any subscription will do.
AlreadyBound_Any(s) == subscriptions # {}

\* A bootstrap of the same scope changes nothing while something is
\* subscribed.
AlreadyBound(s) == bindingScope = s /\ subscriptions # {}

\* Mutant: the readings of the old scope are kept.
Rebind_KeepsValues(c, s) ==
    /\ bindingScope' = s
    /\ missed' = {}
    /\ todo' = [todo EXCEPT ![c] = SlotsOf[s]]
    /\ pc' = [pc EXCEPT ![c] = IF SlotsOf[s] = {} THEN "over" ELSE "subscribing"]
    /\ UNCHANGED values

\* The old subscriptions are ended: the widget is reset to the new scope.
Rebind(c, s) ==
    /\ bindingScope' = s
    /\ values' = {}
    /\ missed' = {}
    /\ todo' = [todo EXCEPT ![c] = SlotsOf[s]]
    /\ pc' = [pc EXCEPT ![c] = IF SlotsOf[s] = {} THEN "over" ELSE "subscribing"]

\* Mutant: the old subscriptions are forgotten before they are ended.
Enter_Forgets(c, s) ==
    \/ /\ AlreadyBound(s)
       /\ pc' = [pc EXCEPT ![c] = "over"]
       /\ UNCHANGED <<taken, todo, bindingScope, subscriptions, values, missed>>
    \/ /\ ~AlreadyBound(s)
       /\ subscriptions' = {}
       /\ Rebind(c, s)
       /\ UNCHANGED taken

\* A ready call takes all subscriptions there are, to end them one by one;
\* with none, it goes on to rebind at once.
Enter(c, s) ==
    \/ /\ AlreadyBound(s)
       /\ pc' = [pc EXCEPT ![c] = "over"]
       /\ UNCHANGED <<taken, todo, bindingScope, subscriptions, values, missed>>
    \/ /\ ~AlreadyBound(s) /\ subscriptions # {}
       /\ pc' = [pc EXCEPT ![c] = "releasing"]
       /\ taken' = [taken EXCEPT ![c] = subscriptions]
       /\ subscriptions' = {}
       /\ UNCHANGED <<todo, bindingScope, values, missed>>
    \/ /\ ~AlreadyBound(s) /\ subscriptions = {}
       /\ Rebind(c, s)
       /\ UNCHANGED <<taken, subscriptions>>

\* The host sends a bootstrap: a call begins.
Bootstrap(s) ==
    LET c == sent + 1
    IN  /\ sent < MaxBootstraps
        /\ sent' = c
        /\ scope' = [scope EXCEPT ![c] = s]
        /\ overlapped' = (overlapped \/ InProgress # {})
        /\ \/ /\ ready
              /\ Enter(c, s)
           \/ /\ ~ready
              /\ pc' = [pc EXCEPT ![c] = "readying"]
              /\ UNCHANGED <<taken, todo, bindingScope, subscriptions, values, missed>>
        /\ UNCHANGED <<ready, live>>

\* host.ready resolves ...
Ready(c) ==
    /\ pc[c] = "readying"
    /\ ready' = TRUE
    /\ Enter(c, scope[c])
    /\ UNCHANGED <<callVars, live>>

\* ... or rejects, and with it the call.
NotReady(c) ==
    /\ pc[c] = "readying"
    /\ pc' = [pc EXCEPT ![c] = "over"]
    /\ UNCHANGED <<callVars, taken, todo, ready, bindingScope, subscriptions,
                   values, live, missed>>

\* One old subscription has ended, or the host had already released it.
Release(c, old) ==
    /\ pc[c] = "releasing"
    /\ old \in taken[c]
    /\ live' = live \ {old}
    /\ taken' = [taken EXCEPT ![c] = @ \ {old}]
    /\ \/ /\ taken[c] = {old}
          /\ Rebind(c, scope[c])
       \/ /\ taken[c] # {old}
          /\ UNCHANGED <<pc, todo, bindingScope, values, missed>>
    /\ UNCHANGED <<callVars, ready, subscriptions>>

\* host.subscribeState resolves, or it rejects and the slot stays without
\* readings; the next slot follows.
Subscribe(c, slot) ==
    /\ pc[c] = "subscribing"
    /\ slot \in todo[c]
    /\ \/ /\ live' = live \cup {[call |-> c, slot |-> slot]}
          /\ subscriptions' = subscriptions \cup {[call |-> c, slot |-> slot]}
          /\ UNCHANGED missed
       \/ /\ missed' = missed \cup {slot}
          /\ UNCHANGED <<live, subscriptions>>
    /\ todo' = [todo EXCEPT ![c] = @ \ {slot}]
    /\ pc' = [pc EXCEPT ![c] = IF todo[c] = {slot} THEN "over" ELSE "subscribing"]
    /\ UNCHANGED <<callVars, taken, ready, bindingScope, values>>

\* updateValues keeps the reading of an event.
Updated(source) == values \cup {source}

\* The host delivers an event of a live subscription.
Event(old) ==
    /\ old \in live
    /\ values' = Updated(scope[old.call])
    /\ UNCHANGED <<callVars, pc, taken, todo, ready, bindingScope,
                   subscriptions, live, missed>>

----------------------------------------------------------------------------

Proceed(c) ==
    \/ Ready(c) \/ NotReady(c)
    \/ \E old \in Subscription : Release(c, old)
    \/ \E slot \in Slots : Subscribe(c, slot)

Next ==
    \/ \E s \in Scope : Bootstrap(s)
    \/ \E c \in Calls : Proceed(c)
    \/ \E old \in Subscription : Event(old)

Spec == Init /\ [][Next]_vars

----------------------------------------------------------------------------
(* Properties *)

\* However calls overlap, none of them loses a subscription or ends it twice:
\* what the host serves is either listed in state.subscriptions or being ended
\* by exactly one call (kasa-widget.mjs:245-247, 272).
SubscriptionsKnown ==
    /\ live = subscriptions \cup UNION {taken[c] : c \in Calls}
    /\ \A c \in Calls : taken[c] \cap subscriptions = {}
    /\ \A c, d \in Calls : c # d => taken[c] \cap taken[d] = {}

\* As long as bootstraps do not overlap, a widget at rest is bound to the last
\* one, with one subscription for each of its slots that was not refused
\* (kasa-widget.mjs:240-278).
LatestIsBound ==
    ~overlapped /\ InProgress = {} /\ ready =>
        /\ bindingScope = scope[sent]
        /\ {s.slot : s \in live} = SlotsOf[bindingScope] \ missed
        /\ \A s, t \in live : s.slot = t.slot => s = t

\* As long as bootstraps do not overlap, the widget never shows readings of
\* the devices it was bound to before (kasa-widget.mjs:245-254).
ValuesFromScope == ~overlapped => values \subseteq {bindingScope}
=============================================================================
