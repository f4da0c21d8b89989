-------------------------- MODULE ConfigRefinement -------------------------
(* ConfigLifecycle implements DevicePolling while one request at a time    *)
(* changes the configuration.                                              *)
EXTENDS ConfigLifecycle

\* The registry, as the addresses it holds.
ConfigOf(d) == IF entries[d] = None THEN None ELSE entries[d].host

\* Every poll task that is not done, whether an entry names it or not.
LoopsOf(d) ==
    {<<t, tasks[t].host>> : t \in {u \in Tasks : tasks[u] # None /\ tasks[u].id = d}}

Polling == INSTANCE DevicePolling WITH
    config <- [d \in Ids |-> ConfigOf(d)],
    loops  <- [d \in Ids |-> LoopsOf(d)]

\* With one mutating request at a time the runtime behaves like
\* DevicePolling: the cancellation is awaited before the new task is made and
\* the entry replaced (routes.py:369-414).
ImplementsDevicePolling == Polling!Spec
============================================================================
