--------------------------- MODULE DevicePolling ---------------------------
(* What the configuration lifecycle promises to whoever configures devices *)
(* one request at a time: a configured device is polled by one loop, at    *)
(* the configured address; a device that is not configured is not polled;  *)
(* reconfiguring stops the old loop before the new one is started.         *)
CONSTANTS Ids, Hosts, Tasks, None

VARIABLES
    config,   \* the configured address of each id, or None
    loops     \* the loops that poll each id, with the address they read

vars == <<config, loops>>

Init ==
    /\ config = [d \in Ids |-> None]
    /\ loops = [d \in Ids |-> {}]

\* The loop of a device that is being reconfigured or removed ends.
Stop(d) ==
    /\ loops[d] # {}
    /\ loops' = [loops EXCEPT ![d] = {}]
    /\ UNCHANGED config

\* A device is configured, and one loop is started for it.
Start(d, host) ==
    /\ loops[d] = {}
    /\ config' = [config EXCEPT ![d] = host]
    /\ \E t \in Tasks : loops' = [loops EXCEPT ![d] = {<<t, host>>}]

\* A device whose loop has ended is forgotten.
Drop(d) ==
    /\ loops[d] = {}
    /\ config[d] # None
    /\ config' = [config EXCEPT ![d] = None]
    /\ UNCHANGED loops

Next == \E d \in Ids : Stop(d) \/ Drop(d) \/ \E host \in Hosts : Start(d, host)

\* A device whose loop was stopped does not stay configured and unpolled.
Settle(d) == config[d] # None /\ (Drop(d) \/ \E host \in Hosts : Start(d, host))

Spec == Init /\ [][Next]_vars /\ \A d \in Ids : WF_vars(Settle(d))

\* A device has at most one loop, which reads the configured address; a device
\* that is not configured has none.
OneLoop ==
    \A d \in Ids :
        \/ loops[d] = {}
        \/ config[d] \in Hosts /\ \E t \in Tasks : loops[d] = {<<t, config[d]>>}
============================================================================
