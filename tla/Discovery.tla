----------------------------- MODULE Discovery -----------------------------
(* discover_devices of lib/kasa_client.py without a host: a broadcast scan *)
(* of every local network at once, the merge of what they found, and one   *)
(* device after the other read and disconnected.                           *)
(*                                                                         *)
(* A scan answers with a device object per host it has seen.  The object   *)
(* that the scan of target t made for host h is <<t, h>>: the same device  *)
(* on two networks is two objects, each with a connection of its own.      *)
(* The order in which results are merged and devices are read shows only   *)
(* in the order of the answer, and is left open.                           *)
EXTENDS Naturals, FiniteSets

CONSTANTS
    Targets,   \* the broadcast addresses of _discovery_targets, never empty
    Hosts,     \* where devices may answer
    Cancelled, \* a scan may end with CancelledError
    None

ASSUME TargetsAssumption == Targets # {} /\ IsFiniteSet(Targets)
ASSUME CancelledAssumption == Cancelled \in BOOLEAN
ASSUME NoneAssumption == None \notin Targets

VARIABLES
    phase,    \* where discover_devices is
    scan,     \* the outcome of each scan: see Outcome
    merged,   \* the targets whose result has been merged
    found,    \* host -> target whose object was kept, or None
    open,     \* the objects that are connected
    cached,   \* the hosts with a cached connection configuration
    devices,  \* the hosts in the answer
    failed    \* the hosts that could not be read

vars == <<phase, scan, merged, found, open, cached, devices, failed>>

Outcome == [ends: {"pending", "result", "error", "cancelled"}, hosts: SUBSET Hosts]

TypeOK ==
    /\ phase \in {"scanning", "merging", "reading", "returned", "raised", "cancelled"}
    /\ scan \in [Targets -> Outcome]
    /\ merged \subseteq Targets
    /\ found \in [Hosts -> Targets \cup {None}]
    /\ open \subseteq Targets \X Hosts
    /\ cached \subseteq Hosts
    /\ devices \subseteq Hosts
    /\ failed \subseteq Hosts

Init ==
    /\ phase = "scanning"
    /\ scan = [t \in Targets |-> [ends |-> "pending", hosts |-> {}]]
    /\ merged = {}
    /\ found = [h \in Hosts |-> None]
    /\ open = {}
    /\ cached = {}
    /\ devices = {}
    /\ failed = {}

Errors == {t \in Targets : scan[t].ends = "error"}
Found  == {h \in Hosts : found[h] # None}

----------------------------------------------------------------------------

\* Discover.discover ends for one target; gather collects the outcomes and
\* goes on when it has them all.
Scan(t) ==
    /\ phase = "scanning" /\ scan[t].ends = "pending"
    /\ \/ \E hosts \in SUBSET Hosts :
             /\ scan' = [scan EXCEPT ![t] = [ends |-> "result", hosts |-> hosts]]
             /\ open' = open \cup ({t} \X hosts)
       \/ /\ scan' = [scan EXCEPT ![t].ends = "error"]
          /\ UNCHANGED open
       \/ /\ Cancelled
          /\ scan' = [scan EXCEPT ![t].ends = "cancelled"]
          /\ UNCHANGED open
    /\ phase' = IF \E u \in Targets : scan'[u].ends = "pending"
                THEN "scanning" ELSE "merging"
    /\ UNCHANGED <<merged, found, cached, devices, failed>>

\* Mutant: an object for a host that is known already is just dropped.
Surplus_Dropped(t) == {}

\* The objects of a result that are disconnected at once.
Surplus(t) == {t} \X {h \in scan[t].hosts : found[h] # None}

\* The result of one scan is merged; the first object of a host is kept.
Merge(t) ==
    /\ phase = "merging" /\ t \notin merged
    /\ scan[t].ends # "cancelled"
    /\ merged' = merged \cup {t}
    /\ found' = [h \in Hosts |->
                    IF h \in scan[t].hosts /\ found[h] = None THEN t ELSE found[h]]
    /\ open' = open \ Surplus(t)
    /\ UNCHANGED <<phase, scan, cached, devices, failed>>

\* A cancelled scan cancels the whole discovery.
Abort(t) ==
    /\ phase = "merging" /\ t \notin merged
    /\ scan[t].ends = "cancelled"
    /\ phase' = "cancelled"
    /\ UNCHANGED <<scan, merged, found, open, cached, devices, failed>>

\* Mutant: one failed scan is enough to give up.
NothingToRead_Any == Found = {} /\ Errors # {}

\* Nothing was found, and every scan has failed.
NothingToRead == Found = {} /\ Cardinality(Errors) = Cardinality(Targets)

StartReading ==
    /\ phase = "merging" /\ merged = Targets
    /\ phase' = IF NothingToRead THEN "raised" ELSE "reading"
    /\ UNCHANGED <<scan, merged, found, open, cached, devices, failed>>

Unread == Found \ (devices \cup failed)

\* One device is updated, cached, serialised and disconnected; the update can
\* fail, and so can the serialisation after it.
Read(h) ==
    /\ phase = "reading" /\ h \in Unread
    /\ \/ /\ cached' = cached \cup {h}
          /\ devices' = devices \cup {h}
          /\ UNCHANGED failed
       \/ /\ failed' = failed \cup {h}
          /\ cached' \in {cached, cached \cup {h}}
          /\ UNCHANGED devices
    /\ open' = open \ {<<found[h], h>>}
    /\ UNCHANGED <<phase, scan, merged, found>>

\* The list is returned, unless devices were found and none could be read.
Answer ==
    /\ phase = "reading" /\ Unread = {}
    /\ phase' = IF devices = {} /\ failed # {} THEN "raised" ELSE "returned"
    /\ UNCHANGED <<scan, merged, found, open, cached, devices, failed>>

Next ==
    \/ \E t \in Targets : Scan(t) \/ Merge(t) \/ Abort(t)
    \/ \E h \in Hosts : Read(h)
    \/ StartReading \/ Answer

Spec == Init /\ [][Next]_vars

----------------------------------------------------------------------------
(* Properties *)

\* Whatever scans overlap and whatever fails, no device stays connected after
\* the answer (kasa_client.py:582-585, 611-612); only a cancelled scan leaves
\* the finds of the others behind (576-577).
ConnectionsClosed == phase \in {"returned", "raised"} => open = {}

\* The answer lists every host that some scan has seen, except those that could
\* not be read; and it is an error rather than an empty list exactly when all
\* scans failed or all devices did (kasa_client.py:587-592, 614-622).
AnswerIsComplete ==
    LET heard == UNION {scan[t].hosts : t \in Targets}
    IN  /\ phase = "returned" =>
              /\ devices = heard \ failed
              /\ devices = {} => heard = {} /\ Errors # Targets
        /\ phase = "raised" =>
              /\ devices = {}
              /\ Errors = Targets \/ (failed = heard /\ failed # {})
=============================================================================
