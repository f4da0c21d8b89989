-------------------------- MODULE Discovery_proofs --------------------------
(* What holds of Discovery for any networks and hosts.                     *)
EXTENDS Discovery, FiniteSetTheorems, TLAPS

\* An object is connected until its scan has been merged, and then as long as
\* it was kept and waits to be read.
OpenInv ==
    \A t \in Targets, h \in Hosts :
        <<t, h>> \in open <=>
            IF t \notin merged THEN h \in scan[t].hosts
            ELSE found[h] = t /\ h \notin devices \cup failed

\* The hosts found are those of the scans that were merged.
FoundInv ==
    /\ \A h \in Found : found[h] \in merged /\ h \in scan[found[h]].hosts
    /\ \A t \in merged : scan[t].hosts \subseteq Found

ScanInv == \A t \in Targets : scan[t].ends # "result" => scan[t].hosts = {}

ReadInv == devices \cup failed \subseteq Found /\ devices \cap failed = {}

PhaseInv ==
    /\ phase = "scanning" => merged = {}
    /\ phase \in {"scanning", "merging"} => devices = {} /\ failed = {}
    /\ phase \in {"reading", "returned", "raised"} => merged = Targets
    /\ phase \in {"reading", "returned"} => Found # {} \/ Errors # Targets
    /\ phase \in {"returned", "raised"} => Unread = {}
    /\ phase = "returned" => devices # {} \/ failed = {}
    /\ phase = "raised" => devices = {} /\ (Errors = Targets \/ failed # {})

DiscoveryInv == TypeOK /\ OpenInv /\ FoundInv /\ ScanInv /\ ReadInv /\ PhaseInv

LEMMA InitInv == Init => DiscoveryInv
<1> SUFFICES ASSUME Init PROVE DiscoveryInv
    OBVIOUS
<1>1. TypeOK
    BY DEF Init, TypeOK, Outcome
<1>2. Found = {}
    BY DEF Init, Found
<1>3. OpenInv /\ FoundInv /\ ScanInv
    BY <1>2 DEF Init, OpenInv, FoundInv, ScanInv
<1>. QED BY <1>1, <1>2, <1>3 DEF Init, ReadInv, PhaseInv, DiscoveryInv

LEMMA ScanStep ==
    ASSUME DiscoveryInv, NEW t \in Targets, Scan(t) PROVE DiscoveryInv'
<1> USE DEF DiscoveryInv
<1>1. phase = "scanning" /\ merged = {} /\ devices = {} /\ failed = {}
    BY DEF Scan, PhaseInv
<1>2. UNCHANGED <<merged, found, cached, devices, failed>> /\ phase' \in {"scanning", "merging"}
    BY DEF Scan
<1>3. PICK hosts \in SUBSET Hosts :
          /\ open' = open \cup ({t} \X hosts)
          /\ scan'[t].hosts = hosts
          /\ scan'[t] \in Outcome
          /\ scan'[t].ends # "result" => hosts = {}
          /\ scan' = [scan EXCEPT ![t] = scan'[t]]
    <2>1. scan[t].hosts = {} /\ scan[t] \in Outcome
        BY DEF Scan, ScanInv, TypeOK
    <2>2. ASSUME NEW hosts \in SUBSET Hosts,
                 scan' = [scan EXCEPT ![t] = [ends |-> "result", hosts |-> hosts]],
                 open' = open \cup ({t} \X hosts)
          PROVE  /\ scan'[t].hosts = hosts /\ scan'[t] \in Outcome
                 /\ scan'[t].ends = "result"
                 /\ scan' = [scan EXCEPT ![t] = scan'[t]]
        BY <2>2 DEF TypeOK, Outcome
    <2>3. ASSUME NEW e \in {"error", "cancelled"}, scan' = [scan EXCEPT ![t].ends = e]
          PROVE  /\ scan'[t].hosts = {} /\ scan'[t] \in Outcome
                 /\ scan' = [scan EXCEPT ![t] = scan'[t]]
        BY <2>1, <2>3 DEF TypeOK, Outcome
    <2>4. {t} \X {} = {}
        OBVIOUS
    <2>. QED BY <2>2, <2>3, <2>4 DEF Scan
<1>4. TypeOK'
    BY <1>2, <1>3 DEF TypeOK
<1>5. OpenInv'
    <2> SUFFICES ASSUME NEW u \in Targets, NEW h \in Hosts
                 PROVE  <<u, h>> \in open' <=> h \in scan'[u].hosts
        BY <1>1, <1>2 DEF OpenInv
    <2>1. <<u, h>> \in open <=> h \in scan[u].hosts
        BY <1>1 DEF OpenInv
    <2>2. scan[t].hosts = {}
        BY DEF Scan, ScanInv
    <2>. QED BY <1>3, <2>1, <2>2 DEF TypeOK
<1>6. Found' = {} /\ Found = {}
    BY <1>1, <1>2 DEF FoundInv, Found
<1>7. FoundInv' /\ ReadInv' /\ ScanInv'
    BY <1>1, <1>2, <1>3, <1>6 DEF FoundInv, ReadInv, ScanInv, TypeOK
<1>8. PhaseInv'
    BY <1>1, <1>2 DEF PhaseInv
<1>. QED BY <1>4, <1>5, <1>7, <1>8

LEMMA MergeStep ==
    ASSUME DiscoveryInv, NEW t \in Targets, Merge(t) PROVE DiscoveryInv'
<1> USE NoneAssumption DEF DiscoveryInv
<1>1. phase = "merging" /\ t \notin merged /\ devices = {} /\ failed = {}
    BY DEF Merge, PhaseInv
<1>2. TypeOK'
    BY DEF Merge, TypeOK
<1>3. \A h \in Hosts : found'[h] = IF h \in scan[t].hosts /\ found[h] = None THEN t ELSE found[h]
    BY DEF Merge
<1>4. \A h \in Hosts : found[h] # t
    BY <1>1 DEF FoundInv, Found
<1>5. OpenInv'
    <2> SUFFICES ASSUME NEW u \in Targets, NEW h \in Hosts
                 PROVE  (<<u, h>> \in open <=>
                            IF u \notin merged THEN h \in scan[u].hosts
                            ELSE found[h] = u /\ h \notin devices \cup failed)'
        BY DEF OpenInv
    <2>1. <<u, h>> \in open <=> IF u \notin merged THEN h \in scan[u].hosts ELSE found[h] = u
        BY <1>1 DEF OpenInv
    <2>2. <<u, h>> \in open' <=>
              <<u, h>> \in open /\ ~(u = t /\ h \in scan[t].hosts /\ found[h] # None)
        BY DEF Merge, Surplus, TypeOK, Outcome
    <2>. QED BY <1>1, <1>3, <1>4, <2>1, <2>2 DEF Merge
<1>6. FoundInv'
    <2>1. scan' = scan /\ merged' = merged \cup {t}
        BY DEF Merge
    <2>2. Found' = Found \cup scan[t].hosts
        BY <1>3 DEF Found, TypeOK, Outcome
    <2>. QED BY <1>3, <2>1, <2>2 DEF FoundInv, Found
<1>7. ScanInv' /\ ReadInv' /\ PhaseInv'
    BY <1>1 DEF Merge, ScanInv, ReadInv, PhaseInv
<1>. QED BY <1>2, <1>5, <1>6, <1>7

LEMMA ReadStep ==
    ASSUME DiscoveryInv, NEW h \in Hosts, Read(h) PROVE DiscoveryInv'
<1> USE DEF DiscoveryInv
<1>1. phase = "reading" /\ merged = Targets /\ h \in Unread /\ UNCHANGED <<phase, scan, merged, found>>
    BY DEF Read, PhaseInv
<1>2. Found' = Found /\ Errors' = Errors
    BY <1>1 DEF Found, Errors
<1>3. /\ devices' \cup failed' = devices \cup failed \cup {h}
      /\ devices' \cap failed' = {}
    BY DEF Read, Unread, ReadInv
<1>4. TypeOK'
    BY DEF Read, TypeOK
<1>5. OpenInv'
    <2> SUFFICES ASSUME NEW t \in Targets, NEW g \in Hosts
                 PROVE  <<t, g>> \in open' <=> found[g] = t /\ g \notin devices' \cup failed'
        BY <1>1 DEF OpenInv
    <2>1. <<t, g>> \in open <=> found[g] = t /\ g \notin devices \cup failed
        BY <1>1 DEF OpenInv
    <2>. QED BY <1>3, <2>1 DEF Read
<1>6. FoundInv' /\ ScanInv'
    BY <1>1, <1>2 DEF FoundInv, ScanInv
<1>7. ReadInv'
    BY <1>1, <1>2, <1>3 DEF ReadInv, Unread
<1>8. PhaseInv'
    BY <1>1, <1>2 DEF PhaseInv
<1>. QED BY <1>4, <1>5, <1>6, <1>7, <1>8

LEMMA PhaseStep ==
    ASSUME DiscoveryInv, StartReading \/ Answer \/ \E t \in Targets : Abort(t)
    PROVE  DiscoveryInv'
<1> USE DEF DiscoveryInv
<1>1. UNCHANGED <<scan, merged, found, open, cached, devices, failed>>
    BY DEF StartReading, Answer, Abort
<1>2. Found' = Found /\ Errors' = Errors /\ Unread' = Unread
    BY <1>1 DEF Found, Errors, Unread
<1>3. OpenInv' /\ FoundInv' /\ ScanInv' /\ ReadInv'
    BY <1>1, <1>2 DEF OpenInv, FoundInv, ScanInv, ReadInv
<1>4. TypeOK'
    BY <1>1 DEF StartReading, Answer, Abort, TypeOK
<1>5. PhaseInv'
    <2>1. ASSUME StartReading PROVE PhaseInv'
        <3>1. Cardinality(Errors) = Cardinality(Targets) <=> Errors = Targets
            BY TargetsAssumption, FS_Subset DEF Errors
        <3>. QED BY <1>1, <1>2, <2>1, <3>1 DEF StartReading, NothingToRead, Unread, PhaseInv
    <2>2. ASSUME Answer PROVE PhaseInv'
        BY <1>1, <1>2, <2>2 DEF Answer, PhaseInv
    <2>3. ASSUME NEW t \in Targets, Abort(t) PROVE PhaseInv'
        BY <1>1, <1>2, <2>3 DEF Abort, PhaseInv
    <2>. QED BY <2>1, <2>2, <2>3
<1>. QED BY <1>3, <1>4, <1>5

LEMMA InvStep == DiscoveryInv /\ [Next]_vars => DiscoveryInv'
<1>1. ASSUME DiscoveryInv, UNCHANGED vars PROVE DiscoveryInv'
    BY <1>1 DEF vars, DiscoveryInv, TypeOK, OpenInv, FoundInv, ScanInv, ReadInv, PhaseInv,
                Found, Errors, Unread
<1>. QED BY <1>1, ScanStep, MergeStep, ReadStep, PhaseStep DEF Next

\* After the merge the hosts found are all that some scan has seen.
LEMMA FoundIsHeard ==
    ASSUME DiscoveryInv, merged = Targets
    PROVE  Found = UNION {scan[t].hosts : t \in Targets}
<1>1. \A h \in Found : \E t \in Targets : h \in scan[t].hosts
    BY DEF DiscoveryInv, FoundInv
<1>2. \A t \in Targets : scan[t].hosts \subseteq Found
    BY DEF DiscoveryInv, FoundInv
<1>. QED BY <1>1, <1>2

\* Open device objects, found hosts and the phase belong together in every
\* reachable state (kasa_client.py:546-612).
THEOREM Invariant == Spec => []DiscoveryInv
    BY InitInv, InvStep, PTL DEF Spec

\* Whatever scans overlap and whatever fails, a discovery that answers has
\* disconnected every device object (kasa_client.py:573-612).
THEOREM AllClosed == Spec => []ConnectionsClosed
<1>1. DiscoveryInv => ConnectionsClosed
    <2> SUFFICES ASSUME DiscoveryInv, phase \in {"returned", "raised"}, NEW o \in open PROVE FALSE
        BY DEF ConnectionsClosed
    <2>1. PICK t \in Targets, h \in Hosts : o = <<t, h>>
        BY DEF DiscoveryInv, TypeOK
    <2>2. found[h] = t /\ h \notin devices \cup failed
        BY <2>1 DEF DiscoveryInv, OpenInv, PhaseInv
    <2>3. h \in Unread
        BY <2>2, NoneAssumption DEF Unread, Found
    <2>. QED BY <2>3 DEF DiscoveryInv, PhaseInv
<1>. QED BY <1>1, Invariant, PTL

\* The answer is complete and an error is raised only when all scans or all
\* reads have failed (kasa_client.py:587-592, 614-622).
THEOREM AlwaysComplete == Spec => []AnswerIsComplete
<1>1. DiscoveryInv => AnswerIsComplete
    <2> SUFFICES ASSUME DiscoveryInv PROVE AnswerIsComplete
        OBVIOUS
    <2>1. CASE phase \notin {"returned", "raised"}
        BY <2>1 DEF AnswerIsComplete
    <2>2. CASE phase \in {"returned", "raised"}
        <3>1. merged = Targets /\ Unread = {}
            BY <2>2 DEF DiscoveryInv, PhaseInv
        <3>2. Found = UNION {scan[t].hosts : t \in Targets}
            BY <3>1, FoundIsHeard
        <3>3. devices = Found \ failed /\ failed \subseteq Found
            BY <3>1 DEF DiscoveryInv, ReadInv, Unread
        <3>. QED BY <2>2, <3>2, <3>3 DEF AnswerIsComplete, DiscoveryInv, PhaseInv
    <2>. QED BY <2>1, <2>2
<1>. QED BY <1>1, Invariant, PTL
=============================================================================
