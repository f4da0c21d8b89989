----------------------- MODULE ConfigLifecycle_proofs -----------------------
(* What holds of ConfigLifecycle for every set of ids, hosts, tasks and    *)
(* handlers, and for any number of requests in progress.                   *)
EXTENDS ConfigRefinement, FiniteSetTheorems, TLAPS

TypeInv == TypeOK /\ OpsTyped

----------------------------------------------------------------------------
(* Helpers *)

\* update_state stores a reading in an entry of the right type and changes
\* nothing else: no entry comes, goes, or changes its task or its host.
LEMMA UpdateStateFacts ==
    ASSUME TypeOK, NEW d \in Ids, NEW host \in Hosts
    PROVE  /\ UpdateState(d, host) \in [Ids -> Entry \cup {None}]
           /\ \A e \in Ids :
                /\ UpdateState(d, host)[e] = None <=> entries[e] = None
                /\ entries[e] # None =>
                      UpdateState(d, host)[e].task = entries[e].task
<1>1. CASE entries[d] = None
    BY <1>1 DEF UpdateState, TypeOK
<1>2. CASE entries[d] # None
    <2>1. entries[d] \in Entry
        BY <1>2 DEF TypeOK
    <2>2. [entries[d] EXCEPT !.latest = host] \in Entry
        BY <2>1 DEF Entry
    <2>3. [entries[d] EXCEPT !.latest = host].task = entries[d].task
        BY <2>1 DEF Entry
    <2>4. UpdateState(d, host) = [entries EXCEPT ![d] = [entries[d] EXCEPT !.latest = host]]
        BY <1>2 DEF UpdateState
    <2>. QED BY <1>2, <2>2, <2>3, <2>4, NoneAssumption DEF TypeOK
<1>. QED BY <1>1, <1>2

\* What is left of a request is a request.
LEMMA WorkFacts ==
    ASSUME NEW work \in Work
    PROVE  /\ AfterOp(work) \in {"idle", "choosing"}
           /\ Rest(work) \in Work
    BY DEF Work, NoWork, Rest, AfterOp

\* The entry id of a payload is a key of the registry.
LEMMA EntryIdType ==
    ASSUME NEW c \in Payload
    PROVE  EntryId(c) \in Ids /\ Normalize(c) \in Payload
    BY NoneAssumption, TrimAssumption DEF Payload, EntryId, Normalize

\* The records that the actions build.
LEMMA NewRecords ==
    ASSUME NEW d \in Ids, NEW host \in Hosts, NEW t \in Tasks
    PROVE  /\ NewPoll(d, host) \in Poll
           /\ NewEntry(t, host) \in Entry
           /\ NewEntry(t, host).task = t
    BY DEF NewPoll, Poll, NewEntry, Entry

----------------------------------------------------------------------------
(* Type correctness *)

LEMMA AcceptTypes ==
    ASSUME TypeInv, NEW h \in Handlers, NEW work \in Work, Accept(h, work)
    PROVE  TypeInv'
    BY DEF TypeInv, TypeOK, OpsTyped, Accept

LEMMA AwaitTypes ==
    ASSUME TypeInv, NEW h \in Handlers, NEW d \in Ids, NEW work \in Work,
           NEW kind \in {"apply", "remove"}, NEW host \in Hosts \cup {None},
           kind = "apply" => host \in Hosts,
           AwaitOldPoll(h, kind, d, host, work)
    PROVE  TypeInv'
<1>. DEFINE t == entries[d].task
<1>1. t \in Tasks /\ tasks[t] \in Poll
    BY DEF TypeInv, TypeOK, AwaitOldPoll, LivePoll, Entry
<1>2. tasks' \in [Tasks -> Poll \cup {None}]
    BY <1>1 DEF AwaitOldPoll, TypeInv, TypeOK, Poll
<1>3. [kind |-> kind, id |-> d, host |-> host, task |-> t] \in Op
    BY <1>1 DEF Op
<1>4. TypeOK'
    BY <1>2, <1>3 DEF AwaitOldPoll, TypeInv, TypeOK
<1>5. OpsTyped'
    BY <1>1, <1>3 DEF AwaitOldPoll, TypeInv, TypeOK, OpsTyped
<1>. QED BY <1>4, <1>5 DEF TypeInv

LEMMA ForgetTypes ==
    ASSUME TypeInv, NEW h \in Handlers, NEW d \in Ids, NEW work \in Work,
           NEW existed \in BOOLEAN, Forget(h, d, existed, work)
    PROVE  TypeInv'
<1>1. announced' \in [Ids -> BOOLEAN]
    BY DEF Forget, DeconfiguredEvent, TypeInv, TypeOK
<1>2. TypeOK'
    BY <1>1, WorkFacts DEF Forget, TypeInv, TypeOK
<1>3. OpsTyped'
    BY WorkFacts DEF Forget, TypeInv, TypeOK, OpsTyped
<1>. QED BY <1>2, <1>3 DEF TypeInv

LEMMA InstallTypes ==
    ASSUME TypeInv, NEW h \in Handlers, NEW d \in Ids, NEW work \in Work,
           NEW host \in Hosts, NEW existed \in BOOLEAN,
           Install(h, d, host, existed, work)
    PROVE  TypeInv'
<1>1. announced' \in [Ids -> BOOLEAN]
    BY DEF Install, DeconfiguredEvent, TypeInv, TypeOK
<1>2. [kind |-> "apply", id |-> d, host |-> host, task |-> None] \in Op
    BY DEF Op
<1>3. TypeOK'
    <2>1. PICK t \in Tasks :
              /\ tasks' = [tasks EXCEPT ![t] = NewPoll(d, host)]
              /\ entries' = [entries EXCEPT ![d] = NewEntry(t, host)]
        BY DEF Install
    <2>2. /\ tasks' \in [Tasks -> Poll \cup {None}]
          /\ entries' \in [Ids -> Entry \cup {None}]
        BY <2>1, NewRecords DEF TypeInv, TypeOK
    <2>3. op' \in [Handlers -> Op \cup {NoOp}]
        BY <1>2 DEF Install, TypeInv, TypeOK
    <2>. QED BY <1>1, <2>2, <2>3 DEF Install, TypeInv, TypeOK
<1>4. OpsTyped'
    BY <1>2 DEF Install, TypeInv, TypeOK, OpsTyped
<1>. QED BY <1>3, <1>4 DEF TypeInv

LEMMA RequestTypes ==
    ASSUME TypeInv, NEW h \in Handlers, Request(h)
    PROVE  TypeInv'
<1>1. ASSUME NEW c \in Configs, ConfigRequest(h, c) PROVE TypeInv'
    <2>1. [removals |-> {}, applies |-> {c}, goal |-> None] \in Work
        BY ConfigsAssumption DEF Work
    <2>. QED BY <1>1, <2>1, AcceptTypes DEF ConfigRequest
<1>2. ASSUME NEW d \in Ids, DeconfigureRequest(h, d) PROVE TypeInv'
    <2>1. [removals |-> {d}, applies |-> {}, goal |-> None] \in Work
        BY DEF Work
    <2>. QED BY <1>2, <2>1, AcceptTypes DEF DeconfigureRequest
<1>3. ASSUME NEW snapshot \in Snapshots, SyncRequest(h, snapshot) PROVE TypeInv'
    <2>. DEFINE configs == {Normalize(c) : c \in snapshot}
                removals == Stale(ActiveIds, configs)
                goal == {EntryId(c) : c \in snapshot}
    <2>1. snapshot \subseteq Payload
        BY SnapshotsAssumption, ConfigsAssumption
    <2>2. configs \subseteq Payload /\ goal \subseteq Ids
        BY <2>1, EntryIdType
    <2>3. removals \subseteq Ids
        BY DEF Stale, ActiveIds
    <2>4. [removals |-> removals, applies |-> configs, goal |-> goal] \in Work
        BY <2>2, <2>3 DEF Work
    <2>5. Accept(h, [removals |-> removals, applies |-> configs, goal |-> goal])
        BY <1>3 DEF SyncRequest
    <2>. QED BY <2>4, <2>5, AcceptTypes
<1>4. ASSUME NEW d \in Ids, RefreshRequest(h, d) PROVE TypeInv'
    <2>1. entries[d].host \in Hosts
        BY <1>4 DEF RefreshRequest, TypeInv, TypeOK, Entry
    <2>2. [kind |-> "refresh", id |-> d, host |-> entries[d].host, task |-> None] \in Op
        BY <2>1 DEF Op
    <2>3. TypeOK'
        BY <1>4, <2>2 DEF RefreshRequest, TypeInv, TypeOK
    <2>4. OpsTyped'
        BY <1>4, <2>1, <2>2 DEF RefreshRequest, TypeInv, TypeOK, OpsTyped
    <2>. QED BY <2>3, <2>4 DEF TypeInv
<1>. QED BY <1>1, <1>2, <1>3, <1>4 DEF Request

LEMMA HandleTypes ==
    ASSUME TypeInv, NEW h \in Handlers, Handle(h)
    PROVE  TypeInv'
<1>1. CASE StartRemove(h)
    <2>1. PICK d \in queue[h].removals :
              LET work == [queue[h] EXCEPT !.removals = @ \ {d}]
              IN  \/ AwaitOldPoll(h, "remove", d, None, work)
                  \/ ~LivePoll(d) /\ Forget(h, d, entries[d] # None, work)
        BY <1>1 DEF StartRemove
    <2>2. d \in Ids /\ [queue[h] EXCEPT !.removals = @ \ {d}] \in Work
        BY DEF TypeInv, TypeOK, Work
    <2>. QED BY <2>1, <2>2, AwaitTypes, ForgetTypes
<1>2. CASE StartApply(h)
    <2>1. PICK c \in queue[h].applies :
              LET work == [queue[h] EXCEPT !.applies = @ \ {c}]
              IN  \/ AwaitOldPoll(h, "apply", EntryId(c), c.host, work)
                  \/ /\ ~LivePoll(EntryId(c))
                     /\ Install(h, EntryId(c), c.host, entries[EntryId(c)] # None, work)
        BY <1>2 DEF StartApply
    <2>2. c \in Payload /\ [queue[h] EXCEPT !.applies = @ \ {c}] \in Work
        BY DEF TypeInv, TypeOK, Work
    <2>3. EntryId(c) \in Ids /\ c.host \in Hosts
        BY <2>2, EntryIdType DEF Payload
    <2>. QED BY <2>1, <2>2, <2>3, AwaitTypes, InstallTypes
<1>3. CASE Resume(h)
    <2>0. hpc[h] = "cancelling"
        BY <1>3 DEF Resume
    <2>1. queue[h] \in Work
        BY DEF TypeInv, TypeOK
    <2>2. op[h].id \in Ids /\ (op[h].kind = "apply" => op[h].host \in Hosts)
        BY <2>0 DEF TypeInv, OpsTyped, Op
    <2>3. CASE Forget(h, op[h].id, TRUE, queue[h])
        BY <2>1, <2>2, <2>3, ForgetTypes
    <2>4. CASE /\ op[h].kind = "apply"
               /\ Install(h, op[h].id, op[h].host, TRUE, queue[h])
        BY <2>1, <2>2, <2>4, InstallTypes
    <2>. QED BY <1>3, <2>3, <2>4 DEF Resume
<1>4. CASE EndRefresh(h)
    <2>1. queue[h] \in Work /\ op[h].id \in Ids /\ op[h].host \in Hosts
        BY <1>4 DEF EndRefresh, TypeInv, TypeOK, OpsTyped, Op
    <2>2. entries' \in [Ids -> Entry \cup {None}]
        BY <1>4, <2>1, UpdateStateFacts DEF EndRefresh, TypeInv, TypeOK
    <2>3. announced' \in [Ids -> BOOLEAN]
        BY <1>4, <2>1 DEF EndRefresh, ConfiguredEvent, TypeInv, TypeOK
    <2>4. TypeOK'
        BY <1>4, <2>1, <2>2, <2>3, WorkFacts DEF EndRefresh, TypeInv, TypeOK
    <2>5. OpsTyped'
        BY <1>4, <2>1, WorkFacts DEF EndRefresh, TypeInv, TypeOK, OpsTyped
    <2>. QED BY <2>4, <2>5 DEF TypeInv
<1>. QED BY <1>1, <1>2, <1>3, <1>4 DEF Handle

LEMMA PollTypes ==
    ASSUME TypeInv, NEW t \in Tasks, PollStep(t)
    PROVE  TypeInv'
<1>1. tasks[t] \in Poll
    BY DEF PollStep, PollBegin, PollEnd, PollStop, TypeInv, TypeOK
<1>2. UNCHANGED <<hpc, op, queue, announced>>
    BY DEF PollStep, PollBegin, PollEnd, PollStop
<1>3. tasks' \in [Tasks -> Poll \cup {None}]
    BY <1>1 DEF PollStep, PollBegin, PollEnd, PollStop, TypeInv, TypeOK, Poll
<1>4. entries' \in [Ids -> Entry \cup {None}]
    BY <1>1, UpdateStateFacts
       DEF PollStep, PollBegin, PollEnd, PollStop, TypeInv, TypeOK, Poll
<1>. QED BY <1>2, <1>3, <1>4 DEF TypeInv, TypeOK, OpsTyped

\* Every step, stuttering included, preserves the types.
LEMMA TypeStep ==
    ASSUME TypeInv, [Next]_vars
    PROVE  TypeInv'
<1>1. CASE UNCHANGED vars
    BY <1>1 DEF vars, TypeInv, TypeOK, OpsTyped
<1>2. CASE Next
    BY <1>2, RequestTypes, HandleTypes, PollTypes DEF Next
<1>. QED BY <1>1, <1>2

LEMMA TypeInit == Init => TypeInv
    BY DEF Init, TypeInv, TypeOK, OpsTyped, NoWork, Work

\* The registry, the poll tasks and the frames of the handlers keep their
\* types through every interleaving (routes.py:263-464).
THEOREM TypeCorrect == Spec => []TypeOK
<1>1. TypeInv => TypeOK
    BY DEF TypeInv
<1>. QED BY <1>1, TypeInit, TypeStep, PTL DEF Spec

----------------------------------------------------------------------------
(* A configured device is polled *)

\* The task of entry d will go on, or is being replaced.
PolledAt(d) ==
    LET t == entries[d].task
    IN  \/ tasks[t] # None /\ ~tasks[t].cancelled
        \/ \E h \in Handlers : hpc[h] = "cancelling" /\ op[h].id = d /\ op[h].task = t

LEMMA PolledAtMeaning ==
    ConfiguredImpliesPolled <=> \A d \in Ids : entries[d] # None => PolledAt(d)
    BY DEF ConfiguredImpliesPolled, PolledAt, ActiveIds, Replacing

\* A step that lets the tasks, the tasks named by the entries and the waiting
\* handlers alone, and sends no handler but h on its way.
LEMMA QuietStep ==
    ASSUME PolledInv, TypeInv', NEW h \in Handlers, hpc[h] # "cancelling",
           UNCHANGED tasks,
           \A d \in Ids : /\ entries'[d] = None <=> entries[d] = None
                          /\ entries[d] # None => entries'[d].task = entries[d].task,
           \A g \in Handlers \ {h} : hpc'[g] = hpc[g] /\ op'[g] = op[g]
    PROVE  PolledInv'
<1>1. DistinctTasks'
    BY DEF PolledInv, DistinctTasks, ActiveIds
<1>2. ASSUME NEW d \in Ids, entries'[d] # None PROVE PolledAt(d)'
    <2>1. PolledAt(d)
        BY <1>2, PolledAtMeaning DEF PolledInv
    <2>. QED BY <1>2, <2>1 DEF PolledAt
<1>. QED BY <1>1, <1>2, PolledAtMeaning DEF PolledInv, TypeInv, ConfiguredImpliesPolled,
                                         PolledAt, ActiveIds, Replacing

LEMMA RequestPolled ==
    ASSUME PolledInv, TypeInv', NEW h \in Handlers, Request(h)
    PROVE  PolledInv'
<1>1. /\ hpc[h] = "idle"
      /\ UNCHANGED <<entries, tasks>>
      /\ \A g \in Handlers \ {h} : hpc'[g] = hpc[g] /\ op'[g] = op[g]
    BY DEF Request, ConfigRequest, DeconfigureRequest, SyncRequest, RefreshRequest,
           Accept, Idle, PolledInv, TypeOK
<1>. QED BY <1>1, QuietStep

LEMMA AwaitPolled ==
    ASSUME PolledInv, TypeInv', NEW h \in Handlers, NEW d \in Ids,
           NEW kind, NEW host, NEW work, hpc[h] = "choosing",
           AwaitOldPoll(h, kind, d, host, work)
    PROVE  PolledInv'
<1>. DEFINE t == entries[d].task
<1>1. /\ entries[d] # None
      /\ t \in Tasks
      /\ UNCHANGED entries
      /\ \A u \in Tasks \ {t} : tasks'[u] = tasks[u]
      /\ hpc'[h] = "cancelling" /\ op'[h].id = d /\ op'[h].task = t
      /\ \A g \in Handlers \ {h} : hpc'[g] = hpc[g] /\ op'[g] = op[g]
    BY DEF AwaitOldPoll, LivePoll, PolledInv, TypeOK, Entry
<1>2. DistinctTasks'
    BY <1>1 DEF PolledInv, DistinctTasks, ActiveIds
<1>3. ASSUME NEW e \in Ids, entries'[e] # None PROVE PolledAt(e)'
    <2>1. CASE e = d
        BY <1>1, <2>1 DEF PolledAt
    <2>2. CASE e # d
        <3>1. entries[e].task # t /\ entries[e].task \in Tasks
            BY <1>1, <1>3, <2>2 DEF PolledInv, DistinctTasks, ActiveIds, TypeOK, Entry
        <3>2. PolledAt(e)
            BY <1>1, <1>3, PolledAtMeaning DEF PolledInv
        <3>. QED BY <1>1, <3>1, <3>2 DEF PolledAt
    <2>. QED BY <2>1, <2>2
<1>. QED BY <1>2, <1>3, PolledAtMeaning DEF PolledInv, TypeInv, ConfiguredImpliesPolled,
                                         PolledAt, ActiveIds, Replacing

\* The handler that replaces or removes the entry of d may have been awaiting
\* a task, but then on behalf of d: no other entry relies on it.
LEMMA ForgetPolled ==
    ASSUME PolledInv, TypeInv', NEW h \in Handlers, NEW d \in Ids,
           NEW existed, NEW work,
           hpc[h] = "cancelling" => op[h].id = d,
           Forget(h, d, existed, work)
    PROVE  PolledInv'
<1>1. /\ entries'[d] = None
      /\ \A e \in Ids \ {d} : entries'[e] = entries[e]
      /\ UNCHANGED tasks
      /\ \A g \in Handlers \ {h} : hpc'[g] = hpc[g] /\ op'[g] = op[g]
    BY DEF Forget, PolledInv, TypeOK
<1>2. DistinctTasks'
    BY <1>1 DEF PolledInv, DistinctTasks, ActiveIds
<1>3. ASSUME NEW e \in Ids, entries'[e] # None PROVE PolledAt(e)'
    <2>1. e # d /\ PolledAt(e)
        BY <1>1, <1>3, PolledAtMeaning DEF PolledInv
    <2>. QED BY <1>1, <2>1 DEF PolledAt
<1>. QED BY <1>2, <1>3, PolledAtMeaning DEF PolledInv, TypeInv, ConfiguredImpliesPolled,
                                         PolledAt, ActiveIds, Replacing

LEMMA InstallPolled ==
    ASSUME PolledInv, TypeInv', NEW h \in Handlers, NEW d \in Ids,
           NEW host \in Hosts, NEW existed, NEW work,
           hpc[h] = "cancelling" => op[h].id = d,
           Install(h, d, host, existed, work)
    PROVE  PolledInv'
<1>1. PICK t \in Tasks :
          /\ Fresh(t)
          /\ tasks' = [tasks EXCEPT ![t] = NewPoll(d, host)]
          /\ entries' = [entries EXCEPT ![d] = NewEntry(t, host)]
    BY DEF Install
<1>2. /\ entries'[d].task = t
      /\ \A e \in Ids \ {d} : entries'[e] = entries[e]
      /\ tasks'[t] # None /\ ~tasks'[t].cancelled
      /\ \A u \in Tasks \ {t} : tasks'[u] = tasks[u]
    <2>1. NewPoll(d, host) # None
        BY NewRecords, NoneAssumption
    <2>. QED BY <1>1, <2>1, NewRecords DEF NewPoll, PolledInv, TypeOK
<1>3. \A g \in Handlers \ {h} : hpc'[g] = hpc[g] /\ op'[g] = op[g]
    BY DEF Install, PolledInv, TypeOK
<1>4. \A e \in Ids : entries[e] # None => entries[e].task # t /\ entries[e].task \in Tasks
    BY <1>1 DEF Fresh, PolledInv, TypeOK, Entry
<1>5. DistinctTasks'
    BY <1>2, <1>4 DEF PolledInv, DistinctTasks, ActiveIds
<1>6. ASSUME NEW e \in Ids, entries'[e] # None PROVE PolledAt(e)'
    <2>1. CASE e = d
        BY <1>2, <2>1 DEF PolledAt
    <2>2. CASE e # d
        <3>1. PolledAt(e) /\ entries'[e] = entries[e] /\ entries[e].task # t
            BY <1>2, <1>4, <1>6, <2>2, PolledAtMeaning DEF PolledInv
        <3>. QED BY <1>2, <1>3, <1>4, <1>6, <2>2, <3>1 DEF PolledAt
    <2>. QED BY <2>1, <2>2
<1>. QED BY <1>5, <1>6, PolledAtMeaning DEF PolledInv, TypeInv, ConfiguredImpliesPolled,
                                         PolledAt, ActiveIds, Replacing

LEMMA HandlePolled ==
    ASSUME PolledInv, TypeInv', NEW h \in Handlers, Handle(h)
    PROVE  PolledInv'
<1>1. CASE StartRemove(h)
    <2>1. PICK d \in queue[h].removals :
              LET work == [queue[h] EXCEPT !.removals = @ \ {d}]
              IN  \/ AwaitOldPoll(h, "remove", d, None, work)
                  \/ ~LivePoll(d) /\ Forget(h, d, entries[d] # None, work)
        BY <1>1 DEF StartRemove
    <2>2. d \in Ids /\ hpc[h] = "choosing"
        BY <1>1 DEF StartRemove, PolledInv, TypeOK, Work
    <2>. QED BY <2>1, <2>2, AwaitPolled, ForgetPolled
<1>2. CASE StartApply(h)
    <2>1. PICK c \in queue[h].applies :
              LET work == [queue[h] EXCEPT !.applies = @ \ {c}]
              IN  \/ AwaitOldPoll(h, "apply", EntryId(c), c.host, work)
                  \/ /\ ~LivePoll(EntryId(c))
                     /\ Install(h, EntryId(c), c.host, entries[EntryId(c)] # None, work)
        BY <1>2 DEF StartApply
    <2>2. hpc[h] = "choosing" /\ EntryId(c) \in Ids /\ c.host \in Hosts
        BY <1>2, EntryIdType DEF StartApply, PolledInv, TypeOK, Work, Payload
    <2>. QED BY <2>1, <2>2, AwaitPolled, InstallPolled
<1>3. CASE Resume(h)
    <2>1. hpc[h] = "cancelling"
        BY <1>3 DEF Resume
    <2>2. op[h].id \in Ids /\ (op[h].kind = "apply" => op[h].host \in Hosts)
        BY <2>1 DEF PolledInv, OpsTyped, Op
    <2>3. CASE Forget(h, op[h].id, TRUE, queue[h])
        BY <2>2, <2>3, ForgetPolled
    <2>4. CASE /\ op[h].kind = "apply"
               /\ Install(h, op[h].id, op[h].host, TRUE, queue[h])
        BY <2>2, <2>4, InstallPolled
    <2>. QED BY <1>3, <2>3, <2>4 DEF Resume
<1>4. CASE EndRefresh(h)
    <2>1. op[h].id \in Ids /\ op[h].host \in Hosts
        BY <1>4 DEF EndRefresh, PolledInv, OpsTyped, Op
    <2>2. \A d \in Ids : /\ entries'[d] = None <=> entries[d] = None
                         /\ entries[d] # None => entries'[d].task = entries[d].task
        BY <1>4, <2>1, UpdateStateFacts DEF EndRefresh, PolledInv
    <2>3. /\ hpc[h] # "cancelling" /\ UNCHANGED tasks
          /\ \A g \in Handlers \ {h} : hpc'[g] = hpc[g] /\ op'[g] = op[g]
        BY <1>4 DEF EndRefresh, PolledInv, TypeOK
    <2>. QED BY <2>2, <2>3, QuietStep
<1>. QED BY <1>1, <1>2, <1>3, <1>4 DEF Handle

\* A poll task ends only when it has been cancelled, and then its entry, if it
\* has one, already relies on the handler that awaits it.
LEMMA PollPolled ==
    ASSUME PolledInv, TypeInv', NEW t \in Tasks, PollStep(t)
    PROVE  PolledInv'
<1>1. tasks[t] \in Poll /\ tasks[t] # None
    BY DEF PollStep, PollBegin, PollEnd, PollStop, PolledInv, TypeOK
<1>2. /\ \A u \in Tasks \ {t} : tasks'[u] = tasks[u]
      /\ ~tasks[t].cancelled => tasks'[t] # None /\ ~tasks'[t].cancelled
    <2>1. /\ [tasks[t] EXCEPT !.pc = "fetching"] \in Poll
          /\ [tasks[t] EXCEPT !.pc = "sleeping"] \in Poll
          /\ [tasks[t] EXCEPT !.pc = "fetching"].cancelled = tasks[t].cancelled
          /\ [tasks[t] EXCEPT !.pc = "sleeping"].cancelled = tasks[t].cancelled
        BY <1>1 DEF Poll
    <2>. QED BY <1>1, <2>1, NoneAssumption
             DEF PollStep, PollBegin, PollEnd, PollStop, PolledInv, TypeOK
<1>3. \A d \in Ids : /\ entries'[d] = None <=> entries[d] = None
                     /\ entries[d] # None => entries'[d].task = entries[d].task
    BY <1>1, UpdateStateFacts
       DEF PollStep, PollBegin, PollEnd, PollStop, PolledInv, Poll
<1>4. UNCHANGED <<hpc, op>>
    BY DEF PollStep, PollBegin, PollEnd, PollStop
<1>5. DistinctTasks'
    BY <1>3 DEF PolledInv, DistinctTasks, ActiveIds
<1>6. ASSUME NEW d \in Ids, entries'[d] # None PROVE PolledAt(d)'
    <2>1. /\ PolledAt(d)
          /\ entries[d].task \in Tasks
          /\ entries'[d].task = entries[d].task
        BY <1>3, <1>6, PolledAtMeaning DEF PolledInv, TypeOK, Entry
    <2>. QED BY <1>2, <1>4, <2>1 DEF PolledAt
<1>. QED BY <1>5, <1>6, PolledAtMeaning DEF PolledInv, TypeInv, ConfiguredImpliesPolled,
                                         PolledAt, ActiveIds, Replacing

\* However requests to configure, remove, sync and refresh interleave, an
\* entry of the registry is polled or about to be replaced
\* (routes.py:343-414): no interleaving leaves a configured device without a
\* poll loop.
THEOREM AlwaysPolled == Spec => []ConfiguredImpliesPolled
<1>1. Init => PolledInv
    BY TypeInit DEF Init, PolledInv, TypeInv, DistinctTasks, ConfiguredImpliesPolled, ActiveIds
<1>2. PolledInv /\ [Next]_vars => PolledInv'
    <2>. SUFFICES ASSUME PolledInv, [Next]_vars PROVE PolledInv'
        OBVIOUS
    <2>1. TypeInv'
        BY TypeStep DEF PolledInv, TypeInv
    <2>2. CASE UNCHANGED vars
        BY <2>1, <2>2 DEF vars, PolledInv, TypeInv, DistinctTasks, ConfiguredImpliesPolled,
                          ActiveIds, Replacing
    <2>3. CASE Next
        BY <2>1, <2>3, RequestPolled, HandlePolled, PollPolled DEF Next
    <2>. QED BY <2>2, <2>3
<1>3. PolledInv => ConfiguredImpliesPolled
    BY DEF PolledInv
<1>. QED BY <1>1, <1>2, <1>3, PTL DEF Spec

----------------------------------------------------------------------------
(* The lifecycle events agree with the registry *)

AgreesAt(d) ==
    \/ announced[d] <=> entries[d] # None
    \/ ~announced[d] /\ \E h \in Handlers :
          hpc[h] = "refreshing" /\ op[h].kind = "apply" /\ op[h].id = d

LEMMA AgreesAtMeaning == EventsAgree <=> \A d \in Ids : AgreesAt(d)
    BY DEF EventsAgree, AgreesAt, Applying

\* A step that emits no event, keeps the keys of the registry and does not
\* end the first refresh of an apply.
LEMMA SilentStep ==
    ASSUME EventsAgree, NEW h \in Handlers,
           hpc[h] = "refreshing" => op[h].kind # "apply",
           UNCHANGED announced,
           \A d \in Ids : entries'[d] = None <=> entries[d] = None,
           \A g \in Handlers \ {h} : hpc'[g] = hpc[g] /\ op'[g] = op[g]
    PROVE  EventsAgree'
<1>1. ASSUME NEW d \in Ids PROVE AgreesAt(d)'
    <2>1. AgreesAt(d)
        BY AgreesAtMeaning
    <2>. QED BY <2>1 DEF AgreesAt
<1>. QED BY <1>1 DEF EventsAgree, AgreesAt, Applying

\* The event of a removal is emitted for every entry that it may remove.
LEMMA ForgetAgrees ==
    ASSUME EventsAgree, TypeInv, NEW h \in Handlers, NEW d \in Ids,
           NEW existed \in BOOLEAN, NEW work,
           hpc[h] # "refreshing", entries[d] # None => existed,
           Forget(h, d, existed, work)
    PROVE  EventsAgree'
<1>1. /\ entries'[d] = None
      /\ \A e \in Ids \ {d} : entries'[e] = entries[e] /\ announced'[e] = announced[e]
      /\ announced'[d] = IF existed THEN FALSE ELSE announced[d]
      /\ \A g \in Handlers \ {h} : hpc'[g] = hpc[g] /\ op'[g] = op[g]
    BY DEF Forget, DeconfiguredEvent, TypeInv, TypeOK
<1>2. ASSUME NEW e \in Ids PROVE AgreesAt(e)'
    <2>1. AgreesAt(e)
        BY AgreesAtMeaning
    <2>2. CASE e = d
        BY <1>1, <2>1, <2>2 DEF AgreesAt
    <2>3. CASE e # d
        BY <1>1, <2>1, <2>3 DEF AgreesAt
    <2>. QED BY <2>2, <2>3
<1>. QED BY <1>2 DEF EventsAgree, AgreesAt, Applying

LEMMA InstallAgrees ==
    ASSUME EventsAgree, TypeInv, NEW h \in Handlers, NEW d \in Ids,
           NEW host \in Hosts, NEW existed \in BOOLEAN, NEW work,
           hpc[h] # "refreshing", entries[d] # None => existed,
           Install(h, d, host, existed, work)
    PROVE  EventsAgree'
<1>1. /\ \A e \in Ids \ {d} : entries'[e] = entries[e] /\ announced'[e] = announced[e]
      /\ announced'[d] = IF existed THEN FALSE ELSE announced[d]
      /\ \A g \in Handlers \ {h} : hpc'[g] = hpc[g] /\ op'[g] = op[g]
    BY DEF Install, DeconfiguredEvent, TypeInv, TypeOK
<1>2. hpc'[h] = "refreshing" /\ op'[h].kind = "apply" /\ op'[h].id = d
    BY DEF Install, TypeInv, TypeOK
<1>3. ASSUME NEW e \in Ids PROVE AgreesAt(e)'
    <2>1. AgreesAt(e)
        BY AgreesAtMeaning
    <2>2. CASE e = d
        <3>1. ~announced'[d]
            BY <1>1, <2>1, <2>2 DEF AgreesAt
        <3>. QED BY <1>2, <2>2, <3>1 DEF AgreesAt
    <2>3. CASE e # d
        BY <1>1, <2>1, <2>3 DEF AgreesAt
    <2>. QED BY <2>2, <2>3
<1>. QED BY <1>3 DEF EventsAgree, AgreesAt, Applying

LEMMA EndRefreshAgrees ==
    ASSUME EventsAgree, TypeInv, NEW h \in Handlers, EndRefresh(h)
    PROVE  EventsAgree'
<1>. DEFINE d == op[h].id
<1>1. d \in Ids /\ op[h].host \in Hosts
    BY DEF EndRefresh, TypeInv, OpsTyped, Op
<1>2. \A e \in Ids : entries'[e] = None <=> entries[e] = None
    BY <1>1, UpdateStateFacts DEF EndRefresh, TypeInv
<1>3. \A g \in Handlers \ {h} : hpc'[g] = hpc[g] /\ op'[g] = op[g]
    BY DEF EndRefresh, TypeInv, TypeOK
<1>4. CASE op[h].kind # "apply"
    BY <1>2, <1>3, <1>4, SilentStep DEF EndRefresh
<1>5. CASE op[h].kind = "apply"
    <2>1. /\ announced'[d] = (entries[d] # None \/ announced[d])
          /\ \A e \in Ids \ {d} : announced'[e] = announced[e]
        BY <1>1, <1>5 DEF EndRefresh, ConfiguredEvent, TypeInv, TypeOK
    <2>2. ASSUME NEW e \in Ids PROVE AgreesAt(e)'
        <3>1. AgreesAt(e)
            BY AgreesAtMeaning
        <3>2. CASE e = d
            BY <1>2, <2>1, <3>1, <3>2 DEF AgreesAt
        <3>3. CASE e # d
            BY <1>2, <1>3, <2>1, <3>1, <3>3 DEF AgreesAt
        <3>. QED BY <3>2, <3>3
    <2>. QED BY <2>2 DEF EventsAgree, AgreesAt, Applying
<1>. QED BY <1>4, <1>5

LEMMA HandleAgrees ==
    ASSUME EventsAgree, TypeInv, NEW h \in Handlers, Handle(h)
    PROVE  EventsAgree'
<1>1. ASSUME NEW kind, NEW d, NEW host, NEW work, hpc[h] # "refreshing",
             AwaitOldPoll(h, kind, d, host, work)
      PROVE  EventsAgree'
    <2>1. /\ UNCHANGED <<entries, announced>>
          /\ \A g \in Handlers \ {h} : hpc'[g] = hpc[g] /\ op'[g] = op[g]
        BY <1>1 DEF AwaitOldPoll, TypeInv, TypeOK
    <2>. QED BY <1>1, <2>1, SilentStep
<1>2. CASE StartRemove(h)
    <2>1. PICK d \in queue[h].removals :
              LET work == [queue[h] EXCEPT !.removals = @ \ {d}]
              IN  \/ AwaitOldPoll(h, "remove", d, None, work)
                  \/ ~LivePoll(d) /\ Forget(h, d, entries[d] # None, work)
        BY <1>2 DEF StartRemove
    <2>2. d \in Ids /\ hpc[h] # "refreshing"
        BY <1>2 DEF StartRemove, TypeInv, TypeOK, Work
    <2>. QED BY <1>1, <2>1, <2>2, ForgetAgrees
<1>3. CASE StartApply(h)
    <2>1. PICK c \in queue[h].applies :
              LET work == [queue[h] EXCEPT !.applies = @ \ {c}]
              IN  \/ AwaitOldPoll(h, "apply", EntryId(c), c.host, work)
                  \/ /\ ~LivePoll(EntryId(c))
                     /\ Install(h, EntryId(c), c.host, entries[EntryId(c)] # None, work)
        BY <1>3 DEF StartApply
    <2>2. hpc[h] # "refreshing" /\ EntryId(c) \in Ids /\ c.host \in Hosts
        BY <1>3, EntryIdType DEF StartApply, TypeInv, TypeOK, Work, Payload
    <2>. QED BY <1>1, <2>1, <2>2, InstallAgrees
<1>4. CASE Resume(h)
    <2>1. hpc[h] = "cancelling"
        BY <1>4 DEF Resume
    <2>2. op[h].id \in Ids /\ (op[h].kind = "apply" => op[h].host \in Hosts)
        BY <2>1 DEF TypeInv, OpsTyped, Op
    <2>3. CASE Forget(h, op[h].id, TRUE, queue[h])
        BY <2>1, <2>2, <2>3, ForgetAgrees
    <2>4. CASE /\ op[h].kind = "apply"
               /\ Install(h, op[h].id, op[h].host, TRUE, queue[h])
        BY <2>1, <2>2, <2>4, InstallAgrees
    <2>. QED BY <1>4, <2>3, <2>4 DEF Resume
<1>. QED BY <1>2, <1>3, <1>4, EndRefreshAgrees DEF Handle

\* The lifecycle events tell the truth about the registry, however requests
\* interleave, up to the event of an apply in progress (routes.py:379-434).
THEOREM EventsAlwaysAgree == Spec => []EventsAgree
<1>. DEFINE Inv == TypeInv /\ EventsAgree
<1>1. Init => Inv
    BY TypeInit DEF Init, EventsAgree
<1>2. Inv /\ [Next]_vars => Inv'
    <2>. SUFFICES ASSUME Inv, [Next]_vars PROVE Inv'
        OBVIOUS
    <2>1. TypeInv'
        BY TypeStep
    <2>2. CASE UNCHANGED vars
        BY <2>1, <2>2 DEF vars, EventsAgree, Applying
    <2>3. ASSUME NEW h \in Handlers, Request(h) PROVE EventsAgree'
        <3>1. /\ hpc[h] = "idle"
              /\ UNCHANGED <<entries, announced>>
              /\ \A g \in Handlers \ {h} : hpc'[g] = hpc[g] /\ op'[g] = op[g]
            BY <2>3 DEF Request, ConfigRequest, DeconfigureRequest, SyncRequest,
                        RefreshRequest, Accept, Idle, TypeInv, TypeOK
        <3>. QED BY <3>1, SilentStep
    <2>4. ASSUME NEW t \in Tasks, PollStep(t) PROVE EventsAgree'
        <3>1. tasks[t] \in Poll /\ UNCHANGED <<hpc, op, announced>>
            BY <2>4 DEF PollStep, PollBegin, PollEnd, PollStop, TypeInv, TypeOK
        <3>2. \A d \in Ids : entries'[d] = None <=> entries[d] = None
            BY <2>4, <3>1, UpdateStateFacts
               DEF PollStep, PollBegin, PollEnd, PollStop, TypeInv, Poll
        <3>. QED BY <3>1, <3>2 DEF EventsAgree, Applying
    <2>5. CASE Next
        BY <2>1, <2>3, <2>4, <2>5, HandleAgrees DEF Next
    <2>. QED BY <2>1, <2>2, <2>5
<1>3. Inv => EventsAgree
    OBVIOUS
<1>. QED BY <1>1, <1>2, <1>3, PTL DEF Spec

----------------------------------------------------------------------------
(* No request waits in vain *)

\* A task that is done stays so, and a cancelled one is done or stays cancelled.
StaysCancelled(t) ==
    tasks[t] = None \/ tasks[t].cancelled => tasks'[t] = None \/ tasks'[t].cancelled

\* A step of any actor, when it brings nobody to wait and gives an awaited task
\* no new life.
LEMMA WaitKept ==
    ASSUME TypeInv, WaitsEnd, NEW h \in Handlers,
           hpc'[h] = "cancelling" => hpc'[h] = hpc[h] /\ op'[h] = op[h],
           hpc[h] = "cancelling" => StaysCancelled(op[h].task)
    PROVE  WaitEnds(h)'
    BY DEF WaitsEnd, WaitEnds, StaysCancelled

LEMMA AwaitWaits ==
    ASSUME TypeInv, WaitsEnd, NEW h \in Handlers, NEW d \in Ids, NEW work,
           NEW kind \in {"apply", "remove"}, NEW host,
           AwaitOldPoll(h, kind, d, host, work)
    PROVE  WaitsEnd'
<1>. DEFINE t == entries[d].task
<1>1. t \in Tasks /\ tasks[t] \in Poll /\ tasks[t] # None
    BY DEF AwaitOldPoll, LivePoll, TypeInv, TypeOK, Entry
<1>2. /\ tasks'[t].cancelled
      /\ \A u \in Tasks \ {t} : tasks'[u] = tasks[u]
      /\ hpc'[h] = "cancelling" /\ op'[h].kind = kind /\ op'[h].task = t
      /\ \A g \in Handlers \ {h} : hpc'[g] = hpc[g] /\ op'[g] = op[g]
    <2>1. [tasks[t] EXCEPT !.cancelled = TRUE].cancelled
        BY <1>1 DEF Poll
    <2>. QED BY <1>1, <2>1 DEF AwaitOldPoll, TypeInv, TypeOK
<1>3. \A u \in Tasks : StaysCancelled(u)
    BY <1>2 DEF StaysCancelled
<1>4. WaitEnds(h)'
    BY <1>2 DEF WaitEnds
<1>5. ASSUME NEW g \in Handlers \ {h} PROVE WaitEnds(g)'
    <2>1. hpc[g] = "cancelling" => op[g].task \in Tasks
        BY DEF TypeInv, OpsTyped
    <2>. QED BY <1>2, <1>3, <2>1, WaitKept
<1>. QED BY <1>4, <1>5 DEF WaitsEnd

LEMMA ForgetWaits ==
    ASSUME TypeInv, WaitsEnd, NEW h \in Handlers, NEW d \in Ids, NEW existed,
           NEW work \in Work, Forget(h, d, existed, work)
    PROVE  WaitsEnd'
<1>1. /\ UNCHANGED tasks /\ hpc'[h] # "cancelling"
      /\ \A g \in Handlers \ {h} : hpc'[g] = hpc[g] /\ op'[g] = op[g]
    BY WorkFacts DEF Forget, TypeInv, TypeOK
<1>. QED BY <1>1, WaitKept DEF WaitsEnd, StaysCancelled

\* The new task is a fresh one: nobody awaits it.
LEMMA InstallWaits ==
    ASSUME TypeInv, WaitsEnd, NEW h \in Handlers, NEW d \in Ids, NEW host,
           NEW existed, NEW work, Install(h, d, host, existed, work)
    PROVE  WaitsEnd'
<1>1. PICK t \in Tasks : Fresh(t) /\ tasks' = [tasks EXCEPT ![t] = NewPoll(d, host)]
    BY DEF Install
<1>2. /\ hpc'[h] # "cancelling"
      /\ \A g \in Handlers \ {h} : hpc'[g] = hpc[g] /\ op'[g] = op[g]
      /\ \A u \in Tasks \ {t} : StaysCancelled(u)
    BY <1>1 DEF Install, StaysCancelled, TypeInv, TypeOK
<1>3. \A g \in Handlers : hpc[g] = "cancelling" => op[g].task \in Tasks \ {t}
    BY <1>1 DEF Fresh, TypeInv, OpsTyped
<1>. QED BY <1>2, <1>3, WaitKept DEF WaitsEnd

LEMMA HandleWaits ==
    ASSUME TypeInv, WaitsEnd, NEW h \in Handlers, Handle(h)
    PROVE  WaitsEnd'
<1>1. CASE StartRemove(h)
    <2>1. PICK d \in queue[h].removals :
              LET work == [queue[h] EXCEPT !.removals = @ \ {d}]
              IN  \/ AwaitOldPoll(h, "remove", d, None, work)
                  \/ ~LivePoll(d) /\ Forget(h, d, entries[d] # None, work)
        BY <1>1 DEF StartRemove
    <2>2. d \in Ids /\ [queue[h] EXCEPT !.removals = @ \ {d}] \in Work
        BY DEF TypeInv, TypeOK, Work
    <2>. QED BY <2>1, <2>2, AwaitWaits, ForgetWaits
<1>2. CASE StartApply(h)
    <2>1. PICK c \in queue[h].applies :
              LET work == [queue[h] EXCEPT !.applies = @ \ {c}]
              IN  \/ AwaitOldPoll(h, "apply", EntryId(c), c.host, work)
                  \/ /\ ~LivePoll(EntryId(c))
                     /\ Install(h, EntryId(c), c.host, entries[EntryId(c)] # None, work)
        BY <1>2 DEF StartApply
    <2>2. EntryId(c) \in Ids
        BY EntryIdType DEF TypeInv, TypeOK, Work
    <2>. QED BY <2>1, <2>2, AwaitWaits, InstallWaits
<1>3. CASE Resume(h)
    <2>1. queue[h] \in Work /\ op[h].id \in Ids
        BY <1>3 DEF Resume, TypeInv, TypeOK, OpsTyped, Op
    <2>. QED BY <1>3, <2>1, ForgetWaits, InstallWaits DEF Resume
<1>4. CASE EndRefresh(h)
    <2>1. /\ UNCHANGED tasks /\ hpc'[h] # "cancelling"
          /\ \A g \in Handlers \ {h} : hpc'[g] = hpc[g] /\ op'[g] = op[g]
        BY <1>4, WorkFacts DEF EndRefresh, TypeInv, TypeOK
    <2>. QED BY <2>1, WaitKept DEF WaitsEnd, StaysCancelled
<1>. QED BY <1>1, <1>2, <1>3, <1>4 DEF Handle

\* The cancellation of a poll is delivered: the only step left to a cancelled
\* task ends it.
LEMMA PollWaits ==
    ASSUME TypeInv, WaitsEnd, NEW t \in Tasks, PollStep(t)
    PROVE  WaitsEnd'
<1>1. UNCHANGED <<hpc, op>>
    BY DEF PollStep, PollBegin, PollEnd, PollStop
<1>2. \A u \in Tasks : StaysCancelled(u)
    BY DEF PollStep, PollBegin, PollEnd, PollStop, StaysCancelled, TypeInv, TypeOK
<1>3. \A g \in Handlers : hpc[g] = "cancelling" => op[g].task \in Tasks
    BY DEF TypeInv, OpsTyped
<1>. QED BY <1>1, <1>2, <1>3, WaitKept DEF WaitsEnd

\* However many requests are in progress and however they interleave, a request
\* that awaits an old poll task awaits one that is done or cancelled
\* (routes.py:371-376): no handler waits for a task that another one revived, or
\* for another handler.  This is the safety part of RequestsAnswered.
THEOREM NoVainWait == Spec => []WaitsEnd
<1>1. Init => WaitsEnd
    BY DEF Init, WaitsEnd, WaitEnds
<1>2. TypeInv /\ WaitsEnd /\ [Next]_vars => WaitsEnd'
    <2>. SUFFICES ASSUME TypeInv, WaitsEnd, [Next]_vars PROVE WaitsEnd'
        OBVIOUS
    <2>1. CASE UNCHANGED vars
        BY <2>1 DEF vars, WaitsEnd, WaitEnds
    <2>2. ASSUME NEW h \in Handlers, Request(h) PROVE WaitsEnd'
        <3>1. /\ UNCHANGED tasks /\ hpc'[h] # "cancelling"
              /\ \A g \in Handlers \ {h} : hpc'[g] = hpc[g] /\ op'[g] = op[g]
            BY <2>2 DEF Request, ConfigRequest, DeconfigureRequest, SyncRequest,
                        RefreshRequest, Accept, Idle, TypeInv, TypeOK
        <3>. QED BY <3>1, WaitKept DEF WaitsEnd, StaysCancelled
    <2>3. CASE Next
        BY <2>2, <2>3, HandleWaits, PollWaits DEF Next
    <2>. QED BY <2>1, <2>3
<1>. QED BY <1>1, <1>2, TypeInit, TypeStep, PTL DEF Spec

----------------------------------------------------------------------------
(* One changing request at a time *)

\* At most one request that changes the registry is in progress.
Serial == MaxMutators = 1 /\ IsFiniteSet(Handlers)

Mutating(h) == ~Idle(h) /\ op[h].kind # "refresh"

OneMutator == \A g, h \in Handlers : Mutating(g) /\ Mutating(h) => g = h

\* What a handler has in hand where it is.
Frames ==
    \A h \in Handlers :
        /\ hpc[h] \in {"idle", "choosing"} => op[h] = NoOp
        /\ hpc[h] = "cancelling" => op[h].kind # "refresh"
        /\ hpc[h] = "idle" => queue[h] = NoWork
        /\ op[h].kind = "refresh" => queue[h] = NoWork

\* The task a handler awaits is still that of the entry it works on.
AwaitsOwn ==
    \A h \in Handlers :
        hpc[h] = "cancelling" =>
            entries[op[h].id] # None /\ entries[op[h].id].task = op[h].task

SerialInv == TypeInv /\ Frames /\ OneMutator /\ AwaitsOwn /\ PollsAreRegistered

\* A request is accepted only when no other one changes the registry.
LEMMA AcceptAlone ==
    ASSUME Serial, NEW h \in Handlers, NEW work, Accept(h, work)
    PROVE  \A g \in Handlers : ~Mutating(g)
<1>1. Mutators \subseteq Handlers
    BY DEF Mutators
<1>2. IsFiniteSet(Mutators)
    BY <1>1, FS_Subset DEF Serial
<1>3. Cardinality(Mutators) \in Nat /\ Cardinality(Mutators) < 1
    BY <1>2, FS_CardinalityType DEF Accept, Serial
<1>4. Mutators = {}
    BY <1>2, <1>3, FS_EmptySet
<1>. QED BY <1>4 DEF Mutators, Readers, Mutating

LEMMA AcceptSerial ==
    ASSUME Serial, SerialInv, TypeInv', NEW h \in Handlers, NEW work, Accept(h, work)
    PROVE  SerialInv'
<1>1. /\ UNCHANGED <<entries, tasks, op>>
      /\ hpc[h] = "idle" /\ hpc'[h] = "choosing" /\ op[h] = NoOp
      /\ \A g \in Handlers \ {h} : hpc'[g] = hpc[g] /\ queue'[g] = queue[g]
    BY DEF Accept, Idle, SerialInv, TypeInv, TypeOK, Frames
<1>2. Frames'
    BY <1>1 DEF SerialInv, Frames, NoOp
<1>3. OneMutator'
    <2>1. \A g \in Handlers \ {h} : ~Mutating(g)'
        BY <1>1, AcceptAlone DEF Mutating, Idle
    <2>. QED BY <2>1 DEF OneMutator
<1>4. AwaitsOwn' /\ PollsAreRegistered'
    BY <1>1 DEF SerialInv, AwaitsOwn, PollsAreRegistered
<1>. QED BY <1>2, <1>3, <1>4 DEF SerialInv

\* A step of the one handler that may change the registry keeps it the only
\* one.
LEMMA StaysAlone ==
    ASSUME OneMutator, NEW h \in Handlers, Mutating(h) \/ ~Mutating(h)',
           \A g \in Handlers \ {h} : hpc'[g] = hpc[g] /\ op'[g] = op[g]
    PROVE  OneMutator'
    BY DEF OneMutator, Mutating, Idle

LEMMA AwaitSerial ==
    ASSUME SerialInv, TypeInv', NEW h \in Handlers, NEW d \in Ids,
           NEW kind \in {"apply", "remove"}, NEW host, NEW work,
           hpc[h] = "choosing", AwaitOldPoll(h, kind, d, host, work)
    PROVE  SerialInv'
<1>. DEFINE t == entries[d].task
<1>1. /\ entries[d] # None
      /\ t \in Tasks /\ tasks[t] \in Poll
      /\ UNCHANGED entries
      /\ hpc'[h] = "cancelling"
      /\ op'[h].kind = kind /\ op'[h].id = d /\ op'[h].task = t
      /\ \A g \in Handlers \ {h} :
            hpc'[g] = hpc[g] /\ op'[g] = op[g] /\ queue'[g] = queue[g]
    BY DEF AwaitOldPoll, LivePoll, SerialInv, TypeInv, TypeOK, Entry
<1>2. Mutating(h)
    BY DEF SerialInv, Frames, NoOp, Mutating, Idle
<1>3. Frames'
    BY <1>1 DEF SerialInv, Frames
<1>4. OneMutator'
    BY <1>1, <1>2, StaysAlone DEF SerialInv
<1>5. AwaitsOwn'
    BY <1>1 DEF SerialInv, AwaitsOwn
<1>6. \A u \in Tasks : tasks'[u] # None => tasks[u] # None /\ tasks'[u].id = tasks[u].id
    <2>1. tasks' = [tasks EXCEPT ![t] = [tasks[t] EXCEPT !.cancelled = TRUE]]
        BY DEF AwaitOldPoll
    <2>2. [tasks[t] EXCEPT !.cancelled = TRUE].id = tasks[t].id
        BY <1>1 DEF Poll
    <2>. QED BY <1>1, <2>1, <2>2, NoneAssumption DEF SerialInv, TypeInv, TypeOK
<1>7. PollsAreRegistered'
    BY <1>1, <1>6 DEF SerialInv, PollsAreRegistered
<1>. QED BY <1>3, <1>4, <1>5, <1>7 DEF SerialInv

\* Without a live poll in its entry a device has no poll at all.
LEMMA NoPollLeft ==
    ASSUME SerialInv, NEW d \in Ids, ~LivePoll(d), NEW t \in Tasks, tasks[t] # None
    PROVE  tasks[t].id # d
    BY DEF SerialInv, PollsAreRegistered, LivePoll

\* No other handler is waiting while one changes the registry.
LEMMA NobodyWaits ==
    ASSUME SerialInv, NEW h \in Handlers, Mutating(h)
    PROVE  \A g \in Handlers \ {h} : hpc[g] # "cancelling"
    BY DEF SerialInv, Frames, OneMutator, Mutating, Idle

LEMMA ForgetSerial ==
    ASSUME SerialInv, TypeInv', NEW h \in Handlers, Mutating(h), NEW d \in Ids,
           ~LivePoll(d), NEW existed, NEW work \in Work, Forget(h, d, existed, work)
    PROVE  SerialInv'
<1>1. /\ \A e \in Ids \ {d} : entries'[e] = entries[e]
      /\ UNCHANGED tasks
      /\ hpc'[h] = AfterOp(work) /\ op'[h] = NoOp /\ queue'[h] = Rest(work)
      /\ \A g \in Handlers \ {h} :
            hpc'[g] = hpc[g] /\ op'[g] = op[g] /\ queue'[g] = queue[g]
    BY DEF Forget, SerialInv, TypeInv, TypeOK
<1>2. Frames'
    BY <1>1, WorkFacts DEF SerialInv, Frames, NoOp, Rest
<1>3. OneMutator'
    BY <1>1, StaysAlone DEF SerialInv
<1>4. AwaitsOwn'
    BY <1>1, NobodyWaits, WorkFacts DEF AwaitsOwn
<1>5. PollsAreRegistered'
    BY <1>1, NoPollLeft DEF SerialInv, PollsAreRegistered, TypeInv, TypeOK, Poll
<1>. QED BY <1>2, <1>3, <1>4, <1>5 DEF SerialInv

LEMMA InstallSerial ==
    ASSUME SerialInv, TypeInv', NEW h \in Handlers, Mutating(h), NEW d \in Ids,
           NEW host \in Hosts, ~LivePoll(d), NEW existed, NEW work \in Work,
           Install(h, d, host, existed, work)
    PROVE  SerialInv'
<1>1. PICK t \in Tasks :
          /\ Fresh(t)
          /\ tasks' = [tasks EXCEPT ![t] = NewPoll(d, host)]
          /\ entries' = [entries EXCEPT ![d] = NewEntry(t, host)]
    BY DEF Install
<1>2. /\ entries'[d] # None /\ entries'[d].task = t
      /\ \A e \in Ids \ {d} : entries'[e] = entries[e]
      /\ tasks'[t].id = d
      /\ \A u \in Tasks \ {t} : tasks'[u] = tasks[u]
    BY <1>1, NewRecords, NoneAssumption DEF NewPoll, SerialInv, TypeInv, TypeOK
<1>3. /\ hpc'[h] = "refreshing" /\ op'[h].kind = "apply"
      /\ \A g \in Handlers \ {h} :
            hpc'[g] = hpc[g] /\ op'[g] = op[g] /\ queue'[g] = queue[g]
    BY DEF Install, SerialInv, TypeInv, TypeOK
<1>4. Frames'
    BY <1>3 DEF SerialInv, Frames
<1>5. OneMutator'
    BY <1>3, StaysAlone DEF SerialInv
<1>6. AwaitsOwn'
    BY <1>3, NobodyWaits DEF AwaitsOwn
<1>7. PollsAreRegistered'
    <2>. SUFFICES ASSUME NEW u \in Tasks, tasks'[u] # None
                  PROVE  entries'[tasks'[u].id] # None /\ entries'[tasks'[u].id].task = u
        BY DEF PollsAreRegistered
    <2>1. CASE u = t
        BY <1>2, <2>1
    <2>2. CASE u # t
        <3>1. tasks'[u] = tasks[u] /\ tasks[u] \in Poll
            BY <1>2, <2>2 DEF SerialInv, TypeInv, TypeOK
        <3>2. tasks[u].id \in Ids \ {d}
            BY <3>1, NoPollLeft DEF Poll
        <3>. QED BY <1>2, <3>1, <3>2 DEF SerialInv, PollsAreRegistered
    <2>. QED BY <2>1, <2>2
<1>. QED BY <1>4, <1>5, <1>6, <1>7 DEF SerialInv

\* A step that keeps the entries, their tasks and the frames of the waiting
\* handlers.
LEMMA KeepsRegistered ==
    ASSUME SerialInv,
           \A d \in Ids : /\ entries'[d] = None <=> entries[d] = None
                          /\ entries[d] # None => entries'[d].task = entries[d].task,
           \A t \in Tasks : tasks'[t] # None =>
                                tasks[t] # None /\ tasks'[t].id = tasks[t].id,
           \A g \in Handlers : hpc'[g] = "cancelling" =>
                                  hpc[g] = "cancelling" /\ op'[g] = op[g]
    PROVE  AwaitsOwn' /\ PollsAreRegistered'
<1>1. \A g \in Handlers : hpc[g] = "cancelling" => op[g].id \in Ids
    BY DEF SerialInv, TypeInv, OpsTyped, Op
<1>2. \A t \in Tasks : tasks[t] # None => tasks[t].id \in Ids
    BY DEF SerialInv, TypeInv, TypeOK, Poll
<1>. QED BY <1>1, <1>2 DEF SerialInv, AwaitsOwn, PollsAreRegistered

LEMMA RefreshRequestSerial ==
    ASSUME SerialInv, TypeInv', NEW h \in Handlers, NEW d \in Ids, RefreshRequest(h, d)
    PROVE  SerialInv'
<1>1. /\ UNCHANGED <<entries, tasks, queue>>
      /\ hpc[h] = "idle" /\ hpc'[h] = "refreshing" /\ op'[h].kind = "refresh"
      /\ \A g \in Handlers \ {h} : hpc'[g] = hpc[g] /\ op'[g] = op[g]
    BY DEF RefreshRequest, Idle, SerialInv, TypeInv, TypeOK
<1>2. Frames'
    BY <1>1 DEF SerialInv, Frames
<1>3. OneMutator'
    BY <1>1, StaysAlone DEF SerialInv, Mutating
<1>. QED BY <1>1, <1>2, <1>3, KeepsRegistered DEF SerialInv

LEMMA EndRefreshSerial ==
    ASSUME SerialInv, TypeInv', NEW h \in Handlers, EndRefresh(h)
    PROVE  SerialInv'
<1>1. /\ hpc[h] = "refreshing" /\ UNCHANGED tasks
      /\ hpc'[h] = AfterOp(queue[h]) /\ op'[h] = NoOp /\ queue'[h] = Rest(queue[h])
      /\ queue[h] \in Work /\ op[h].id \in Ids /\ op[h].host \in Hosts
      /\ \A g \in Handlers \ {h} :
            hpc'[g] = hpc[g] /\ op'[g] = op[g] /\ queue'[g] = queue[g]
    BY DEF EndRefresh, SerialInv, TypeInv, TypeOK, OpsTyped, Op
<1>2. Frames'
    BY <1>1, WorkFacts DEF SerialInv, Frames, NoOp, Rest
<1>3. OneMutator'
    <2>1. CASE op[h].kind = "refresh"
        BY <1>1, <2>1, StaysAlone
           DEF SerialInv, Frames, NoWork, AfterOp, Mutating, Idle
    <2>2. CASE op[h].kind # "refresh"
        BY <1>1, <2>2, StaysAlone DEF SerialInv, Mutating, Idle
    <2>. QED BY <2>1, <2>2
<1>4. \A d \in Ids : /\ entries'[d] = None <=> entries[d] = None
                     /\ entries[d] # None => entries'[d].task = entries[d].task
    BY <1>1, UpdateStateFacts DEF EndRefresh, SerialInv, TypeInv
<1>. QED BY <1>1, <1>2, <1>3, <1>4, KeepsRegistered, WorkFacts DEF SerialInv

LEMMA PollSerial ==
    ASSUME SerialInv, TypeInv', NEW t \in Tasks, PollStep(t)
    PROVE  SerialInv'
<1>1. tasks[t] \in Poll /\ tasks[t] # None
    BY DEF PollStep, PollBegin, PollEnd, PollStop, SerialInv, TypeInv, TypeOK
<1>2. UNCHANGED <<hpc, op, queue>>
    BY DEF PollStep, PollBegin, PollEnd, PollStop
<1>3. \A u \in Tasks : tasks'[u] # None => tasks[u] # None /\ tasks'[u].id = tasks[u].id
    <2>1. /\ [tasks[t] EXCEPT !.pc = "fetching"].id = tasks[t].id
          /\ [tasks[t] EXCEPT !.pc = "sleeping"].id = tasks[t].id
        BY <1>1 DEF Poll
    <2>. QED BY <1>1, <2>1 DEF PollStep, PollBegin, PollEnd, PollStop, SerialInv,
                               TypeInv, TypeOK
<1>4. \A d \in Ids : /\ entries'[d] = None <=> entries[d] = None
                     /\ entries[d] # None => entries'[d].task = entries[d].task
    BY <1>1, UpdateStateFacts
       DEF PollStep, PollBegin, PollEnd, PollStop, SerialInv, TypeInv, Poll
<1>5. Frames' /\ OneMutator'
    BY <1>2 DEF SerialInv, Frames, OneMutator, Mutating, Idle
<1>. QED BY <1>2, <1>3, <1>4, <1>5, KeepsRegistered DEF SerialInv

LEMMA HandleSerial ==
    ASSUME SerialInv, TypeInv', NEW h \in Handlers, Handle(h)
    PROVE  SerialInv'
<1>1. ASSUME hpc[h] = "choosing" PROVE Mutating(h)
    BY <1>1 DEF SerialInv, Frames, NoOp, Mutating, Idle
<1>2. CASE StartRemove(h)
    <2>1. PICK d \in queue[h].removals :
              LET work == [queue[h] EXCEPT !.removals = @ \ {d}]
              IN  \/ AwaitOldPoll(h, "remove", d, None, work)
                  \/ ~LivePoll(d) /\ Forget(h, d, entries[d] # None, work)
        BY <1>2 DEF StartRemove
    <2>2. /\ hpc[h] = "choosing" /\ Mutating(h) /\ d \in Ids
          /\ [queue[h] EXCEPT !.removals = @ \ {d}] \in Work
        BY <1>1, <1>2 DEF StartRemove, SerialInv, TypeInv, TypeOK, Work
    <2>. QED BY <2>1, <2>2, AwaitSerial, ForgetSerial
<1>3. CASE StartApply(h)
    <2>1. PICK c \in queue[h].applies :
              LET work == [queue[h] EXCEPT !.applies = @ \ {c}]
              IN  \/ AwaitOldPoll(h, "apply", EntryId(c), c.host, work)
                  \/ /\ ~LivePoll(EntryId(c))
                     /\ Install(h, EntryId(c), c.host, entries[EntryId(c)] # None, work)
        BY <1>3 DEF StartApply
    <2>2. /\ hpc[h] = "choosing" /\ Mutating(h) /\ c \in Payload
          /\ [queue[h] EXCEPT !.applies = @ \ {c}] \in Work
        BY <1>1, <1>3 DEF StartApply, SerialInv, TypeInv, TypeOK, Work
    <2>3. EntryId(c) \in Ids /\ c.host \in Hosts
        BY <2>2, EntryIdType DEF Payload
    <2>. QED BY <2>1, <2>2, <2>3, AwaitSerial, InstallSerial
<1>4. CASE Resume(h)
    <2>1. /\ hpc[h] = "cancelling" /\ Mutating(h)
          /\ op[h].id \in Ids /\ (op[h].kind = "apply" => op[h].host \in Hosts)
          /\ queue[h] \in Work
        BY <1>4 DEF Resume, SerialInv, Frames, TypeInv, TypeOK, OpsTyped, Op, Mutating, Idle
    <2>2. ~LivePoll(op[h].id)
        BY <1>4, <2>1 DEF Resume, SerialInv, AwaitsOwn, LivePoll
    <2>3. CASE Forget(h, op[h].id, TRUE, queue[h])
        BY <2>1, <2>2, <2>3, ForgetSerial
    <2>4. CASE /\ op[h].kind = "apply"
               /\ Install(h, op[h].id, op[h].host, TRUE, queue[h])
        BY <2>1, <2>2, <2>4, InstallSerial
    <2>. QED BY <1>4, <2>3, <2>4 DEF Resume
<1>. QED BY <1>2, <1>3, <1>4, EndRefreshSerial DEF Handle

LEMMA SerialStep ==
    ASSUME Serial, SerialInv, [Next]_vars
    PROVE  SerialInv'
<1>1. TypeInv'
    BY TypeStep DEF SerialInv
<1>2. CASE UNCHANGED vars
    BY <1>1, <1>2 DEF vars, SerialInv, Frames, OneMutator, AwaitsOwn, PollsAreRegistered,
                      Mutating, Idle
<1>3. ASSUME NEW h \in Handlers, Request(h) PROVE SerialInv'
    BY <1>1, <1>3, AcceptSerial, RefreshRequestSerial
       DEF Request, ConfigRequest, DeconfigureRequest, SyncRequest
<1>4. CASE Next
    BY <1>1, <1>3, <1>4, HandleSerial, PollSerial DEF Next
<1>. QED BY <1>2, <1>4

LEMMA SerialInit == Init => SerialInv
    BY TypeInit, NoneAssumption
       DEF Init, SerialInv, Frames, OneMutator, AwaitsOwn, PollsAreRegistered, Mutating, Idle,
           NoOp, NoWork

\* When the requests that change the configuration come one at a time, every
\* poll loop that runs is the one of its device's entry: a device has at most
\* one and a deconfigured device none (routes.py:370-375, 400-414).
THEOREM SerialPolls ==
    ASSUME Serial
    PROVE  Spec => []PollsAreRegistered
<1>1. SerialInv /\ [Next]_vars => SerialInv'
    BY SerialStep
<1>2. SerialInv => PollsAreRegistered
    BY DEF SerialInv
<1>. QED BY <1>1, <1>2, SerialInit, PTL DEF Spec

----------------------------------------------------------------------------
(* A snapshot is worked through to its goal *)

\* The id handler h is about to remove, or to configure.
Removing(h) == IF hpc[h] = "cancelling" /\ op[h].kind = "remove" THEN {op[h].id} ELSE {}

Adding(h) == IF hpc[h] = "cancelling" /\ op[h].kind = "apply" THEN {op[h].id} ELSE {}

\* The ids of the registry once h has done what it still has to do.
Outcome(h) ==
    (ActiveIds \ (queue[h].removals \cup Removing(h)))
        \cup {EntryId(c) : c \in queue[h].applies} \cup Adding(h)

\* A snapshot in progress leads to its goal, and never removes what it asks
\* for, whichever order the coordinator works in.
OnCourse(h) ==
    queue[h].goal # None =>
        /\ Outcome(h) = queue[h].goal
        /\ queue[h].goal \cap (queue[h].removals \cup Removing(h)) = {}

SyncInv == SerialInv /\ \A h \in Handlers : OnCourse(h)

Reached ==
    \A h \in Handlers :
        queue[h].goal # None /\ hpc'[h] = "idle" => ActiveIds' = queue[h].goal

\* Only the handler that changes the registry has a goal.
LEMMA OneGoal ==
    ASSUME SerialInv
    PROVE  /\ \A g \in Handlers : queue[g].goal # None => Mutating(g)
           /\ \A g, h \in Handlers : Mutating(h) /\ g # h => queue[g].goal = None
<1>1. \A g \in Handlers : queue[g].goal # None => Mutating(g)
    BY DEF SerialInv, Frames, NoWork, Mutating, Idle
<1>. QED BY <1>1 DEF SerialInv, OneMutator

\* The step of the handler that changes the registry ...
LEMMA OwnStep ==
    ASSUME SerialInv, NEW h \in Handlers, Mutating(h),
           \A g \in Handlers \ {h} :
               hpc'[g] = hpc[g] /\ op'[g] = op[g] /\ queue'[g] = queue[g],
           OnCourse(h)',
           queue[h].goal # None /\ hpc'[h] = "idle" => ActiveIds' = queue[h].goal
    PROVE  (\A g \in Handlers : OnCourse(g)') /\ Reached
<1>1. \A g \in Handlers \ {h} : queue[g].goal = None
    BY OneGoal
<1>2. \A g \in Handlers \ {h} : OnCourse(g)'
    BY <1>1 DEF OnCourse
<1>3. Reached
    BY <1>1 DEF Reached
<1>. QED BY <1>2, <1>3

\* ... and one that leaves it, and the handler with a goal, alone.
LEMMA OtherStep ==
    ASSUME SyncInv,
           \A d \in Ids : entries'[d] = None <=> entries[d] = None,
           \A g \in Handlers :
               /\ queue'[g] = queue[g]
               /\ queue[g].goal # None => hpc'[g] = hpc[g] /\ op'[g] = op[g]
    PROVE  (\A g \in Handlers : OnCourse(g)') /\ Reached
<1>1. ActiveIds' = ActiveIds
    BY DEF ActiveIds
<1>2. ASSUME NEW g \in Handlers PROVE OnCourse(g)'
    <2>1. queue'[g] = queue[g] /\ OnCourse(g)
        BY DEF SyncInv
    <2>2. CASE queue[g].goal = None
        BY <2>1, <2>2 DEF OnCourse
    <2>3. CASE queue[g].goal # None
        <3>1. Removing(g)' = Removing(g) /\ Adding(g)' = Adding(g)
            BY <2>3 DEF Removing, Adding
        <3>. QED BY <1>1, <2>1, <3>1 DEF OnCourse, Outcome
    <2>. QED BY <2>2, <2>3
<1>3. Reached
    BY OneGoal DEF Reached, SyncInv, Mutating, Idle
<1>. QED BY <1>2, <1>3

\* A handler that has done one thing is on course if the rest of its work
\* leads to the goal.
LEMMA Finished ==
    ASSUME NEW h \in Handlers, NEW work \in Work,
           hpc'[h] = AfterOp(work), queue'[h] = Rest(work),
           work.goal # None =>
               /\ (ActiveIds' \ work.removals) \cup {EntryId(c) : c \in work.applies} = work.goal
               /\ work.goal \cap work.removals = {}
    PROVE  /\ OnCourse(h)'
           /\ work.goal # None /\ hpc'[h] = "idle" => ActiveIds' = work.goal
<1>1. Removing(h)' = {} /\ Adding(h)' = {}
    BY WorkFacts DEF Removing, Adding
<1>2. CASE AfterOp(work) = "idle"
    <2>1. queue'[h].goal = None
        BY <1>2 DEF Rest, NoWork
    <2>2. work.removals = {} /\ work.applies = {}
        BY <1>2 DEF AfterOp
    <2>3. {EntryId(c) : c \in work.applies} = {}
        BY <2>2
    <2>. QED BY <2>1, <2>2, <2>3 DEF OnCourse
<1>3. CASE AfterOp(work) = "choosing"
    <2>1. queue'[h] = work /\ hpc'[h] # "idle"
        BY <1>3 DEF Rest
    <2>. QED BY <1>1, <2>1 DEF OnCourse, Outcome
<1>. QED BY <1>2, <1>3, WorkFacts

LEMMA AcceptSync ==
    ASSUME Serial, SyncInv, NEW h \in Handlers, NEW work \in Work, Accept(h, work),
           work.goal # None =>
               /\ (ActiveIds \ work.removals) \cup {EntryId(c) : c \in work.applies} = work.goal
               /\ work.goal \cap work.removals = {}
    PROVE  (\A g \in Handlers : OnCourse(g)') /\ Reached
<1>1. /\ UNCHANGED entries
      /\ hpc'[h] = "choosing" /\ queue'[h] = work
      /\ \A g \in Handlers \ {h} : hpc'[g] = hpc[g] /\ queue'[g] = queue[g]
    BY DEF Accept, SyncInv, SerialInv, TypeInv, TypeOK
<1>2. \A g \in Handlers : queue[g].goal = None
    BY AcceptAlone, OneGoal DEF SyncInv
<1>3. OnCourse(h)'
    <2>1. Removing(h)' = {} /\ Adding(h)' = {} /\ ActiveIds' = ActiveIds
        BY <1>1 DEF Removing, Adding, ActiveIds
    <2>. QED BY <1>1, <2>1 DEF OnCourse, Outcome
<1>4. \A g \in Handlers \ {h} : OnCourse(g)'
    BY <1>1, <1>2 DEF OnCourse
<1>. QED BY <1>2, <1>3, <1>4 DEF Reached

\* What the coordinator computes from a snapshot leads to its ids.
LEMMA SnapshotCourse ==
    ASSUME NEW snapshot \in SUBSET Payload, \A c \in snapshot : Trim[c.id] = c.id
    PROVE  LET configs == {Normalize(c) : c \in snapshot}
               removals == Stale(ActiveIds, configs)
               goal == {EntryId(c) : c \in snapshot}
           IN  /\ (ActiveIds \ removals) \cup {EntryId(c) : c \in configs} = goal
               /\ goal \cap removals = {}
<1>. DEFINE configs == {Normalize(c) : c \in snapshot}
            goal == {EntryId(c) : c \in snapshot}
<1>1. \A c \in snapshot : Normalize(c).id = EntryId(c) /\ EntryId(Normalize(c)) = EntryId(c)
    BY DEF Payload, Normalize, EntryId
<1>2. {c.id : c \in configs} = goal
    BY <1>1
<1>3. {EntryId(c) : c \in configs} = goal
    BY <1>1
<1>. QED BY <1>2, <1>3 DEF Stale

LEMMA RequestSync ==
    ASSUME Serial, SyncInv, NEW h \in Handlers, Request(h)
    PROVE  (\A g \in Handlers : OnCourse(g)') /\ Reached
<1>1. ASSUME NEW c \in Configs, ConfigRequest(h, c)
      PROVE  (\A g \in Handlers : OnCourse(g)') /\ Reached
    <2>1. [removals |-> {}, applies |-> {c}, goal |-> None] \in Work
        BY ConfigsAssumption DEF Work
    <2>. QED BY <1>1, <2>1, AcceptSync DEF ConfigRequest
<1>2. ASSUME NEW d \in Ids, DeconfigureRequest(h, d)
      PROVE  (\A g \in Handlers : OnCourse(g)') /\ Reached
    <2>1. [removals |-> {d}, applies |-> {}, goal |-> None] \in Work
        BY DEF Work
    <2>. QED BY <1>2, <2>1, AcceptSync DEF DeconfigureRequest
<1>3. ASSUME NEW snapshot \in Snapshots, SyncRequest(h, snapshot)
      PROVE  (\A g \in Handlers : OnCourse(g)') /\ Reached
    <2>. DEFINE configs == {Normalize(c) : c \in snapshot}
                removals == Stale(ActiveIds, configs)
                goal == {EntryId(c) : c \in snapshot}
                work == [removals |-> removals, applies |-> configs, goal |-> goal]
    <2>1. snapshot \in SUBSET Payload
        BY SnapshotsAssumption, ConfigsAssumption
    <2>2. configs \subseteq Payload /\ goal \subseteq Ids /\ removals \subseteq Ids
        BY <2>1, EntryIdType DEF Stale, ActiveIds
    <2>3. work \in Work
        BY <2>2 DEF Work
    <2>4. Accept(h, work)
        BY <1>3 DEF SyncRequest
    <2>5. /\ (ActiveIds \ removals) \cup {EntryId(c) : c \in configs} = goal
          /\ goal \cap removals = {}
        BY <2>1, SnapshotCourse, SnapshotsAssumption
    <2>6. work.removals = removals /\ work.applies = configs /\ work.goal = goal
        OBVIOUS
    <2>. HIDE DEF work, configs, removals, goal
    <2>7. work.goal # None =>
              /\ (ActiveIds \ work.removals) \cup {EntryId(c) : c \in work.applies} = work.goal
              /\ work.goal \cap work.removals = {}
        BY <2>5, <2>6
    <2>. QED BY <2>3, <2>4, <2>7, AcceptSync
<1>4. ASSUME NEW d \in Ids, RefreshRequest(h, d)
      PROVE  (\A g \in Handlers : OnCourse(g)') /\ Reached
    <2>1. /\ UNCHANGED <<entries, queue>>
          /\ queue[h].goal = None
          /\ \A g \in Handlers \ {h} : hpc'[g] = hpc[g] /\ op'[g] = op[g]
        BY <1>4 DEF RefreshRequest, Idle, NoWork, SyncInv, SerialInv, Frames, TypeInv, TypeOK
    <2>. QED BY <2>1, OtherStep
<1>. QED BY <1>1, <1>2, <1>3, <1>4 DEF Request

LEMMA AwaitSync ==
    ASSUME SyncInv, NEW h \in Handlers, Mutating(h), NEW d \in Ids,
           NEW kind \in {"apply", "remove"}, NEW host, NEW work \in Work,
           hpc[h] = "choosing", AwaitOldPoll(h, kind, d, host, work),
           work.goal = queue[h].goal,
           work.goal # None =>
               LET out == IF kind = "remove" THEN {d} ELSE {}
                   in  == IF kind = "apply" THEN {d} ELSE {}
               IN  /\ (ActiveIds \ (work.removals \cup out))
                          \cup {EntryId(c) : c \in work.applies} \cup in = work.goal
                   /\ work.goal \cap (work.removals \cup out) = {}
    PROVE  (\A g \in Handlers : OnCourse(g)') /\ Reached
<1>1. /\ UNCHANGED entries
      /\ hpc'[h] = "cancelling" /\ op'[h].kind = kind /\ op'[h].id = d
      /\ queue'[h] = work
      /\ \A g \in Handlers \ {h} :
            hpc'[g] = hpc[g] /\ op'[g] = op[g] /\ queue'[g] = queue[g]
    BY DEF AwaitOldPoll, SyncInv, SerialInv, TypeInv, TypeOK
<1>2. /\ Removing(h)' = IF kind = "remove" THEN {d} ELSE {}
      /\ Adding(h)' = IF kind = "apply" THEN {d} ELSE {}
      /\ ActiveIds' = ActiveIds
    BY <1>1 DEF Removing, Adding, ActiveIds
<1>3. OnCourse(h)'
    BY <1>1, <1>2 DEF OnCourse, Outcome
<1>. QED BY <1>1, <1>3, OwnStep DEF SyncInv

LEMMA ForgetSync ==
    ASSUME SyncInv, NEW h \in Handlers, Mutating(h), NEW d \in Ids,
           NEW existed, NEW work \in Work, Forget(h, d, existed, work),
           work.goal = queue[h].goal,
           work.goal # None =>
               /\ (ActiveIds \ (work.removals \cup {d}))
                      \cup {EntryId(c) : c \in work.applies} = work.goal
               /\ work.goal \cap work.removals = {}
    PROVE  (\A g \in Handlers : OnCourse(g)') /\ Reached
<1>1. /\ hpc'[h] = AfterOp(work) /\ queue'[h] = Rest(work)
      /\ \A g \in Handlers \ {h} :
            hpc'[g] = hpc[g] /\ op'[g] = op[g] /\ queue'[g] = queue[g]
      /\ ActiveIds' = ActiveIds \ {d}
    BY DEF Forget, ActiveIds, SyncInv, SerialInv, TypeInv, TypeOK
<1>2. ActiveIds' \ work.removals = ActiveIds \ (work.removals \cup {d})
    BY <1>1
<1>3. /\ OnCourse(h)'
      /\ work.goal # None /\ hpc'[h] = "idle" => ActiveIds' = work.goal
    BY <1>1, <1>2, Finished
<1>. QED BY <1>1, <1>3, OwnStep DEF SyncInv

LEMMA InstallSync ==
    ASSUME SyncInv, NEW h \in Handlers, Mutating(h), NEW d \in Ids,
           NEW host \in Hosts, NEW existed, NEW work \in Work,
           Install(h, d, host, existed, work),
           work.goal = queue[h].goal,
           work.goal # None =>
               /\ ((ActiveIds \cup {d}) \ work.removals)
                      \cup {EntryId(c) : c \in work.applies} = work.goal
               /\ work.goal \cap work.removals = {}
    PROVE  (\A g \in Handlers : OnCourse(g)') /\ Reached
<1>1. PICK t \in Tasks : entries' = [entries EXCEPT ![d] = NewEntry(t, host)]
    BY DEF Install
<1>2. NewEntry(t, host) # None
    BY NewRecords, NoneAssumption
<1>3. ActiveIds' = ActiveIds \cup {d}
    BY <1>1, <1>2 DEF ActiveIds, SyncInv, SerialInv, TypeInv, TypeOK
<1>4. /\ hpc'[h] = "refreshing" /\ queue'[h] = work
      /\ \A g \in Handlers \ {h} :
            hpc'[g] = hpc[g] /\ op'[g] = op[g] /\ queue'[g] = queue[g]
    BY DEF Install, SyncInv, SerialInv, TypeInv, TypeOK
<1>5. Removing(h)' = {} /\ Adding(h)' = {}
    BY <1>4 DEF Removing, Adding
<1>6. OnCourse(h)'
    BY <1>3, <1>4, <1>5 DEF OnCourse, Outcome
<1>. QED BY <1>4, <1>6, OwnStep DEF SyncInv

LEMMA HandleSync ==
    ASSUME SyncInv, NEW h \in Handlers, Handle(h)
    PROVE  (\A g \in Handlers : OnCourse(g)') /\ Reached
<1>0. ASSUME hpc[h] = "choosing"
      PROVE  Mutating(h) /\ Removing(h) = {} /\ Adding(h) = {}
    BY <1>0 DEF SyncInv, SerialInv, Frames, NoOp, Mutating, Idle, Removing, Adding
<1>1. queue[h] \in Work /\ OnCourse(h)
    BY DEF SyncInv, SerialInv, TypeInv, TypeOK
<1>2. CASE StartRemove(h)
    <2>1. PICK d \in queue[h].removals :
              LET work == [queue[h] EXCEPT !.removals = @ \ {d}]
              IN  \/ AwaitOldPoll(h, "remove", d, None, work)
                  \/ ~LivePoll(d) /\ Forget(h, d, entries[d] # None, work)
        BY <1>2 DEF StartRemove
    <2>. DEFINE work == [queue[h] EXCEPT !.removals = @ \ {d}]
    <2>2. /\ hpc[h] = "choosing" /\ d \in Ids /\ work \in Work
          /\ work.goal = queue[h].goal /\ work.applies = queue[h].applies
          /\ work.removals = queue[h].removals \ {d}
        BY <1>1, <1>2 DEF StartRemove, Work
    <2>3. AwaitOldPoll(h, "remove", d, None, work) \/ Forget(h, d, entries[d] # None, work)
        BY <2>1
    <2>. HIDE DEF work
    <2>4. work.removals \cup {d} = queue[h].removals
        BY <2>2
    <2>5. work.goal # None =>
              /\ (ActiveIds \ (work.removals \cup {d}))
                     \cup {EntryId(c) : c \in work.applies} = work.goal
              /\ work.goal \cap (work.removals \cup {d}) = {}
        BY <1>0, <1>1, <2>2, <2>4 DEF OnCourse, Outcome
    <2>6. CASE AwaitOldPoll(h, "remove", d, None, work)
        BY <1>0, <2>2, <2>5, <2>6, AwaitSync
    <2>7. CASE Forget(h, d, entries[d] # None, work)
        BY <1>0, <2>2, <2>5, <2>7, ForgetSync
    <2>. QED BY <2>3, <2>6, <2>7
<1>3. CASE StartApply(h)
    <2>1. PICK c \in queue[h].applies :
              LET work == [queue[h] EXCEPT !.applies = @ \ {c}]
              IN  \/ AwaitOldPoll(h, "apply", EntryId(c), c.host, work)
                  \/ /\ ~LivePoll(EntryId(c))
                     /\ Install(h, EntryId(c), c.host, entries[EntryId(c)] # None, work)
        BY <1>3 DEF StartApply
    <2>. DEFINE work == [queue[h] EXCEPT !.applies = @ \ {c}]
                d == EntryId(c)
    <2>2. /\ hpc[h] = "choosing" /\ c \in Payload /\ work \in Work
          /\ work.goal = queue[h].goal /\ work.removals = queue[h].removals
          /\ work.applies = queue[h].applies \ {c}
        BY <1>1, <1>3 DEF StartApply, Work
    <2>3. d \in Ids /\ c.host \in Hosts
        BY <2>2, EntryIdType DEF Payload
    <2>4. \/ AwaitOldPoll(h, "apply", d, c.host, work)
          \/ Install(h, d, c.host, entries[d] # None, work)
        BY <2>1
    <2>5. {EntryId(x) : x \in queue[h].applies} = {EntryId(x) : x \in work.applies} \cup {d}
        BY <2>2
    <2>. HIDE DEF work, d
    <2>6. work.goal # None =>
              /\ (ActiveIds \ work.removals)
                     \cup {EntryId(x) : x \in work.applies} \cup {d} = work.goal
              /\ work.goal \cap work.removals = {}
        BY <1>0, <1>1, <2>2, <2>5 DEF OnCourse, Outcome
    <2>7. CASE AwaitOldPoll(h, "apply", d, c.host, work)
        BY <1>0, <2>2, <2>3, <2>6, <2>7, AwaitSync
    <2>8. CASE Install(h, d, c.host, entries[d] # None, work)
        <3>1. work.goal # None =>
                  ((ActiveIds \cup {d}) \ work.removals)
                      \cup {EntryId(x) : x \in work.applies} = work.goal
            BY <2>6
        <3>. QED BY <1>0, <2>2, <2>3, <2>6, <2>8, <3>1, InstallSync
    <2>. QED BY <2>4, <2>7, <2>8
<1>4. CASE Resume(h)
    <2>1. /\ hpc[h] = "cancelling" /\ Mutating(h)
          /\ op[h].id \in Ids /\ (op[h].kind = "apply" => op[h].host \in Hosts)
        BY <1>4 DEF Resume, SyncInv, SerialInv, Frames, TypeInv, OpsTyped, Op, Mutating, Idle
    <2>2. CASE op[h].kind = "remove" /\ Forget(h, op[h].id, TRUE, queue[h])
        <3>1. Removing(h) = {op[h].id} /\ Adding(h) = {}
            BY <2>1, <2>2 DEF Removing, Adding
        <3>2. queue[h].goal # None =>
                  /\ (ActiveIds \ (queue[h].removals \cup {op[h].id}))
                         \cup {EntryId(c) : c \in queue[h].applies} = queue[h].goal
                  /\ queue[h].goal \cap queue[h].removals = {}
            BY <1>1, <3>1 DEF OnCourse, Outcome
        <3>. QED BY <1>1, <2>1, <2>2, <3>2, ForgetSync
    <2>3. CASE op[h].kind = "apply" /\ Install(h, op[h].id, op[h].host, TRUE, queue[h])
        <3>1. Removing(h) = {} /\ Adding(h) = {op[h].id}
            BY <2>1, <2>3 DEF Removing, Adding
        <3>2. queue[h].goal # None =>
                  /\ (ActiveIds \ queue[h].removals)
                         \cup {EntryId(c) : c \in queue[h].applies} \cup {op[h].id}
                       = queue[h].goal
                  /\ queue[h].goal \cap queue[h].removals = {}
            BY <1>1, <3>1 DEF OnCourse, Outcome
        <3>3. queue[h].goal # None =>
                  ((ActiveIds \cup {op[h].id}) \ queue[h].removals)
                      \cup {EntryId(c) : c \in queue[h].applies} = queue[h].goal
            BY <3>2
        <3>. QED BY <1>1, <2>1, <2>3, <3>2, <3>3, InstallSync
    <2>. QED BY <1>4, <2>2, <2>3 DEF Resume
<1>5. CASE EndRefresh(h)
    <2>1. /\ hpc[h] = "refreshing"
          /\ hpc'[h] = AfterOp(queue[h]) /\ queue'[h] = Rest(queue[h])
          /\ op[h].id \in Ids /\ op[h].host \in Hosts
          /\ \A g \in Handlers \ {h} :
                hpc'[g] = hpc[g] /\ op'[g] = op[g] /\ queue'[g] = queue[g]
        BY <1>5 DEF EndRefresh, SyncInv, SerialInv, TypeInv, TypeOK, OpsTyped, Op
    <2>2. \A d \in Ids : entries'[d] = None <=> entries[d] = None
        BY <1>5, <2>1, UpdateStateFacts DEF EndRefresh, SyncInv, SerialInv, TypeInv
    <2>3. CASE op[h].kind = "refresh"
        <3>1. queue[h] = NoWork /\ queue'[h] = queue[h] /\ queue[h].goal = None
            <4>1. queue[h] = NoWork
                BY <2>3 DEF SyncInv, SerialInv, Frames
            <4>2. Rest(NoWork) = NoWork /\ NoWork.goal = None
                BY DEF Rest, AfterOp, NoWork
            <4>. QED BY <2>1, <4>1, <4>2
        <3>. QED BY <2>1, <2>2, <3>1, OtherStep
    <2>4. CASE op[h].kind # "refresh"
        <3>1. Mutating(h) /\ Removing(h) = {} /\ Adding(h) = {} /\ ActiveIds' = ActiveIds
            BY <2>1, <2>2, <2>4 DEF Mutating, Idle, Removing, Adding, ActiveIds
        <3>2. queue[h].goal # None =>
                  /\ (ActiveIds' \ queue[h].removals)
                         \cup {EntryId(c) : c \in queue[h].applies} = queue[h].goal
                  /\ queue[h].goal \cap queue[h].removals = {}
            BY <1>1, <3>1 DEF OnCourse, Outcome
        <3>3. /\ OnCourse(h)'
              /\ queue[h].goal # None /\ hpc'[h] = "idle" => ActiveIds' = queue[h].goal
            BY <1>1, <2>1, <3>2, Finished
        <3>. QED BY <2>1, <3>1, <3>3, OwnStep DEF SyncInv
    <2>. QED BY <2>3, <2>4
<1>. QED BY <1>2, <1>3, <1>4, <1>5 DEF Handle

LEMMA SyncStep ==
    ASSUME Serial, SyncInv, [Next]_vars
    PROVE  SyncInv' /\ Reached
<1>1. SerialInv'
    BY SerialStep DEF SyncInv
<1>2. CASE UNCHANGED vars
    BY <1>1, <1>2, OtherStep DEF vars, SyncInv
<1>3. ASSUME NEW t \in Tasks, PollStep(t)
      PROVE  (\A g \in Handlers : OnCourse(g)') /\ Reached
    <2>1. tasks[t] \in Poll /\ UNCHANGED <<hpc, op, queue>>
        BY <1>3 DEF PollStep, PollBegin, PollEnd, PollStop, SyncInv, SerialInv, TypeInv, TypeOK
    <2>2. \A d \in Ids : entries'[d] = None <=> entries[d] = None
        BY <1>3, <2>1, UpdateStateFacts
           DEF PollStep, PollBegin, PollEnd, PollStop, SyncInv, SerialInv, TypeInv, Poll
    <2>. QED BY <2>1, <2>2, OtherStep
<1>4. CASE Next
    BY <1>1, <1>3, <1>4, RequestSync, HandleSync DEF Next, SyncInv
<1>. QED BY <1>2, <1>4

\* When the requests that change the configuration come one at a time, a
\* snapshot that is answered has left exactly its ids in the registry,
\* whatever was there before, in whichever order its configurations were
\* worked through and whatever was refreshed meanwhile (routes.py:443-464).
THEOREM SerialSync ==
    ASSUME Serial
    PROVE  Spec => SyncReachesGoal
<1>1. Init => SyncInv
    BY SerialInit DEF Init, SyncInv, OnCourse, NoWork
<1>2. SyncInv /\ [Next]_vars => SyncInv'
    BY SyncStep
<1>3. SyncInv /\ [Next]_vars =>
          [\A h \in Handlers : queue[h].goal # None /\ hpc'[h] = "idle"
                                   => ActiveIds' = queue[h].goal]_vars
    BY SyncStep DEF Reached
<1>. QED BY <1>1, <1>2, <1>3, PTL DEF Spec, SyncReachesGoal

----------------------------------------------------------------------------
(* The state kept was read from the configured address *)

\* No request that only refreshes is in progress.
NoReaders == MaxReaders = 0

NobodyReads == \A h \in Handlers : ~Idle(h) => op[h].kind # "refresh"

\* The polls and the first reads in progress use the address of the entry.
OwnHosts ==
    /\ \A t \in Tasks : tasks[t] # None => entries[tasks[t].id].host = tasks[t].host
    /\ \A h \in Handlers :
          hpc[h] = "refreshing" /\ entries[op[h].id] # None
              => entries[op[h].id].host = op[h].host
    /\ StateFromOwnHost

HostInv == SerialInv /\ NobodyReads /\ OwnHosts

\* A reading from the address of the entry changes no address, and what it
\* stores is right.
LEMMA UpdateStateHosts ==
    ASSUME TypeOK, StateFromOwnHost, NEW d \in Ids, NEW host \in Hosts,
           entries[d] # None => entries[d].host = host
    PROVE  \A e \in Ids : entries[e] # None =>
               /\ UpdateState(d, host)[e].host = entries[e].host
               /\ UpdateState(d, host)[e].latest \in {None, entries[e].host}
<1>1. CASE entries[d] = None
    BY <1>1 DEF UpdateState, StateFromOwnHost, ActiveIds
<1>2. CASE entries[d] # None
    <2>1. /\ [entries[d] EXCEPT !.latest = host].host = entries[d].host
          /\ [entries[d] EXCEPT !.latest = host].latest = host
        BY <1>2 DEF TypeOK, Entry
    <2>2. UpdateState(d, host) = [entries EXCEPT ![d] = [entries[d] EXCEPT !.latest = host]]
        BY <1>2 DEF UpdateState
    <2>. QED BY <1>2, <2>1, <2>2 DEF TypeOK, StateFromOwnHost, ActiveIds
<1>. QED BY <1>1, <1>2

\* Nobody but the handler that changes the registry does anything.
LEMMA OthersIdle ==
    ASSUME HostInv, NEW h \in Handlers, Mutating(h)
    PROVE  \A g \in Handlers \ {h} : hpc[g] = "idle"
    BY DEF HostInv, NobodyReads, SerialInv, OneMutator, Mutating, Idle

LEMMA RequestHosts ==
    ASSUME Serial, NoReaders, HostInv, NEW h \in Handlers, Request(h)
    PROVE  NobodyReads' /\ OwnHosts'
<1>1. ~\E d \in Ids : RefreshRequest(h, d)
    <2>1. IsFiniteSet(Readers)
        BY FS_Subset DEF Readers, Serial
    <2>2. ~(Cardinality(Readers) < MaxReaders)
        BY <2>1, FS_CardinalityType DEF NoReaders
    <2>. QED BY <2>2 DEF RefreshRequest
<1>2. /\ UNCHANGED <<entries, tasks, op>>
      /\ hpc'[h] = "choosing" /\ op[h] = NoOp
      /\ \A g \in Handlers \ {h} : hpc'[g] = hpc[g]
    BY <1>1 DEF Request, ConfigRequest, DeconfigureRequest, SyncRequest, Accept, Idle,
                HostInv, SerialInv, Frames, TypeInv, TypeOK
<1>3. NobodyReads'
    BY <1>2 DEF HostInv, NobodyReads, NoOp, Idle
<1>4. OwnHosts'
    BY <1>2 DEF HostInv, OwnHosts, StateFromOwnHost, ActiveIds
<1>. QED BY <1>3, <1>4

LEMMA AwaitHosts ==
    ASSUME HostInv, NEW h \in Handlers, NEW d \in Ids, NEW kind \in {"apply", "remove"},
           NEW host, NEW work, AwaitOldPoll(h, kind, d, host, work)
    PROVE  NobodyReads' /\ OwnHosts'
<1>. DEFINE t == entries[d].task
<1>1. /\ t \in Tasks /\ tasks[t] \in Poll /\ UNCHANGED entries
      /\ tasks' = [tasks EXCEPT ![t] = [tasks[t] EXCEPT !.cancelled = TRUE]]
      /\ hpc'[h] = "cancelling" /\ op'[h].kind = kind
      /\ \A g \in Handlers \ {h} : hpc'[g] = hpc[g] /\ op'[g] = op[g]
    BY DEF AwaitOldPoll, LivePoll, HostInv, SerialInv, TypeInv, TypeOK, Entry
<1>2. /\ [tasks[t] EXCEPT !.cancelled = TRUE].id = tasks[t].id
      /\ [tasks[t] EXCEPT !.cancelled = TRUE].host = tasks[t].host
    BY <1>1 DEF Poll
<1>3. \A u \in Tasks : tasks'[u] # None =>
          tasks[u] # None /\ tasks'[u].id = tasks[u].id /\ tasks'[u].host = tasks[u].host
    BY <1>1, <1>2, NoneAssumption DEF HostInv, SerialInv, TypeInv, TypeOK
<1>4. NobodyReads'
    BY <1>1 DEF HostInv, NobodyReads, Idle
<1>5. OwnHosts'
    BY <1>1, <1>3 DEF HostInv, OwnHosts, StateFromOwnHost, ActiveIds
<1>. QED BY <1>4, <1>5

LEMMA ForgetHosts ==
    ASSUME HostInv, NEW h \in Handlers, Mutating(h), NEW d \in Ids, ~LivePoll(d),
           NEW existed, NEW work \in Work, Forget(h, d, existed, work)
    PROVE  NobodyReads' /\ OwnHosts'
<1>1. /\ entries'[d] = None
      /\ \A e \in Ids \ {d} : entries'[e] = entries[e]
      /\ UNCHANGED tasks
      /\ hpc'[h] = AfterOp(work) /\ op'[h] = NoOp
      /\ \A g \in Handlers \ {h} : hpc'[g] = "idle"
    BY OthersIdle DEF Forget, HostInv, SerialInv, TypeInv, TypeOK
<1>2. NobodyReads'
    BY <1>1 DEF NobodyReads, NoOp, Idle
<1>3. \A t \in Tasks : tasks[t] # None => tasks[t].id \in Ids \ {d}
    BY NoPollLeft DEF HostInv, SerialInv, TypeInv, TypeOK, Poll
<1>4. OwnHosts'
    BY <1>1, <1>3, WorkFacts DEF HostInv, OwnHosts, StateFromOwnHost, ActiveIds
<1>. QED BY <1>2, <1>4

LEMMA InstallHosts ==
    ASSUME HostInv, NEW h \in Handlers, Mutating(h), NEW d \in Ids, NEW host \in Hosts,
           ~LivePoll(d), NEW existed, NEW work, Install(h, d, host, existed, work)
    PROVE  NobodyReads' /\ OwnHosts'
<1>1. PICK t \in Tasks :
          /\ tasks' = [tasks EXCEPT ![t] = NewPoll(d, host)]
          /\ entries' = [entries EXCEPT ![d] = NewEntry(t, host)]
    BY DEF Install
<1>2. /\ entries'[d].host = host /\ entries'[d].latest = None
      /\ \A e \in Ids \ {d} : entries'[e] = entries[e]
      /\ tasks'[t].id = d /\ tasks'[t].host = host
      /\ \A u \in Tasks \ {t} : tasks'[u] = tasks[u]
    BY <1>1 DEF NewPoll, NewEntry, HostInv, SerialInv, TypeInv, TypeOK
<1>3. /\ op'[h].kind = "apply" /\ op'[h].id = d /\ op'[h].host = host
      /\ \A g \in Handlers \ {h} : hpc'[g] = "idle"
    BY OthersIdle DEF Install, HostInv, SerialInv, TypeInv, TypeOK
<1>4. NobodyReads'
    BY <1>3 DEF NobodyReads, Idle
<1>5. \A u \in Tasks : tasks[u] # None => tasks[u].id \in Ids \ {d}
    BY NoPollLeft DEF HostInv, SerialInv, TypeInv, TypeOK, Poll
<1>6. \A u \in Tasks : tasks'[u] # None => entries'[tasks'[u].id].host = tasks'[u].host
    BY <1>2, <1>5 DEF HostInv, OwnHosts
<1>7. StateFromOwnHost'
    BY <1>2 DEF HostInv, OwnHosts, StateFromOwnHost, ActiveIds
<1>8. \A g \in Handlers : hpc'[g] = "refreshing" => entries'[op'[g].id].host = op'[g].host
    BY <1>2, <1>3
<1>. QED BY <1>4, <1>6, <1>7, <1>8 DEF OwnHosts

\* A step that stores at most a reading from the address of its entry.
LEMMA ReadingHosts ==
    ASSUME HostInv, NEW d \in Ids, NEW host \in Hosts,
           entries[d] # None => entries[d].host = host,
           entries' = UpdateState(d, host) \/ UNCHANGED entries,
           \A t \in Tasks : tasks'[t] # None =>
               tasks[t] # None /\ tasks'[t].id = tasks[t].id /\ tasks'[t].host = tasks[t].host,
           \A g \in Handlers : hpc'[g] = "refreshing" => hpc[g] = "refreshing" /\ op'[g] = op[g]
    PROVE  OwnHosts'
<1>1. \A e \in Ids : /\ entries'[e] = None <=> entries[e] = None
                     /\ entries[e] # None =>
                            /\ entries'[e].host = entries[e].host
                            /\ entries'[e].latest \in {None, entries[e].host}
    BY UpdateStateFacts, UpdateStateHosts
       DEF HostInv, OwnHosts, SerialInv, TypeInv, StateFromOwnHost, ActiveIds
<1>2. \A t \in Tasks : tasks[t] # None => tasks[t].id \in Ids /\ entries[tasks[t].id] # None
    BY DEF HostInv, SerialInv, PollsAreRegistered, TypeInv, TypeOK, Poll
<1>3. \A g \in Handlers : hpc[g] = "refreshing" => op[g].id \in Ids
    BY DEF HostInv, SerialInv, TypeInv, OpsTyped, Op
<1>4. \A t \in Tasks : tasks'[t] # None => entries'[tasks'[t].id].host = tasks'[t].host
    BY <1>1, <1>2 DEF HostInv, OwnHosts
<1>5. \A g \in Handlers : hpc'[g] = "refreshing" /\ entries'[op'[g].id] # None
                              => entries'[op'[g].id].host = op'[g].host
    BY <1>1, <1>3 DEF HostInv, OwnHosts
<1>6. StateFromOwnHost'
    BY <1>1 DEF StateFromOwnHost, ActiveIds
<1>. QED BY <1>4, <1>5, <1>6 DEF OwnHosts

LEMMA HandleHosts ==
    ASSUME HostInv, NEW h \in Handlers, Handle(h)
    PROVE  NobodyReads' /\ OwnHosts'
<1>1. ASSUME hpc[h] = "choosing" PROVE Mutating(h)
    BY <1>1 DEF HostInv, SerialInv, Frames, NoOp, Mutating, Idle
<1>2. CASE StartRemove(h)
    <2>1. PICK d \in queue[h].removals :
              LET work == [queue[h] EXCEPT !.removals = @ \ {d}]
              IN  \/ AwaitOldPoll(h, "remove", d, None, work)
                  \/ ~LivePoll(d) /\ Forget(h, d, entries[d] # None, work)
        BY <1>2 DEF StartRemove
    <2>2. Mutating(h) /\ d \in Ids /\ [queue[h] EXCEPT !.removals = @ \ {d}] \in Work
        BY <1>1, <1>2 DEF StartRemove, HostInv, SerialInv, TypeInv, TypeOK, Work
    <2>. QED BY <2>1, <2>2, AwaitHosts, ForgetHosts
<1>3. CASE StartApply(h)
    <2>1. PICK c \in queue[h].applies :
              LET work == [queue[h] EXCEPT !.applies = @ \ {c}]
              IN  \/ AwaitOldPoll(h, "apply", EntryId(c), c.host, work)
                  \/ /\ ~LivePoll(EntryId(c))
                     /\ Install(h, EntryId(c), c.host, entries[EntryId(c)] # None, work)
        BY <1>3 DEF StartApply
    <2>2. Mutating(h) /\ EntryId(c) \in Ids /\ c.host \in Hosts
        BY <1>1, <1>3, EntryIdType
           DEF StartApply, HostInv, SerialInv, TypeInv, TypeOK, Work, Payload
    <2>. QED BY <2>1, <2>2, AwaitHosts, InstallHosts
<1>4. CASE Resume(h)
    <2>1. /\ hpc[h] = "cancelling" /\ Mutating(h)
          /\ op[h].id \in Ids /\ (op[h].kind = "apply" => op[h].host \in Hosts)
          /\ queue[h] \in Work
        BY <1>4 DEF Resume, HostInv, SerialInv, Frames, TypeInv, TypeOK, OpsTyped, Op,
                    Mutating, Idle
    <2>2. ~LivePoll(op[h].id)
        BY <1>4, <2>1 DEF Resume, HostInv, SerialInv, AwaitsOwn, LivePoll
    <2>. QED BY <1>4, <2>1, <2>2, ForgetHosts, InstallHosts DEF Resume
<1>5. CASE EndRefresh(h)
    <2>1. /\ hpc[h] = "refreshing" /\ UNCHANGED tasks
          /\ op[h].id \in Ids /\ op[h].host \in Hosts
          /\ hpc'[h] = AfterOp(queue[h]) /\ op'[h] = NoOp /\ queue[h] \in Work
          /\ \A g \in Handlers \ {h} : hpc'[g] = hpc[g] /\ op'[g] = op[g]
        BY <1>5 DEF EndRefresh, HostInv, SerialInv, TypeInv, TypeOK, OpsTyped, Op
    <2>2. NobodyReads'
        BY <2>1 DEF HostInv, NobodyReads, NoOp, Idle
    <2>3. entries' = UpdateState(op[h].id, op[h].host) \/ UNCHANGED entries
        BY <1>5 DEF EndRefresh
    <2>4. entries[op[h].id] # None => entries[op[h].id].host = op[h].host
        BY <2>1 DEF HostInv, OwnHosts
    <2>5. OwnHosts'
        BY <2>1, <2>3, <2>4, WorkFacts, ReadingHosts
    <2>. QED BY <2>2, <2>5
<1>. QED BY <1>2, <1>3, <1>4, <1>5 DEF Handle

LEMMA PollHosts ==
    ASSUME HostInv, NEW t \in Tasks, PollStep(t)
    PROVE  NobodyReads' /\ OwnHosts'
<1>1. tasks[t] \in Poll /\ tasks[t] # None /\ UNCHANGED <<hpc, op>>
    BY DEF PollStep, PollBegin, PollEnd, PollStop, HostInv, SerialInv, TypeInv, TypeOK
<1>2. NobodyReads'
    BY <1>1 DEF HostInv, NobodyReads, Idle
<1>3. entries' = UpdateState(tasks[t].id, tasks[t].host) \/ UNCHANGED entries
    BY DEF PollStep, PollBegin, PollEnd, PollStop
<1>4. /\ tasks[t].id \in Ids /\ tasks[t].host \in Hosts
      /\ entries[tasks[t].id].host = tasks[t].host
    BY <1>1 DEF HostInv, OwnHosts, Poll
<1>5. \A u \in Tasks : tasks'[u] # None =>
          tasks[u] # None /\ tasks'[u].id = tasks[u].id /\ tasks'[u].host = tasks[u].host
    <2>1. \A pc \in {"fetching", "sleeping"} :
              /\ [tasks[t] EXCEPT !.pc = pc].id = tasks[t].id
              /\ [tasks[t] EXCEPT !.pc = pc].host = tasks[t].host
        BY <1>1 DEF Poll
    <2>2. \A pc \in {"fetching", "sleeping"}, u \in Tasks :
              tasks' = [tasks EXCEPT ![t].pc = pc] /\ tasks'[u] # None =>
                  tasks[u] # None /\ tasks'[u].id = tasks[u].id /\ tasks'[u].host = tasks[u].host
        BY <1>1, <2>1 DEF HostInv, SerialInv, TypeInv, TypeOK
    <2>3. \A u \in Tasks : tasks' = [tasks EXCEPT ![t] = None] /\ tasks'[u] # None =>
              tasks'[u] = tasks[u]
        BY DEF HostInv, SerialInv, TypeInv, TypeOK
    <2>. QED BY <2>2, <2>3 DEF PollStep, PollBegin, PollEnd, PollStop
<1>6. OwnHosts'
    BY <1>1, <1>3, <1>4, <1>5, ReadingHosts
<1>. QED BY <1>2, <1>6

\* When the changing requests come one at a time and no request refreshes
\* meanwhile, the state kept for a device was read from its configured
\* address, never from the one it replaced (routes.py:210-213, 351-366).
THEOREM SerialState ==
    ASSUME Serial, NoReaders
    PROVE  Spec => []StateFromOwnHost
<1>1. Init => HostInv
    BY SerialInit DEF Init, HostInv, NobodyReads, OwnHosts, StateFromOwnHost, ActiveIds, Idle
<1>2. HostInv /\ [Next]_vars => HostInv'
    <2>. SUFFICES ASSUME HostInv, [Next]_vars PROVE HostInv'
        OBVIOUS
    <2>1. SerialInv'
        BY SerialStep DEF HostInv
    <2>2. CASE UNCHANGED vars
        BY <2>1, <2>2 DEF vars, HostInv, NobodyReads, OwnHosts, StateFromOwnHost, ActiveIds,
                          Idle
    <2>3. CASE Next
        BY <2>1, <2>3, RequestHosts, HandleHosts, PollHosts DEF Next, HostInv
    <2>. QED BY <2>2, <2>3
<1>3. HostInv => StateFromOwnHost
    BY DEF HostInv, OwnHosts
<1>. QED BY <1>1, <1>2, <1>3, PTL DEF Spec

----------------------------------------------------------------------------
(* Refinement: one device, one loop, one address *)

\* update_state changes the address of no entry.
LEMMA UpdateStateKeepsHost ==
    ASSUME TypeOK, NEW d \in Ids, NEW host \in Hosts, NEW e \in Ids, entries[e] # None
    PROVE  UpdateState(d, host)[e].host = entries[e].host
<1>1. CASE entries[d] = None
    BY <1>1 DEF UpdateState
<1>2. CASE entries[d] # None
    <2>1. [entries[d] EXCEPT !.latest = host].host = entries[d].host
        BY <1>2 DEF TypeOK, Entry
    <2>2. UpdateState(d, host) = [entries EXCEPT ![d] = [entries[d] EXCEPT !.latest = host]]
        BY <1>2 DEF UpdateState
    <2>. QED BY <2>1, <2>2 DEF TypeOK
<1>. QED BY <1>1, <1>2

\* A task that stays what it is for the mapping.
SameLoop(t) ==
    /\ tasks'[t] = None <=> tasks[t] = None
    /\ tasks[t] # None => tasks'[t].id = tasks[t].id /\ tasks'[t].host = tasks[t].host

\* An entry that stays what it is for the mapping.
SameConfig(d) ==
    /\ entries'[d] = None <=> entries[d] = None
    /\ entries[d] # None => entries'[d].host = entries[d].host

LEMMA SameConfigs ==
    ASSUME NEW d \in Ids, SameConfig(d)
    PROVE  ConfigOf(d)' = ConfigOf(d)
    BY DEF SameConfig, ConfigOf

LEMMA SameLoops ==
    ASSUME NEW d \in Ids, NEW S \in SUBSET Tasks,
           \A t \in Tasks \ S : SameLoop(t),
           \A t \in S : /\ tasks[t] # None => tasks[t].id # d
                        /\ tasks'[t] # None => tasks'[t].id # d
    PROVE  LoopsOf(d)' = LoopsOf(d)
<1>1. {u \in Tasks : tasks'[u] # None /\ tasks'[u].id = d}
          = {u \in Tasks : tasks[u] # None /\ tasks[u].id = d}
    BY DEF SameLoop
<1>2. \A t \in {u \in Tasks : tasks[u] # None /\ tasks[u].id = d} :
          tasks'[t].host = tasks[t].host
    BY DEF SameLoop
<1>. QED BY <1>1, <1>2 DEF LoopsOf

\* A step that the mapping does not see.
LEMMA Unseen ==
    ASSUME \A d \in Ids : SameConfig(d), \A t \in Tasks : SameLoop(t)
    PROVE  UNCHANGED Polling!vars
<1>1. \A d \in Ids : ConfigOf(d)' = ConfigOf(d)
    BY SameConfigs
<1>2. ASSUME NEW d \in Ids PROVE LoopsOf(d)' = LoopsOf(d)
    BY SameLoops, {} \in SUBSET Tasks
<1>. QED BY <1>1, <1>2 DEF Polling!vars

LEMMA AwaitUnseen ==
    ASSUME TypeInv, NEW h \in Handlers, NEW d \in Ids, NEW kind, NEW host, NEW work,
           AwaitOldPoll(h, kind, d, host, work)
    PROVE  UNCHANGED Polling!vars
<1>. DEFINE t == entries[d].task
<1>1. /\ t \in Tasks /\ tasks[t] \in Poll /\ UNCHANGED entries
      /\ tasks' = [tasks EXCEPT ![t] = [tasks[t] EXCEPT !.cancelled = TRUE]]
    BY DEF AwaitOldPoll, LivePoll, TypeInv, TypeOK, Entry
<1>2. /\ [tasks[t] EXCEPT !.cancelled = TRUE].id = tasks[t].id
      /\ [tasks[t] EXCEPT !.cancelled = TRUE].host = tasks[t].host
      /\ [tasks[t] EXCEPT !.cancelled = TRUE] \in Poll
    BY <1>1 DEF Poll
<1>3. \A u \in Tasks : SameLoop(u)
    BY <1>1, <1>2, NoneAssumption DEF SameLoop, TypeInv, TypeOK
<1>. QED BY <1>1, <1>3, Unseen DEF SameConfig

\* The tail of remove_device_config drops a device whose loop has ended.
LEMMA ForgetDrops ==
    ASSUME SerialInv, NEW h \in Handlers, NEW d \in Ids, ~LivePoll(d),
           NEW existed, NEW work, Forget(h, d, existed, work)
    PROVE  [Polling!Next]_(Polling!vars)
<1>1. /\ entries'[d] = None
      /\ \A e \in Ids \ {d} : entries'[e] = entries[e]
      /\ UNCHANGED tasks
    BY DEF Forget, SerialInv, TypeInv, TypeOK
<1>2. \A t \in Tasks : SameLoop(t)
    BY <1>1 DEF SameLoop
<1>3. CASE entries[d] = None
    <2>1. \A e \in Ids : SameConfig(e)
        BY <1>1, <1>3 DEF SameConfig
    <2>. QED BY <1>2, <2>1, Unseen
<1>4. CASE entries[d] # None
    <2>1. \A e \in Ids \ {d} : ConfigOf(e)' = ConfigOf(e)
        BY <1>1 DEF ConfigOf
    <2>2. ConfigOf(d) # None /\ ConfigOf(d)' = None
        BY <1>1, <1>4, NoneAssumption DEF ConfigOf, SerialInv, TypeInv, TypeOK, Entry
    <2>3. LoopsOf(d) = {}
        BY NoPollLeft DEF LoopsOf
    <2>4. ASSUME NEW e \in Ids PROVE LoopsOf(e)' = LoopsOf(e)
        BY <1>2, SameLoops, {} \in SUBSET Tasks
    <2>5. [e \in Ids |-> LoopsOf(e)]' = [e \in Ids |-> LoopsOf(e)]
        BY <2>4
    <2>6. [e \in Ids |-> ConfigOf(e)]' = [[e \in Ids |-> ConfigOf(e)] EXCEPT ![d] = None]
        <3>1. ASSUME NEW e \in Ids
              PROVE  ConfigOf(e)' = IF e = d THEN None ELSE ConfigOf(e)
            BY <2>1, <2>2
        <3>. QED BY <3>1
    <2>7. [e \in Ids |-> LoopsOf(e)][d] = {} /\ [e \in Ids |-> ConfigOf(e)][d] # None
        BY <2>2, <2>3
    <2>8. Polling!Drop(d)
        BY <2>5, <2>6, <2>7, Zenon DEF Polling!Drop
    <2>. QED BY <2>8 DEF Polling!Next
<1>. QED BY <1>3, <1>4

\* The tail of apply_device_config starts the one loop of a device.
LEMMA InstallStarts ==
    ASSUME SerialInv, NEW h \in Handlers, NEW d \in Ids, NEW host \in Hosts, ~LivePoll(d),
           NEW existed, NEW work, Install(h, d, host, existed, work)
    PROVE  Polling!Next
<1>1. PICK t \in Tasks :
          /\ Fresh(t)
          /\ tasks' = [tasks EXCEPT ![t] = NewPoll(d, host)]
          /\ entries' = [entries EXCEPT ![d] = NewEntry(t, host)]
    BY DEF Install
<1>2. /\ entries'[d] # None /\ entries'[d].host = host
      /\ \A e \in Ids \ {d} : entries'[e] = entries[e]
    BY <1>1, NewRecords, NoneAssumption DEF NewEntry, SerialInv, TypeInv, TypeOK
<1>3. /\ tasks[t] = None
      /\ tasks'[t] # None /\ tasks'[t].id = d /\ tasks'[t].host = host
      /\ \A u \in Tasks \ {t} : tasks'[u] = tasks[u]
    BY <1>1, NewRecords, NoneAssumption DEF Fresh, NewPoll, SerialInv, TypeInv, TypeOK
<1>4. ConfigOf(d)' = host /\ \A e \in Ids \ {d} : ConfigOf(e)' = ConfigOf(e)
    BY <1>2 DEF ConfigOf
<1>5. LoopsOf(d) = {}
    BY NoPollLeft DEF LoopsOf
<1>6. LoopsOf(d)' = {<<t, host>>}
    <2>1. {u \in Tasks : tasks'[u] # None /\ tasks'[u].id = d} = {t}
        BY <1>3, NoPollLeft
    <2>. QED BY <1>3, <2>1 DEF LoopsOf
<1>7. ASSUME NEW e \in Ids \ {d} PROVE LoopsOf(e)' = LoopsOf(e)
    <2>1. \A u \in Tasks \ {t} : SameLoop(u)
        BY <1>3 DEF SameLoop
    <2>. QED BY <1>3, <2>1, SameLoops, {t} \in SUBSET Tasks
<1>8. Polling!Start(d, host)
    BY <1>4, <1>5, <1>6, <1>7 DEF Polling!Start
<1>. QED BY <1>8 DEF Polling!Next

LEMMA HandleRefines ==
    ASSUME SerialInv, NEW h \in Handlers, Handle(h)
    PROVE  [Polling!Next]_(Polling!vars)
<1>1. CASE StartRemove(h)
    <2>1. PICK d \in queue[h].removals :
              LET work == [queue[h] EXCEPT !.removals = @ \ {d}]
              IN  \/ AwaitOldPoll(h, "remove", d, None, work)
                  \/ ~LivePoll(d) /\ Forget(h, d, entries[d] # None, work)
        BY <1>1 DEF StartRemove
    <2>2. d \in Ids
        BY DEF SerialInv, TypeInv, TypeOK, Work
    <2>. QED BY <2>1, <2>2, AwaitUnseen, ForgetDrops DEF SerialInv
<1>2. CASE StartApply(h)
    <2>1. PICK c \in queue[h].applies :
              LET work == [queue[h] EXCEPT !.applies = @ \ {c}]
              IN  \/ AwaitOldPoll(h, "apply", EntryId(c), c.host, work)
                  \/ /\ ~LivePoll(EntryId(c))
                     /\ Install(h, EntryId(c), c.host, entries[EntryId(c)] # None, work)
        BY <1>2 DEF StartApply
    <2>2. EntryId(c) \in Ids /\ c.host \in Hosts
        BY EntryIdType DEF SerialInv, TypeInv, TypeOK, Work, Payload
    <2>. QED BY <2>1, <2>2, AwaitUnseen, InstallStarts DEF SerialInv
<1>3. CASE Resume(h)
    <2>1. /\ hpc[h] = "cancelling"
          /\ op[h].id \in Ids /\ (op[h].kind = "apply" => op[h].host \in Hosts)
        BY <1>3 DEF Resume, SerialInv, TypeInv, OpsTyped, Op
    <2>2. ~LivePoll(op[h].id)
        BY <1>3, <2>1 DEF Resume, SerialInv, AwaitsOwn, LivePoll
    <2>. QED BY <1>3, <2>1, <2>2, ForgetDrops, InstallStarts DEF Resume
<1>4. CASE EndRefresh(h)
    <2>1. op[h].id \in Ids /\ op[h].host \in Hosts /\ UNCHANGED tasks
        BY <1>4 DEF EndRefresh, SerialInv, TypeInv, OpsTyped, Op
    <2>2. \A d \in Ids : SameConfig(d)
        BY <1>4, <2>1, UpdateStateFacts, UpdateStateKeepsHost
           DEF EndRefresh, SameConfig, SerialInv, TypeInv
    <2>. QED BY <2>1, <2>2, Unseen DEF SameLoop
<1>. QED BY <1>1, <1>2, <1>3, <1>4 DEF Handle

\* The loop of a device stops when its task sees the cancellation: it was the
\* only one.
LEMMA PollRefines ==
    ASSUME SerialInv, NEW t \in Tasks, PollStep(t)
    PROVE  [Polling!Next]_(Polling!vars)
<1>1. tasks[t] \in Poll /\ tasks[t] # None
    BY DEF PollStep, PollBegin, PollEnd, PollStop, SerialInv, TypeInv, TypeOK
<1>2. CASE PollStop(t)
    <2>0. PICK d \in Ids : d = tasks[t].id
        BY <1>1 DEF Poll
    <2>1. /\ UNCHANGED entries
          /\ tasks'[t] = None
          /\ \A u \in Tasks \ {t} : tasks'[u] = tasks[u]
        BY <1>2 DEF PollStop, SerialInv, TypeInv, TypeOK
    <2>2. LoopsOf(d) # {}
        BY <1>1, <2>0 DEF LoopsOf
    <2>3. LoopsOf(d)' = {}
        <3>1. \A u \in Tasks \ {t} : tasks[u] # None => tasks[u].id # d
            BY <1>1, <2>0 DEF SerialInv, PollsAreRegistered
        <3>. QED BY <2>1, <3>1 DEF LoopsOf
    <2>4. ASSUME NEW e \in Ids \ {d} PROVE LoopsOf(e)' = LoopsOf(e)
        <3>1. \A u \in Tasks \ {t} : SameLoop(u)
            BY <2>1 DEF SameLoop
        <3>. QED BY <2>0, <2>1, <3>1, SameLoops, {t} \in SUBSET Tasks
    <2>5. [e \in Ids |-> ConfigOf(e)]' = [e \in Ids |-> ConfigOf(e)]
        BY <2>1 DEF ConfigOf
    <2>6. Polling!Stop(d)
        BY <2>2, <2>3, <2>4, <2>5 DEF Polling!Stop
    <2>. QED BY <2>6 DEF Polling!Next
<1>3. CASE PollBegin(t) \/ PollEnd(t)
    <2>1. \A pc \in {"fetching", "sleeping"} :
              /\ [tasks[t] EXCEPT !.pc = pc].id = tasks[t].id
              /\ [tasks[t] EXCEPT !.pc = pc].host = tasks[t].host
              /\ [tasks[t] EXCEPT !.pc = pc] \in Poll
        BY <1>1 DEF Poll
    <2>2. \A pc \in {"fetching", "sleeping"}, u \in Tasks :
              tasks' = [tasks EXCEPT ![t].pc = pc] => SameLoop(u)
        BY <1>1, <2>1, NoneAssumption DEF SameLoop, SerialInv, TypeInv, TypeOK
    <2>3. \A u \in Tasks : SameLoop(u)
        BY <1>3, <2>2 DEF PollBegin, PollEnd
    <2>4. \A e \in Ids : SameConfig(e)
        BY <1>1, <1>3, UpdateStateFacts, UpdateStateKeepsHost
           DEF PollBegin, PollEnd, SameConfig, SerialInv, TypeInv, Poll
    <2>. QED BY <2>3, <2>4, Unseen
<1>. QED BY <1>2, <1>3 DEF PollStep

\* When the changing requests come one at a time, the runtime does to the
\* devices only what DevicePolling allows: stop a loop, start the one loop of
\* a device that has none, forget a device whose loop has ended
\* (routes.py:369-414).  This is the safety part of ImplementsDevicePolling.
THEOREM SerialRefines ==
    ASSUME Serial
    PROVE  Spec => Polling!Init /\ [][Polling!Next]_(Polling!vars)
<1>1. Init => Polling!Init
    BY DEF Init, Polling!Init, ConfigOf, LoopsOf
<1>2. SerialInv /\ [Next]_vars => SerialInv'
    BY SerialStep
<1>3. SerialInv /\ [Next]_vars => [Polling!Next]_(Polling!vars)
    <2>. SUFFICES ASSUME SerialInv, [Next]_vars PROVE [Polling!Next]_(Polling!vars)
        OBVIOUS
    <2>1. CASE UNCHANGED vars
        BY <2>1, Unseen DEF vars, SameConfig, SameLoop
    <2>2. ASSUME NEW h \in Handlers, Request(h) PROVE UNCHANGED Polling!vars
        <3>1. UNCHANGED <<entries, tasks>>
            BY <2>2 DEF Request, ConfigRequest, DeconfigureRequest, SyncRequest,
                        RefreshRequest, Accept
        <3>. QED BY <3>1, Unseen DEF SameConfig, SameLoop
    <2>3. CASE Next
        BY <2>2, <2>3, HandleRefines, PollRefines DEF Next
    <2>. QED BY <2>1, <2>3
<1>. QED BY <1>1, <1>2, <1>3, SerialInit, PTL DEF Spec

\* What DevicePolling promises about its loops follows from its steps alone.
LEMMA OneLoopStep ==
    ASSUME Polling!OneLoop, [Polling!Next]_(Polling!vars)
    PROVE  Polling!OneLoop'
<1>. DEFINE config == [d \in Ids |-> ConfigOf(d)]
            loops == [d \in Ids |-> LoopsOf(d)]
            configNext == config'
            loopsNext == loops'
<1>1. \A d \in Ids :
          \/ loops[d] = {}
          \/ config[d] \in Hosts /\ \E t \in Tasks : loops[d] = {<<t, config[d]>>}
    BY Zenon DEF Polling!OneLoop
<1>2. ASSUME NEW d \in Ids,
             \/ configNext[d] = config[d] /\ loopsNext[d] = loops[d]
             \/ loopsNext[d] = {}
             \/ /\ configNext[d] \in Hosts
                /\ \E t \in Tasks : loopsNext[d] = {<<t, configNext[d]>>}
      PROVE  \/ loopsNext[d] = {}
             \/ /\ configNext[d] \in Hosts
                /\ \E t \in Tasks : loopsNext[d] = {<<t, configNext[d]>>}
    BY <1>1, <1>2, Zenon
<1>3. ASSUME NEW d \in Ids
      PROVE  \/ configNext[d] = config[d] /\ loopsNext[d] = loops[d]
             \/ loopsNext[d] = {}
             \/ /\ configNext[d] \in Hosts
                /\ \E t \in Tasks : loopsNext[d] = {<<t, configNext[d]>>}
  <2>. DEFINE Done == \/ configNext[d] = config[d] /\ loopsNext[d] = loops[d]
                      \/ loopsNext[d] = {}
                      \/ /\ configNext[d] \in Hosts
                         /\ \E t \in Tasks : loopsNext[d] = {<<t, configNext[d]>>}
  <2>1. ASSUME NEW e \in Ids, Polling!Stop(e) PROVE Done
    <3>1. configNext = config /\ loopsNext = [loops EXCEPT ![e] = {}]
        BY <2>1, Zenon DEF Polling!Stop
    <3>. HIDE DEF configNext, loopsNext
    <3>. QED BY <3>1
  <2>2. ASSUME NEW e \in Ids, Polling!Drop(e) PROVE Done
    <3>1. loops[e] = {} /\ loopsNext = loops /\ configNext = [config EXCEPT ![e] = None]
        BY <2>2, Zenon DEF Polling!Drop
    <3>. HIDE DEF configNext, loopsNext
    <3>. QED BY <3>1
  <2>3. ASSUME NEW e \in Ids, NEW host \in Hosts, Polling!Start(e, host) PROVE Done
    <3>1. PICK t \in Tasks : /\ configNext = [config EXCEPT ![e] = host]
                             /\ loopsNext = [loops EXCEPT ![e] = {<<t, host>>}]
        BY <2>3, Zenon DEF Polling!Start
    <3>. HIDE DEF configNext, loopsNext
    <3>2. CASE d = e
      <4>1. configNext[d] = host /\ loopsNext[d] = {<<t, host>>}
          BY <3>1, <3>2
      <4>. QED BY <4>1
    <3>3. CASE d # e
        BY <3>1, <3>3
    <3>. QED BY <3>2, <3>3
  <2>4. CASE UNCHANGED Polling!vars
      BY <2>4, Zenon DEF Polling!vars
  <2>. QED BY <2>1, <2>2, <2>3, <2>4, Zenon DEF Polling!Next
<1>. QED BY <1>2, <1>3, Zenon DEF Polling!OneLoop

\* What a client that configures devices one at a time sees, carried over from
\* DevicePolling: a device has at most one poll loop, for the address it is
\* configured with, and a device that is not configured has none
\* (routes.py:369-414, README.md:102).
THEOREM SerialOneLoop ==
    ASSUME Serial
    PROVE  Spec => []Polling!OneLoop
<1>1. Polling!Init => Polling!OneLoop
    BY DEF Polling!Init, Polling!OneLoop
<1>2. Polling!OneLoop /\ [Polling!Next]_(Polling!vars) => Polling!OneLoop'
    BY OneLoopStep
<1>. QED BY <1>1, <1>2, SerialRefines, PTL
============================================================================
