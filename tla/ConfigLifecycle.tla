-------------------------- MODULE ConfigLifecycle --------------------------
(* The configuration lifecycle of the TP-Link runtime:                     *)
(* contract/config/routes.py on the registry of lib/store.py.              *)
(*                                                                         *)
(* Everything runs on one asyncio event loop: a coroutine is interrupted   *)
(* only where it awaits, so an action below is the code between two awaits *)
(* of one actor.  The actors are the poll tasks (one poll_device_state     *)
(* coroutine each) and the request handlers (/config, /deconfigure,        *)
(* /configs/sync, and the requests that call trigger_refresh).             *)
(*                                                                         *)
(* A reading is abstracted to the host it came from: what is read, and     *)
(* when, is the subject of StateFetch.                                     *)
EXTENDS Naturals, FiniteSets

CONSTANTS
    Ids,          \* configuration ids as they are written; keys of the registry
    Trim,         \* the id without the blanks around it: str.strip
    Hosts,        \* addresses a configuration may name
    Tasks,        \* identities of poll tasks, reused once forgotten
    Handlers,     \* requests that may be in progress at the same time
    Configs,      \* the TPLinkDeviceConfig payloads that may arrive
    Snapshots,    \* the RuntimeConfigSnapshot payloads that may arrive
    MaxMutators,  \* config, deconfigure and sync requests in progress at once
    MaxReaders,   \* refreshing requests in progress at once
    None          \* no entry, no state, no config_id, a task that is done

\* A value of the registry; latest is the host its latest_state was read from.
Entry == [task: Tasks, host: Hosts, latest: Hosts \cup {None}]

\* A poll task: the arguments of its coroutine and where that is suspended.
Poll == [pc: {"created", "fetching", "sleeping"}, cancelled: BOOLEAN,
         id: Ids, host: Hosts]

\* A TPLinkDeviceConfig.
Payload == [id: Ids, config_id: Ids \cup {None}, host: Hosts]

ASSUME TrimAssumption == Trim \in [Ids -> Ids]
ASSUME ConfigsAssumption == Configs \subseteq Payload
\* The id of a configuration in a snapshot carries no blanks; its config_id may.
ASSUME SnapshotsAssumption ==
    /\ Snapshots \subseteq SUBSET Configs
    /\ \A snapshot \in Snapshots : \A c \in snapshot : Trim[c.id] = c.id
ASSUME NoneAssumption ==
    /\ None \notin Ids
    /\ None \notin Hosts
    /\ None \notin Tasks
    /\ None \notin Entry
    /\ None \notin Poll

VARIABLES
    entries,    \* the registry: id -> entry, or None
    tasks,      \* the poll tasks: what each one does, or None when done
    hpc,        \* where each request handler is
    op,         \* the apply, remove or refresh a handler is performing
    queue,      \* what a handler still has to remove and to apply
    announced   \* the last configured / deconfigured event of an id

vars == <<entries, tasks, hpc, op, queue, announced>>

\* One call of apply_device_config, remove_device_config or trigger_refresh;
\* task is the old poll task it awaits, host the address it will read.
Op == [kind: {"apply", "remove", "refresh"}, id: Ids,
       host: Hosts \cup {None}, task: Tasks \cup {None}]

NoOp == [kind |-> "none"]

\* The rest of a request; goal is the set of ids a snapshot asks for.
Work == [removals: SUBSET Ids, applies: SUBSET Payload,
         goal: (SUBSET Ids) \cup {None}]

NoWork == [removals |-> {}, applies |-> {}, goal |-> None]

TypeOK ==
    /\ entries \in [Ids -> Entry \cup {None}]
    /\ tasks \in [Tasks -> Poll \cup {None}]
    /\ hpc \in [Handlers -> {"idle", "choosing", "cancelling", "refreshing"}]
    /\ op \in [Handlers -> Op \cup {NoOp}]
    /\ queue \in [Handlers -> Work]
    /\ announced \in [Ids -> BOOLEAN]

Init ==
    /\ entries = [d \in Ids |-> None]
    /\ tasks = [t \in Tasks |-> None]
    /\ hpc = [h \in Handlers |-> "idle"]
    /\ op = [h \in Handlers |-> NoOp]
    /\ queue = [h \in Handlers |-> NoWork]
    /\ announced = [d \in Ids |-> FALSE]

----------------------------------------------------------------------------
(* Helpers *)

ActiveIds == {d \in Ids : entries[d] # None}

\* Mutant: config_id alone names the entry.
EntryId_NoFallback(c) == IF c.config_id # None THEN Trim[c.config_id] ELSE None

\* _entry_id_for_config: config_id, or else id, without the blanks around it.
EntryId(c) == Trim[IF c.config_id # None THEN c.config_id ELSE c.id]

\* Mutant: the snapshot is handed to the coordinator as it came.
Normalize_Skipped(c) == c

\* _normalize_snapshot_config: id becomes the entry id.
Normalize(c) ==
    IF Trim[c.id] = EntryId(c) THEN c ELSE [c EXCEPT !.id = EntryId(c)]

\* The coordinator removes what is active and not in the snapshot.
Stale(active, configs) == active \ {c.id : c \in configs}

Idle(h) == hpc[h] = "idle"

Readers  == {h \in Handlers : ~Idle(h) /\ op[h].kind = "refresh"}
Mutators == {h \in Handlers : ~Idle(h)} \ Readers

\* A task nobody holds any more: its identity may be used again.
Fresh(t) ==
    /\ tasks[t] = None
    /\ \A d \in Ids : entries[d] # None => entries[d].task # t
    /\ \A h \in Handlers : hpc[h] = "cancelling" => op[h].task # t

\* start_device_poll_task: the coroutine is created, and has not run yet.
NewPoll(d, host) ==
    [pc |-> "created", cancelled |-> FALSE, id |-> d, host |-> host]

\* registry.set: nothing has been read yet, whatever the old entry knew.
NewEntry(t, host) == [task |-> t, host |-> host, latest |-> None]

\* registry.update_state: entries that are gone are not brought back.
UpdateState(d, host) ==
    IF entries[d] = None THEN entries
    ELSE [entries EXCEPT ![d].latest = host]

\* A request that has nothing left to do is answered.
AfterOp(work) ==
    IF work.removals = {} /\ work.applies = {} THEN "idle" ELSE "choosing"

Rest(work) == IF AfterOp(work) = "idle" THEN NoWork ELSE work

----------------------------------------------------------------------------
(* Requests arrive *)

Accept(h, work) ==
    /\ Idle(h)
    /\ Cardinality(Mutators) < MaxMutators
    /\ hpc' = [hpc EXCEPT ![h] = "choosing"]
    /\ queue' = [queue EXCEPT ![h] = work]
    /\ UNCHANGED <<entries, tasks, op, announced>>

\* POST /config.
ConfigRequest(h, c) ==
    Accept(h, [removals |-> {}, applies |-> {c}, goal |-> None])

\* POST /deconfigure: the key is payload.config["id"] as it is written.
DeconfigureRequest(h, d) ==
    Accept(h, [removals |-> {d}, applies |-> {}, goal |-> None])

\* POST /configs/sync and /config/sync: the active ids are read here, before
\* the first await.
SyncRequest(h, snapshot) ==
    LET configs == {Normalize(c) : c \in snapshot}
        removals == Stale(ActiveIds, configs)
    IN  /\ removals # {} \/ configs # {}
        /\ Accept(h, [removals |-> removals, applies |-> configs,
                      goal |-> {EntryId(c) : c \in snapshot}])

\* trigger_refresh from a state or command request; 404 when not configured.
RefreshRequest(h, d) ==
    /\ Idle(h)
    /\ Cardinality(Readers) < MaxReaders
    /\ entries[d] # None
    /\ hpc' = [hpc EXCEPT ![h] = "refreshing"]
    /\ op' = [op EXCEPT ![h] = [kind |-> "refresh", id |-> d,
                                host |-> entries[d].host, task |-> None]]
    /\ UNCHANGED <<entries, tasks, queue, announced>>

----------------------------------------------------------------------------
(* remove_device_config and apply_device_config *)

\* Mutant: the test of done() is the wrong way round.
LivePoll_Inverted(d) == entries[d] # None /\ tasks[entries[d].task] = None

\* existing_poll.get("task") and not existing_poll["task"].done()
LivePoll(d) == entries[d] # None /\ tasks[entries[d].task] # None

\* Emitted for the entry captured before the await, still present or not.
DeconfiguredEvent(d, existed) ==
    IF existed THEN [announced EXCEPT ![d] = FALSE] ELSE announced

\* Mutant: the event names the device of the payload, configured or not.
ConfiguredEvent_Always(d) == [announced EXCEPT ![d] = TRUE]

\* Emitted for the entry re-read after the refresh; an event for {} names
\* no device.
ConfiguredEvent(d) ==
    IF entries[d] # None THEN [announced EXCEPT ![d] = TRUE] ELSE announced

\* Cancel the old poll task and suspend until it is done.
AwaitOldPoll(h, kind, d, host, work) ==
    /\ LivePoll(d)
    /\ tasks' = [tasks EXCEPT ![entries[d].task].cancelled = TRUE]
    /\ hpc' = [hpc EXCEPT ![h] = "cancelling"]
    /\ op' = [op EXCEPT ![h] = [kind |-> kind, id |-> d, host |-> host,
                                task |-> entries[d].task]]
    /\ queue' = [queue EXCEPT ![h] = work]
    /\ UNCHANGED <<entries, announced>>

\* The tail of remove_device_config as an operation of its own:
\* registry.remove(device_id), whatever entry is there by now.
Forget(h, d, existed, work) ==
    /\ entries' = [entries EXCEPT ![d] = None]
    /\ announced' = DeconfiguredEvent(d, existed)
    /\ hpc' = [hpc EXCEPT ![h] = AfterOp(work)]
    /\ op' = [op EXCEPT ![h] = NoOp]
    /\ queue' = [queue EXCEPT ![h] = Rest(work)]
    /\ UNCHANGED tasks

\* The same tail inside apply_device_config, and on from there to the first
\* await of trigger_refresh: a new task, a new entry, a read under way.
Install(h, d, host, existed, work) ==
    \E t \in Tasks :
        /\ Fresh(t)
        /\ tasks' = [tasks EXCEPT ![t] = NewPoll(d, host)]
        /\ entries' = [entries EXCEPT ![d] = NewEntry(t, host)]
        /\ announced' = DeconfiguredEvent(d, existed)
        /\ hpc' = [hpc EXCEPT ![h] = "refreshing"]
        /\ op' = [op EXCEPT ![h] = [kind |-> "apply", id |-> d,
                                    host |-> host, task |-> None]]
        /\ queue' = [queue EXCEPT ![h] = work]

\* The handler calls remove_device_config for one of its ids ...
StartRemove(h) ==
    /\ hpc[h] = "choosing"
    /\ \E d \in queue[h].removals :
        LET work == [queue[h] EXCEPT !.removals = @ \ {d}]
        IN  \/ AwaitOldPoll(h, "remove", d, None, work)
            \/ /\ ~LivePoll(d)
               /\ Forget(h, d, entries[d] # None, work)

\* ... or apply_device_config for one of its configurations.
StartApply(h) ==
    /\ hpc[h] = "choosing"
    /\ \E c \in queue[h].applies :
        LET work == [queue[h] EXCEPT !.applies = @ \ {c}]
            d    == EntryId(c)
        IN  \/ AwaitOldPoll(h, "apply", d, c.host, work)
            \/ /\ ~LivePoll(d)
               /\ Install(h, d, c.host, entries[d] # None, work)

\* The old task is done: its awaiter goes on.
Resume(h) ==
    /\ hpc[h] = "cancelling"
    /\ tasks[op[h].task] = None
    /\ \/ /\ op[h].kind = "remove"
          /\ Forget(h, op[h].id, TRUE, queue[h])
       \/ /\ op[h].kind = "apply"
          /\ Install(h, op[h].id, op[h].host, TRUE, queue[h])

\* trigger_refresh returns, having stored the reading or having failed, and
\* apply_device_config announces the device.
EndRefresh(h) ==
    /\ hpc[h] = "refreshing"
    /\ \/ entries' = UpdateState(op[h].id, op[h].host)
       \/ UNCHANGED entries
    /\ announced' = IF op[h].kind = "apply" THEN ConfiguredEvent(op[h].id)
                                            ELSE announced
    /\ hpc' = [hpc EXCEPT ![h] = AfterOp(queue[h])]
    /\ op' = [op EXCEPT ![h] = NoOp]
    /\ queue' = [queue EXCEPT ![h] = Rest(queue[h])]
    /\ UNCHANGED tasks

----------------------------------------------------------------------------
(* poll_device_state *)

\* First step of the coroutine, or back from asyncio.sleep.
PollBegin(t) ==
    /\ tasks[t] # None
    /\ tasks[t].pc # "fetching"
    /\ ~tasks[t].cancelled
    /\ tasks' = [tasks EXCEPT ![t].pc = "fetching"]
    /\ UNCHANGED <<entries, hpc, op, queue, announced>>

\* Mutant: a failed read ends the loop.
PollEnd_Fatal(t) ==
    /\ tasks[t] # None
    /\ tasks[t].pc = "fetching"
    /\ ~tasks[t].cancelled
    /\ \/ /\ tasks' = [tasks EXCEPT ![t].pc = "sleeping"]
          /\ entries' = UpdateState(tasks[t].id, tasks[t].host)
       \/ /\ tasks' = [tasks EXCEPT ![t] = None]
          /\ UNCHANGED entries
    /\ UNCHANGED <<hpc, op, queue, announced>>

\* fetch_and_store_state returned, or raised and was logged.
PollEnd(t) ==
    /\ tasks[t] # None
    /\ tasks[t].pc = "fetching"
    /\ ~tasks[t].cancelled
    /\ tasks' = [tasks EXCEPT ![t].pc = "sleeping"]
    /\ \/ entries' = UpdateState(tasks[t].id, tasks[t].host)
       \/ UNCHANGED entries
    /\ UNCHANGED <<hpc, op, queue, announced>>

\* Mutant: CancelledError is handled like every other exception.
PollStop_Swallowed(t) ==
    /\ tasks[t] # None
    /\ tasks[t].cancelled
    /\ tasks' = [tasks EXCEPT ![t].pc = "sleeping", ![t].cancelled = FALSE]
    /\ UNCHANGED <<entries, hpc, op, queue, announced>>

\* CancelledError is the next thing a cancelled task sees, wherever it is
\* suspended, and it is re-raised.
PollStop(t) ==
    /\ tasks[t] # None
    /\ tasks[t].cancelled
    /\ tasks' = [tasks EXCEPT ![t] = None]
    /\ UNCHANGED <<entries, hpc, op, queue, announced>>

----------------------------------------------------------------------------

Request(h) ==
    \/ \E c \in Configs : ConfigRequest(h, c)
    \/ \E d \in Ids : DeconfigureRequest(h, d)
    \/ \E snapshot \in Snapshots : SyncRequest(h, snapshot)
    \/ \E d \in Ids : RefreshRequest(h, d)

Handle(h) == StartRemove(h) \/ StartApply(h) \/ Resume(h) \/ EndRefresh(h)

PollStep(t) == PollBegin(t) \/ PollEnd(t) \/ PollStop(t)

Next ==
    \/ \E h \in Handlers : Request(h) \/ Handle(h)
    \/ \E t \in Tasks : PollStep(t)

\* The event loop runs every ready coroutine, a sleep ends, and python-kasa
\* bounds every read by its timeout.
Fairness ==
    /\ \A h \in Handlers : WF_vars(Handle(h))
    /\ \A t \in Tasks : WF_vars(PollStep(t))

Spec == Init /\ [][Next]_vars /\ Fairness

----------------------------------------------------------------------------
(* Properties *)

\* Handlers that await the cancellation of task t on behalf of id d.
Replacing(d, t) ==
    {h \in Handlers : hpc[h] = "cancelling" /\ op[h].id = d /\ op[h].task = t}

\* Handlers that have installed an entry for id d and await its first read.
Applying(d) ==
    {h \in Handlers : hpc[h] = "refreshing" /\ op[h].kind = "apply" /\ op[h].id = d}

\* However requests interleave, a configured device is being polled: the task
\* in its entry (routes.py:404-414) is alive and will go on, unless a handler
\* has cancelled it and is about to replace or remove the entry.
ConfiguredImpliesPolled ==
    \A d \in ActiveIds :
        LET t == entries[d].task
        IN  \/ tasks[t] # None /\ ~tasks[t].cancelled
            \/ Replacing(d, t) # {}

\* What a suspended handler keeps in its frame.
OpsTyped ==
    \A h \in Handlers :
        /\ hpc[h] = "cancelling" =>
              /\ op[h] \in Op
              /\ op[h].task \in Tasks
              /\ op[h].kind = "apply" => op[h].host \in Hosts
        /\ hpc[h] = "refreshing" =>
              /\ op[h] \in Op
              /\ op[h].host \in Hosts

\* No two entries share a poll task.
DistinctTasks ==
    \A d, e \in ActiveIds : entries[d].task = entries[e].task => d = e

\* ConfiguredImpliesPolled, strengthened until every step preserves it.
PolledInv == TypeOK /\ OpsTyped /\ DistinctTasks /\ ConfiguredImpliesPolled

\* The last device.configured / device.deconfigured event that named a device
\* tells whether it is in the registry, except that the event of an apply in
\* progress is still to come (routes.py:379-388, 424-434).
EventsAgree ==
    \A d \in Ids :
        \/ announced[d] <=> entries[d] # None
        \/ ~announced[d] /\ Applying(d) # {}

\* Every poll task that still runs is the one its device's entry names, so a
\* device has at most one poll loop and a deconfigured device has none
\* (routes.py:370-375; README.md:102 "polled on a background loop").
PollsAreRegistered ==
    \A t \in {u \in Tasks : tasks[u] # None} :
        /\ entries[tasks[t].id] # None
        /\ entries[tasks[t].id].task = t

\* The state kept for a configuration was read from the address of that
\* configuration, not from the one it replaced (routes.py:210-213).
StateFromOwnHost ==
    \A d \in ActiveIds : entries[d].latest \in {None, entries[d].host}

\* When a snapshot that nothing interferes with has been worked through, the
\* registry holds exactly the ids of the snapshot (routes.py:443-464).
SyncReachesGoal ==
    [][\A h \in Handlers :
          queue[h].goal # None /\ hpc'[h] = "idle"
              => ActiveIds' = queue[h].goal]_vars

\* The task that a handler awaits is done, or will see its cancellation next,
\* and the handler knows what to do then.
WaitEnds(h) ==
    hpc[h] = "cancelling" =>
        /\ op[h].kind \in {"apply", "remove"}
        /\ tasks[op[h].task] = None \/ tasks[op[h].task].cancelled

\* However many handlers wait for the same or for different poll tasks, none
\* waits in vain: what it awaits has ended or is about to, whatever the loop
\* and the requests that await it too have done since (routes.py:361-376).
WaitsEnd == \A h \in Handlers : WaitEnds(h)

\* A request that is alone is answered: the cancellation it awaits is always
\* delivered (routes.py:361-376) and all its removals and applies come to an
\* end.
RequestsAnswered == \A h \in Handlers : ~Idle(h) ~> Idle(h)

\* A device that stays configured is read again and again, whatever reads
\* fail (routes.py:351-366).
PolledForever ==
    \A d \in Ids :
        []<>(\/ entries[d] = None
             \/ \E h \in Handlers : ~Idle(h) /\ op[h].kind # "refresh"
             \/ /\ tasks[entries[d].task] # None
                /\ tasks[entries[d].task].pc = "fetching")
============================================================================
