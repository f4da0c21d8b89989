--------------------------- MODULE DeviceRequests ---------------------------
(* The requests for a configured device: /command of                       *)
(* contract/command/router.py and /state of contract/state/router.py, with *)
(* run_command_for_device and trigger_refresh of contract/config/routes.py *)
(* between their awaits, while devices are reconfigured and removed.       *)
(*                                                                         *)
(* What the configuration lifecycle does around them is its abstract       *)
(* specification DevicePolling.  A command is one that writes, one that    *)
(* only reads, one that is refused, or one that the client refuses only    *)
(* after its first write: set_hue_saturation with a saturation that is no  *)
(* number (kasa_client.py:724-725).  A device's version counts the         *)
(* commands that wrote to it.                                              *)
EXTENDS Naturals

CONSTANTS
    Ids, Hosts, Tasks, \* as in DevicePolling
    Requests,     \* callers, with one request at a time
    MaxAsks,      \* bound on the requests made
    MaxChanges,   \* bound on the steps of the configuration
    MaxFailures,  \* bound on reads and commands that a device fails
    None

ASSUME BoundsAssumption == MaxAsks \in Nat /\ MaxChanges \in Nat /\ MaxFailures \in Nat

VARIABLES
    config,   \* the host in the registry entry of each id, or None
    loops,    \* the poll loops of each id
    changes,  \* how many steps the configuration has made
    version,  \* how often each device has been written to
    stored,   \* registry.state_snapshots: the last reading of each id
    pc,       \* the await each request is at, or its answer
    job,      \* what was asked
    target,   \* the id that was asked about
    cur,      \* the id that trigger_refresh is at
    todo,     \* the ids that a refresh of all has still to visit
    host,     \* the host in the entry that was looked up
    answer,   \* what is answered
    wrote,    \* history: the reading right after the command's write
    event,    \* history: the event scheduled for the command
    broken,   \* history: the device failed the request
    steady,   \* history: the ids configured, and not replaced, all the time
    moved,    \* history: an entry was replaced or removed meanwhile
    visited,  \* history: the ids this request has stored a reading of
    asks,     \* how many requests were made
    failures  \* how often a device has failed

configVars == <<config, loops, changes>>
frameVars  == <<job, target, host>>
histVars   == <<wrote, event, broken, steady, moved, visited>>
countVars  == <<asks, failures>>
vars == <<configVars, version, stored, pc, frameVars, cur, todo, answer, histVars, countVars>>

Polling == INSTANCE DevicePolling

Commands == {"write", "read", "refused", "half"}
Views    == {"show", "refresh_all", "bad_view"}
\* What the client or the state service refuses for its arguments.
Faulty   == {"refused", "half", "bad_view"}
Reading  == [host : Hosts, version : Nat]
Answer   == [status : {200, 400, 404}, state : Reading \cup {None},
             refreshed : BOOLEAN]

ASSUME NoneAssumption ==
    None \notin Ids /\ None \notin Hosts /\ None \notin Reading /\ None \notin Answer

TypeOK ==
    /\ config \in [Ids -> Hosts \cup {None}]
    /\ loops \in [Ids -> SUBSET (Tasks \X Hosts)]
    /\ changes \in 0..MaxChanges
    /\ version \in [Hosts -> Nat]
    /\ stored \in [Ids -> Reading \cup {None}]
    /\ pc \in [Requests -> {"idle", "commanding", "refreshing", "answered"}]
    /\ job \in [Requests -> Commands \cup Views]
    /\ target \in [Requests -> Ids \cup {None}]
    /\ cur \in [Requests -> Ids \cup {None}]
    /\ todo \in [Requests -> SUBSET Ids]
    /\ host \in [Requests -> Hosts \cup {None}]
    /\ answer \in [Requests -> Answer \cup {None}]
    /\ wrote \in [Requests -> Reading \cup {None}]
    /\ event \in [Requests -> {"none", "executed", "failed"}]
    /\ broken \in [Requests -> BOOLEAN]
    /\ steady \in [Requests -> SUBSET Ids]
    /\ moved \in [Requests -> BOOLEAN]
    /\ visited \in [Requests -> SUBSET Ids]
    /\ asks \in 0..MaxAsks
    /\ failures \in 0..MaxFailures

Init ==
    /\ Polling!Init
    /\ changes = 0
    /\ version = [h \in Hosts |-> 0]
    /\ stored = [d \in Ids |-> None]
    /\ pc = [r \in Requests |-> "idle"]
    /\ job = [r \in Requests |-> "show"]
    /\ target = [r \in Requests |-> None]
    /\ cur = [r \in Requests |-> None]
    /\ todo = [r \in Requests |-> {}]
    /\ host = [r \in Requests |-> None]
    /\ answer = [r \in Requests |-> None]
    /\ wrote = [r \in Requests |-> None]
    /\ event = [r \in Requests |-> "none"]
    /\ broken = [r \in Requests |-> FALSE]
    /\ steady = [r \in Requests |-> {}]
    /\ moved = [r \in Requests |-> FALSE]
    /\ visited = [r \in Requests |-> {}]
    /\ asks = 0
    /\ failures = 0

Configured == {d \in Ids : config[d] # None}
Active(r)  == pc[r] \in {"commanding", "refreshing"}

----------------------------------------------------------------------------
(* Around the requests *)

\* An entry that this step of the configuration replaces or removes.
Replaced(d) == config'[d] # config[d] \/ (loops[d] = {} /\ loops'[d] # {})

\* The lifecycle takes a step; a new entry has no state.
Configure ==
    /\ changes < MaxChanges
    /\ Polling!Next
    /\ changes' = changes + 1
    /\ stored' = [d \in Ids |-> IF Replaced(d) THEN None ELSE stored[d]]
    /\ steady' = [r \in Requests |->
                     IF Active(r) THEN {d \in steady[r] : ~Replaced(d)} ELSE steady[r]]
    /\ moved' = [r \in Requests |->
                     moved[r] \/ (Active(r) /\ \E d \in Ids : Replaced(d))]
    /\ UNCHANGED <<version, pc, frameVars, cur, todo, answer, wrote, event, broken,
                   visited, countVars>>

\* What device.update() returns now.
Sample(h) == [host |-> h, version |-> version[h]]

\* Mutant: only a state that is known already is updated.
UpdateState_Known(d, reading) ==
    IF stored[d] = None THEN stored ELSE [stored EXCEPT ![d] = reading]

\* update_device_state: an entry that is gone is not brought back.
UpdateState(d, reading) ==
    IF config[d] = None THEN stored ELSE [stored EXCEPT ![d] = reading]

\* A poll loop stores a reading.
Poll(d, h) ==
    /\ \E t \in Tasks : <<t, h>> \in loops[d]
    /\ stored' = UpdateState(d, Sample(h))
    /\ UNCHANGED <<configVars, version, pc, frameVars, cur, todo, answer, histVars,
                   countVars>>

----------------------------------------------------------------------------
(* Answers *)

\* Mutant: the status is left out of the metadata, so 503 is answered.
Failure_Bare(status) == [status |-> 503, state |-> None, refreshed |-> FALSE]

\* What is raised has status 400 or 404, so the ledger never has the command
\* run again under its key (retryable is status_code >= 500).
Failure(status) == [status |-> status, state |-> None, refreshed |-> FALSE]

Success(state, refreshed) == [status |-> 200, state |-> state, refreshed |-> refreshed]

\* get_state, after the refreshes: the state service refuses its parameters
\* (ValueError), or the snapshot of the target is looked up.
View(j, d, snapshots, refreshed) ==
    IF j = "bad_view" THEN Failure(400)
    ELSE IF snapshots[d] = None THEN Failure(404)
    ELSE Success(snapshots[d], refreshed)

\* Request r is answered.
Reply(r, reply) ==
    /\ pc' = [pc EXCEPT ![r] = "answered"]
    /\ answer' = [answer EXCEPT ![r] = reply]
    /\ cur' = [cur EXCEPT ![r] = None]
    /\ todo' = [todo EXCEPT ![r] = {}]

\* An HTTPException leaves the code that serves r.  The state service of the
\* runtime kit may pass on what its provider raises, make a ValueError of it
\* (400), or answer all the same.
Stop(r, status) ==
    \/ Reply(r, Failure(status))
    \/ /\ job[r] = "refresh_all"
       /\ \/ Reply(r, Failure(400))
          \/ Reply(r, View(job[r], target[r], stored, FALSE))

----------------------------------------------------------------------------
(* trigger_refresh *)

\* The entry is looked up, and the device is read at its host.
Enter(r, d, rest) ==
    \/ /\ config[d] = None
       /\ Stop(r, 404)
       /\ UNCHANGED host
    \/ /\ config[d] # None
       /\ pc' = [pc EXCEPT ![r] = "refreshing"]
       /\ cur' = [cur EXCEPT ![r] = d]
       /\ todo' = [todo EXCEPT ![r] = rest]
       /\ host' = [host EXCEPT ![r] = config[d]]
       /\ UNCHANGED answer

\* Mutant: a state that is known already is returned.
Shown_Cached(r, reading) == IF stored[cur[r]] = None THEN reading ELSE stored[cur[r]]

\* The refreshed_state of a command.
Shown(r, reading) == reading

\* After a refresh: a command returns the reading, a refresh of all goes on
\* with the ids there were when it began.
Continue(r, reading) ==
    \/ /\ job[r] \in Commands
       /\ Reply(r, Success(Shown(r, reading), FALSE))
       /\ UNCHANGED host
    \/ /\ job[r] \in Views /\ todo[r] = {}
       /\ Reply(r, View(job[r], target[r], stored', job[r] = "refresh_all"))
       /\ UNCHANGED host
    \/ /\ job[r] \in Views
       /\ \E d \in todo[r] : Enter(r, d, todo[r] \ {d})

\* fetch_and_store_state returns: the reading is stored under the id.
Refresh(r) ==
    /\ pc[r] = "refreshing"
    /\ stored' = UpdateState(cur[r], Sample(host[r]))
    /\ visited' = [visited EXCEPT ![r] = @ \cup {cur[r]}]
    /\ Continue(r, Sample(host[r]))
    /\ UNCHANGED <<configVars, version, job, target, wrote, event, broken, steady,
                   moved, countVars>>

\* A device fails a request.
Break(r) ==
    /\ failures < MaxFailures
    /\ failures' = failures + 1
    /\ broken' = [broken EXCEPT ![r] = TRUE]
    /\ UNCHANGED asks

\* Mutant: a refresh that fails goes on with the next id.
RefreshFails_GoesOn(r) ==
    /\ pc[r] = "refreshing"
    /\ Break(r)
    /\ UNCHANGED <<configVars, version, stored, job, target, wrote, event, steady,
                   moved, visited>>
    /\ Continue(r, Sample(host[r]))

\* The read fails: trigger_refresh raises, with status 400.
RefreshFails(r) ==
    /\ pc[r] = "refreshing"
    /\ Break(r)
    /\ Stop(r, 400)
    /\ UNCHANGED <<configVars, version, stored, job, target, host, wrote, event, steady,
                   moved, visited>>

----------------------------------------------------------------------------
(* /command *)

\* A request that is not answered yet is noted with what it asks.
Ask(r, j, d) ==
    /\ pc[r] = "idle" /\ asks < MaxAsks
    /\ asks' = asks + 1
    /\ job' = [job EXCEPT ![r] = j]
    /\ target' = [target EXCEPT ![r] = d]
    /\ steady' = [steady EXCEPT ![r] = Configured]
    /\ UNCHANGED <<configVars, version, stored, wrote, event, broken, moved, visited,
                   failures>>

\* The id that the caller names, or the primary device.
Resolve(named) == IF named = None THEN Configured ELSE {named}

\* Nothing to do: a command that is missing or not in AUTOMATION_COMMANDS, or
\* no id and no device configured.
Reject(r, j) ==
    /\ Ask(r, j, None)
    /\ \/ j = "refused" /\ Reply(r, Failure(400))
       \/ Configured = {} /\ Reply(r, Failure(404))
    /\ UNCHANGED host

\* run_command_for_device up to the await of the client: the entry is taken
\* from the registry.
Command(r, j, d) ==
    /\ j \in Commands
    /\ Ask(r, j, d)
    /\ \/ /\ config[d] = None
          /\ Reply(r, Failure(404))
          /\ UNCHANGED host
       \/ /\ config[d] # None
          /\ pc' = [pc EXCEPT ![r] = "commanding"]
          /\ host' = [host EXCEPT ![r] = config[d]]
          /\ UNCHANGED <<cur, todo, answer>>

\* The command reaches the device.
Act(r) ==
    /\ pc[r] = "commanding" /\ job[r] \in {"write", "half"} /\ wrote[r] = None
    /\ version' = [version EXCEPT ![host[r]] = @ + 1]
    /\ wrote' = [wrote EXCEPT ![r] = [host |-> host[r], version |-> version[host[r]] + 1]]
    /\ UNCHANGED <<configVars, stored, pc, frameVars, cur, todo, answer, event, broken,
                   steady, moved, visited, countVars>>

\* Mutant: device.command.executed is left to a refresh that succeeds.
Announce_Late(r) == IF config[target[r]] = None THEN "none" ELSE "executed"

\* device.command.executed is scheduled as soon as the client has returned.
Announce(r) == "executed"

\* The client returns: the event is scheduled and the refresh begins.
Return(r) ==
    /\ pc[r] = "commanding"
    /\ job[r] = "read" \/ (job[r] = "write" /\ wrote[r] # None)
    /\ event' = [event EXCEPT ![r] = Announce(r)]
    /\ Enter(r, target[r], {})
    /\ UNCHANGED <<configVars, version, stored, job, target, wrote, broken, steady, moved,
                   visited, countVars>>

\* The client raises: it refuses the command, at once or after its first
\* write, or the device fails before or after a write.
Raise(r) ==
    /\ pc[r] = "commanding"
    /\ \/ /\ job[r] = "refused" \/ (job[r] = "half" /\ wrote[r] # None)
          /\ UNCHANGED <<broken, countVars>>
       \/ Break(r)
    /\ event' = [event EXCEPT ![r] = "failed"]
    /\ Reply(r, Failure(400))
    /\ UNCHANGED <<configVars, version, stored, job, target, host, wrote, steady, moved,
                   visited>>

----------------------------------------------------------------------------
(* /state *)

\* Without a refresh: only a configured device without a state is read.
Show(r, j, d) ==
    /\ j \in {"show", "bad_view"}
    /\ Ask(r, j, d)
    /\ \/ /\ stored[d] # None \/ config[d] = None
          /\ Reply(r, View(j, d, stored, FALSE))
          /\ UNCHANGED host
       \/ /\ stored[d] = None /\ config[d] # None
          /\ Enter(r, d, {})

\* With a refresh: all ids that are configured now are visited.
RefreshAll(r, d) ==
    /\ Ask(r, "refresh_all", d)
    /\ \/ /\ Configured = {}
          /\ Reply(r, View("refresh_all", d, stored, TRUE))
          /\ UNCHANGED host
       \/ \E c \in Configured : Enter(r, c, Configured \ {c})

\* A refresh without a refresh_request_id: the state service raises
\* ValueError before it asks its provider.
RefuseRefresh(r, d) ==
    /\ Ask(r, "bad_view", d)
    /\ Reply(r, Failure(400))
    /\ UNCHANGED host

----------------------------------------------------------------------------

\* The caller has the answer.
Close(r) ==
    /\ pc[r] = "answered"
    /\ pc' = [pc EXCEPT ![r] = "idle"]
    /\ job' = [job EXCEPT ![r] = "show"]
    /\ target' = [target EXCEPT ![r] = None]
    /\ host' = [host EXCEPT ![r] = None]
    /\ answer' = [answer EXCEPT ![r] = None]
    /\ wrote' = [wrote EXCEPT ![r] = None]
    /\ event' = [event EXCEPT ![r] = "none"]
    /\ broken' = [broken EXCEPT ![r] = FALSE]
    /\ steady' = [steady EXCEPT ![r] = {}]
    /\ moved' = [moved EXCEPT ![r] = FALSE]
    /\ visited' = [visited EXCEPT ![r] = {}]
    /\ UNCHANGED <<configVars, version, stored, cur, todo, countVars>>

Begin(r, d) ==
    \/ RefreshAll(r, d) \/ RefuseRefresh(r, d)
    \/ \E j \in Views : Show(r, j, d)
    \/ \E j \in Commands : Command(r, j, d)

Serve(r) == Act(r) \/ Return(r) \/ Raise(r) \/ Refresh(r) \/ RefreshFails(r)

Next ==
    \/ Configure
    \/ \E d \in Ids, h \in Hosts : Poll(d, h)
    \/ \E r \in Requests :
          \/ \E named \in Ids \cup {None} : \E d \in Resolve(named) : Begin(r, d)
          \/ \E j \in Commands \cup Views : Reject(r, j)
          \/ Serve(r) \/ Close(r)

Spec == Init /\ [][Next]_vars

----------------------------------------------------------------------------
(* Properties *)

Answered(r) == pc[r] = "answered"

\* A command that is answered with success has been executed and announced;
\* if its device kept its configuration all the time, the state in the answer
\* is that of the device that was written to, after the write
\* (command/router.py:66-90, routes.py:283-340).
SuccessShowsEffect ==
    \A r \in Requests :
        Answered(r) /\ job[r] = "write" /\ answer[r].status = 200 =>
            /\ wrote[r] # None /\ event[r] = "executed"
            /\ target[r] \in steady[r] =>
                  /\ answer[r].state.host = wrote[r].host
                  /\ answer[r].state.version >= wrote[r].version

\* Whatever the refresh after it brings, a command that wrote to a device is
\* announced; only one that was performed as a whole is announced as executed,
\* and only one that the device failed, or that the client refuses for its
\* arguments, possibly after a first write (kasa_client.py:724-725), is
\* announced as failed (routes.py:293-323, command/router.py:72-80).
EffectIsAnnounced ==
    \A r \in Requests : Answered(r) =>
        /\ wrote[r] # None => event[r] # "none"
        /\ event[r] = "executed" =>
              job[r] = "read" \/ (job[r] = "write" /\ wrote[r] # None)
        /\ event[r] = "failed" => broken[r] \/ job[r] \in Faulty

\* A request is refused, or not fully served, for its arguments (which the
\* client refuses with 400, routes.py:308-323, and the state service too,
\* state/router.py:40-41) or its target, for a device that failed it, or
\* because an entry was replaced or removed meanwhile: never because of what
\* other requests do (state/router.py:11-49).
FailureIsExcused ==
    \A r \in Requests :
        Answered(r) /\ (answer[r].status # 200 \/ (job[r] = "refresh_all" /\ ~answer[r].refreshed))
            => broken[r] \/ moved[r] \/ job[r] \in Faulty \/ target[r] \notin steady[r]

\* An answer that claims a refresh covers every device that was configured
\* all the time (state/router.py:11-13).
RefreshCoversAll ==
    \A r \in Requests :
        Answered(r) /\ answer[r].refreshed => steady[r] \subseteq visited[r]
=============================================================================
