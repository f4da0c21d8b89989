# A verification project for the PiPhi TP-Link Kasa integration

TLA+ models of the TP-Link Kasa runtime (`src/piphi_network_tp_link`), of its
dashboard widget (`experiences/kasa-smart-home`) and of its release script
(`scripts/release.py`), model-checked with TLC, with the central invariants
proved with TLAPS. File names and line numbers below and in the modules are
those of the repository.

    tlc -workers 2 -config lifecycle_serial.cfg MCConfigLifecycle.tla
    tlapm ConfigLifecycle_proofs.tla

## 1. Inventory

The runtime is one Python process: FastAPI handlers and background tasks on one
asyncio event loop. A coroutine is interrupted only where it awaits, so the
interesting interleavings are those of the code between awaits. It rests on two
libraries that are not in the repository: `python-kasa` (the devices) and
`piphi_runtime_kit_python` (registry class, snapshot coordinator, deliveries to
PiPhi Core, automation ledger).

| Component | State | Operations | What makes it hard | Correct when |
|---|---|---|---|---|
| Configuration lifecycle (`contract/config/routes.py`, `lib/store.py`) | registry of entries, each with its poll task | `/config`, `/deconfigure`, `/configs/sync`, poll loop | requests that interleave at every await; cancelling a task and awaiting it | a configured device has exactly one poll loop, on its address, and a removed one has none; events follow the registry; a snapshot is reached; requests return |
| State fetch (`routes.py` 202-260, `lib/kasa_client.py` 625-637) | `latest_state` of an entry, telemetry under way | `fetch_and_store_state` by the poll loop and by requests | state read before an await and used after it; readings and deliveries overtake each other | an answer is as fresh as its request; stored state and Core converge to the device; on/off events match the stored state |
| Kasa client (`lib/kasa_client.py`) | configuration cache per host, one connection per call | resolve, read, command, disconnect, discover | shared cache, failure of every await, cancellation, two-step commands | every connection is closed; the cache never fails a call; a command has exactly its effect; discovery loses nothing |
| Command dispatch (`contract/command/router.py`, `run_command_for_device`) | frames of requests; idempotency ledger (external) | `/command` | command done, refresh failed; the entry is looked up again after every await | a success was executed and announced and is shown; a failure has a reason of its own |
| State view (`contract/state/router.py`, `trigger_refresh`) | state snapshots of the registry | `/state` | visits a registry that changes while it awaits | a claimed refresh covers what stayed configured; no request spoils another |
| Entities view (`contract/entities/router.py`, derivations of `kasa_client.py` and `routes.py`) | none | features to capabilities, commands, metrics, class, widgets | four separate searches for overlapping tokens | what is listed, offered, accepted, executed and measured agrees |
| Startup (`lib/lifespan.py`, `app.py`) | generation (external) | rehydration from snapshot and Core (external) | before the first request | what it applies, it applies as a sync does |
| Optimistic control and widget (`assets/optimistic-control.mjs`, `assets/kasa-widget.mjs`) | override, confirmed value, last reading time, timer | press, accept, reject, observe, rebind | delayed, repeated, reordered readings; clocks of two machines; timer against next command | the button ends up showing the device and is not flipped by old readings |
| Release script (`scripts/release.py`) | two files with one version | bump, set version, pin image | semantic version order; two writes that are not atomic | versions grow; a half release is noticed; the image follows |
| Publication (`build_experience.py`, `create_github_release.py`, workflows) | none | archives, signing, GitHub API | I/O | not modelled |
| Events, health, UI schema, manifest | none | read-only views | - | not modelled |

Components interact by calls (`command` and `state` routers call
`run_command_for_device` and `trigger_refresh` of `routes.py`, which call the
client), by the shared registry, by tasks (poll loops, deliveries), and across
processes by telemetry: the widget sees a switch only through readings that Core
publishes. `PROJECT.json` lists the hazards at their lines with the properties
that cover them.

## 2. Modules

| Module | Models | State and actions |
|---|---|---|
| `ConfigLifecycle` | `routes.py`, `store.py` | `entries` is the registry, `tasks` the poll coroutines, `hpc`, `op`, `queue` the frames of handlers suspended at an await, `announced` the last configured/deconfigured event of an id. `ConfigRequest`, `DeconfigureRequest`, `SyncRequest`, `RefreshRequest` begin requests; `StartRemove`, `StartApply`, `Resume`, `EndRefresh` are the code of `remove_device_config` and `apply_device_config` between awaits; `PollBegin`, `PollEnd`, `PollStop` are `poll_device_state`. |
| `DevicePolling` | the promise of that component | `config` (id to host), `loops` (hosts being polled per id): a loop is stopped before its configuration is dropped or replaced, and a configuration without a loop does not stay |
| `ConfigRefinement` | the mapping from the first to the second | `ConfigOf`, `LoopsOf` |
| `StateFetch` | `fetch_and_store_state`, `fetch_device_state` | a reading is the number of switches the device had seen; `Begin`, `Read`, `Store`, `Fail` per fetcher, `Deliver`, `Lose` for telemetry, `Switch` for the world |
| `KasaSessions` | the calls of `kasa_client.py` to one host | `pc` is the await a call is at; `ConnectCached`, `ConnectDirect`, `ConnectSingle`, `Probe` are `_resolve_device`; `UpdateFetch`, `UpdateCommand`, `Act`, `Check`, `Break`, `Finish` are the two public calls; `Cancel` is the cancellation of a poll task; `Outage`, `Return`, `Upgrade`, `Switch` are the device |
| `Discovery` | `discover_devices` without a host | `Scan` per target, `Merge`, `Abort`, `StartReading`, `Read` per host, `Answer` |
| `OptimisticControl` | the power button | one action per callback: `Press`, `Accept`, `Reject`, `Observe`, `Expire`, `Rebind`; around it device, runtime and host |
| `WidgetConnection` | `connect` of `kasa-widget.mjs` | a call per bootstrap: `pc`, `taken`, `todo` are its frame, `subscriptions`, `bindingScope`, `values`, `ready` the fields of `state`, `live` what the host serves; `Bootstrap`, `Ready`, `NotReady`, `Release`, `Subscribe` are its code between awaits, `Event` the callback |
| `DeviceRequests` | `/command`, `/state`, `run_command_for_device`, `trigger_refresh` | `pc`, `job`, `target`, `host`, `cur`, `todo`, `answer` are the frame of a request and its answer, `stored` the state snapshots, `version` the writes a device has seen; `Reject`, `Command`, `Show`, `RefreshAll` are the handlers up to their first await, `Act`, `Return`, `Raise` the client's command, `Refresh`, `RefreshFails` the end of a read; around them `Configure`, a step of `DevicePolling`, and `Poll` |
| `Entities` | what a device is taken for | the state is one reading of a device: `Extract` normalises a feature, `Restart` drops them; `Capabilities`, `Supported`, `Executes` (client), `Metrics` (telemetry), `DeviceClass`, `EntityType`, `Allowed`, `Default`, `Recommended`, `Offered` (entity) are operators over it |
| `Release` | `release.py` | `Compare`, `Bumps` and the rest are pure operators; `Run`, `WriteManifest`, `Interrupt`, `Checkout` are runs of the script |
| `*_proofs` | theorems | see section 5 |
| `MC*` | instances for TLC | model values, payloads, symmetry |

Abstractions that matter:

- In `ConfigLifecycle` a reading is the host it came from; in `StateFetch`
  there is one device that stays configured and a reading is a version. A
  failed read and a read of a removed entry both leave the registry alone.
  Ids are model values, and `Trim` says which one is another with blanks around it
  (`strip()` of routes.py:61-62): a `config_id` may have them, the `id` of a device in a
  snapshot does not, since how the external coordinator compares such an id is unknown.
- The snapshot coordinator is external. It is modelled by what the caller hands
  it (`Stale`): it removes the active ids that the normalised snapshot does not
  name, and applies the rest one after the other, in an order left open.
- Python-kasa is external: connecting, `update()` and a write succeed exactly
  when the device is reachable and the connection fits its firmware;
  `try_connect_all` may find nothing even then. A disconnect closes the
  connection when its await begins.
- In `KasaSessions` every command that writes one feature is `set_feature`;
  `unsupported` is a command refused before any write (unknown command, target,
  feature or argument), `bad_saturation` one refused after its first. `reboot` is
  not told from other writes, and child devices not from their parent.
- In `OptimisticControl` the command of a press is abstracted to an absolute
  target. A command that was rejected and is executed later is a `Switch`.
- `Rebind` of `OptimisticControl` is one step; the awaits of `connect` are the
  subject of `WidgetConnection`, where a reading is the scope it came from. The
  order in which a call ends and asks for subscriptions is left open.
- `DeviceRequests` takes the lifecycle as its abstract specification
  `DevicePolling`, which `ConfigLifecycle` implements for one changing request at
  a time. A command is one that writes, one that only reads, one the client
  refuses, or one it refuses after its first write (`half`: a hue that is written and a
  saturation that is not a number, kasa_client.py:724-725); `bad_view` is a request to
  `/state` whose parameters the state service refuses with 400 (state/router.py:40-41), such
  as a refresh without a `refresh_request_id`. What a write does to a device is the
  subject of `KasaSessions`. The
  end of a read and the store that follows are one step.
- The idempotency ledger is external: a command answered from it changes nothing
  here, and two requests under one key at the same time are not modelled. The
  state service is external too: `Stop` leaves open whether it passes on what
  its provider raises or answers without a refresh. The ids to visit are the
  list that `registry.ids()` returned at the beginning.
- In `Entities` the searches for tokens in ids are sets of ids: fourteen ids
  tell them apart; the name of a feature is the set of the energy words in it
  (`called`), independent of its id. `telemetry`, a capability nothing reads, the metrics
  that are no capability (`is_on`, `signal_strength` and the like), labels, argument schemas and child devices are left
  out.
- In `Release` an identifier is a number with its leading zeros, or a name, which ranks
  by spelling. Two of them are the same text when value and zeros agree; `int()` forgets
  the zeros.

## 3. Runs and bounds

| Run | Instance | Shows |
|---|---|---|
| `lifecycle_serial` | 2 ids and one of them with blanks, 2 hosts, 3 tasks, one request that changes the registry at a time | every live loop is the registered one, state is from the configured host, a snapshot is reached, every request is answered, a configured device is read again and again; `ConfigLifecycle` implements `DevicePolling` |
| `lifecycle_concurrent` | 3 handlers, 4 tasks, two changing requests and a refresh | a configured device keeps a loop; events follow the registry; no handler awaits a poll task that will not end |
| `fetch` | poll loop and a request, 3 switches, a failure | the on/off events match the stored state until two fetches overlap; answers are fresh; stored state and Core converge |
| `requests` | 2 requests of 7 kinds, 2 ids, 2 hosts, 4 steps of the configuration, one failure | commands and views answer what happened while devices are reconfigured, removed, polled and fail |
| `entities` | 14 ids, 3 kinds of devices, up to 3 features, or 2 with energy words in their names | commands, widgets and metrics agree for every combination |
| `sessions` | cancellable poll loop and a request with fetches and 4 commands, one upgrade, one outage, a foreign switch | connections are released, the cache fails nobody, an undisturbed command has its effect and shows it, polling recovers |
| `discovery_merge` | 3 networks, 3 hosts, all failures | connections are closed, answers are complete |
| `optimistic` | 2 commands, a switch or a rebind, 2 readings under way, skewed clock | an optimistic value always ends, the button ends up showing the device |
| `widget_connection` | 4 bootstraps, 3 scopes with 2, 1 and no slots | subscriptions are never lost; a widget at rest is bound to the last bootstrap and shows its readings, unless bootstraps overlapped |
| `release` | 2 prerelease names, numbers up to 2 with and without a leading zero, 4 identifiers | versions grow but for two exceptions, order, interruptions, images |

Why these are enough. Two ids tell an operation on one from its effect on the
other; two hosts tell old from new. Two changing requests are the smallest
number that meet in `remove_device_config`, and three handlers add the refresh
that reads while both do. A fourth task is needed for the loops that two
overlapping applies leave behind. One switch more than readings under way makes a reading stale. One upgrade
makes a cached configuration useless, also one that a call has just read and
that another call drops or replaces. The four commands are one that depends on
the state it reads, one that writes twice, and those that are refused before
and after their first write; what another command
writes in the meantime is a `Switch`. In `requests` four changes bring a device
in and poll it, and take it away or replace it, or do that for two devices
without polls, while each of two requests goes through all its awaits; one failure
can hit any of them, and is what tells a request that is spoilt from one that is
not. A property of `Entities` relates at most a light, a switch and a meter, which
are three features. Four bootstraps are two rebindings of
a widget that is bound already, with one to overlap each of them.

`LatestIsBound` and `ValuesFromScope` except widgets whose bootstraps have ever
overlapped (`overlapped`), and have to: a call that waits for old subscriptions
to end rebinds the widget after a later call that found none to wait for.

`MaxMutators = 1` in `lifecycle_serial` states an
assumption about the caller: Core has one config, deconfigure or sync request
under way at a time. Nothing in the runtime enforces it: `lifecycle_two_polls`
shows what happens otherwise. The liveness properties need it for another
reason as well: abandoned loops would use up the finite set of tasks, and a
request would wait for an identity, which in the program costs nothing.
`MaxReaders = 0` in `lifecycle_serial` leaves refreshing requests to
`lifecycle_concurrent`: with one of them under way, `StateFromOwnHost` fails. A
refresh that has read the old address while `/config` moves the device stores
that state in the new entry (routes.py:210-213), since nothing compares the host
after the await; the next poll repairs it. `DeviceRequests` has the same
refresh, and its properties speak of devices in `steady`, those that kept their
entry, and of answers rather than of what is stored.

`RequestsAnswered` is checked in `lifecycle_serial`, for a request that is alone. That two
handlers which cancel and await one poll task do not wait for ever is `WaitsEnd` of
`lifecycle_concurrent`, and `NoVainWait` for any number of them.

`release` bumps prereleases with the first and the last of the three names, `alpha` and
`rc`; `beta` ranks between them and occurs in the versions that are set.
`VersionsIncrease` names the two steps that do not lead to a later version, and both
occur in the run. `rc.1` is bumped to `alpha.1` of the same core
(release.py:208-213), which is lower and which `--set-version` would refuse, though the
help text says "Increment the current version." (release.py:95). And `--set-version` takes
`1.0.0-00` after `1.0.0-0` and the other way round as "newer" (release.py:171): the texts
differ, the numbers do not, and `_compare_identifiers` then answers 1
(release.py:225-230). `SEMVER_RE` admits such identifiers, which semantic versioning does not.

Runs with a counterexample, each against a sentence of the repository:

| Run | Says | The code |
|---|---|---|
| `lifecycle_two_polls` | README.md:102 "polled on a background loop" | two applies of one configuration leave a second loop that nobody can stop |
| `optimistic_stale` | `tests/test_experience_package.py`:420 | a stale reading that agrees ends the override, the next one flips the button |

Met while modelling, without a run of their own:

- `manifest.json`:330 declares the command `dynamic_feature`, which
  `execute_device_command` executes (kasa_client.py:694) and `/command` refuses
  with 400, as it is not in `AUTOMATION_COMMANDS` (command/router.py:22-36).
- A device with one of hue and saturation writable lists `set_hue_saturation`
  (kasa_client.py:365-392), which needs both; `SupportedRun` excepts it.
- A feature whose name, but not its id, contains "today" or "month" has its value
  published as `energy_today` or `energy_this_month` (kasa_client.py:155-157), while the
  device gets no such capability, for which only ids count (kasa_client.py:233-240).
- A command whose second argument is refused after its first write
  (kasa_client.py:724-725) is announced as failed and answered with 400, as if nothing
  had happened to the device.
- A color temperature counts as a temperature: its id contains the token, so
  a tunable bulb has the capability and the metric of a thermometer.
- `"energy" in capabilities` (entities/router.py:27) is never true: no
  capability has that name.
- What `/command` raises has status 400 or 404, so that `retryable`, which asks
  for 500 or more, is never set.

## 4. Fairness

- `ConfigLifecycle`: weak fairness per handler and per task. The event loop
  runs every ready coroutine, a sleep ends, and python-kasa bounds every read
  with a timeout. New requests are never assumed to arrive.
- `StateFetch`: the loop starts over, a read ends one way or the other, every
  delivery is tried. Failures and lost deliveries are bounded by `MaxFailures`;
  nothing forces a switch.
- `KasaSessions`: calls proceed, the poll loop starts over, a device that went
  away comes back; outages, upgrades and cancellations are bounded. A poll loop
  that begins again after a cancellation is the next task of the device: the
  loop of a device that stays configured is cancelled only to be replaced.
- `OptimisticControl`: the host answers every command, timers fire, the runtime
  keeps sampling, and (strong fairness) not every reading is dropped.
- `Discovery`, `WidgetConnection`, `DeviceRequests`, `Entities` and `Release`
  have safety properties only. That a request for a device ends is
  `ReachableIsAnswered` and `RequestsAnswered` of the modules it runs through.

## 5. Proofs

| Theorem | States |
|---|---|
| `ConfigLifecycle_proofs!TypeCorrect` | `Spec => []TypeOK` |
| `ConfigLifecycle_proofs!AlwaysPolled` | `Spec => []ConfiguredImpliesPolled` |
| `ConfigLifecycle_proofs!EventsAlwaysAgree` | `Spec => []EventsAgree` |
| `ConfigLifecycle_proofs!SerialPolls` | `Serial` entails `Spec => []PollsAreRegistered` |
| `ConfigLifecycle_proofs!SerialSync` | `Serial` entails `Spec => SyncReachesGoal` |
| `ConfigLifecycle_proofs!SerialState` | `Serial` and `NoReaders` entail `Spec => []StateFromOwnHost` |
| `ConfigLifecycle_proofs!NoVainWait` | `Spec => []WaitsEnd` |
| `ConfigLifecycle_proofs!SerialRefines` | `Serial` entails `Spec => Polling!Init /\ [][Polling!Next]_(Polling!vars)` |
| `ConfigLifecycle_proofs!SerialOneLoop` | `Serial` entails `Spec => []Polling!OneLoop` |
| `StateFetch_proofs!TypeCorrect` | `Spec => []TypeOK` |
| `StateFetch_proofs!EventsFollowState` | `Spec => []BeliefMatches` |
| `StateFetch_proofs!AnswersFresh` | `Spec => AnswersAreFresh` |
| `StateFetch_proofs!StateStaysRight` | `Spec => [][SettledStep]_vars` |
| `KasaSessions_proofs!Released` | `Spec => []ConnectionsReleased` |
| `KasaSessions_proofs!ReachableAnswered` | `Spec => ReachableIsAnswered` |
| `KasaSessions_proofs!CommandsWork` | `Spec => CommandTakesEffect` |
| `KasaSessions_proofs!ListedCommandsRun` | `EntitiesSpec => []SupportedRun` |
| `KasaSessions_proofs!CommandListsAgree` | `EntitiesSpec => []CommandsAgree` |
| `KasaSessions_proofs!WidgetsAlwaysFit` | `EntitiesSpec => []WidgetsFit` |
| `KasaSessions_proofs!MetricsAreCovered` | `EntitiesSpec => []MetricsHaveCapability` |
| `WidgetConnection_proofs!TypeCorrect` | `Spec => []TypeOK` |
| `WidgetConnection_proofs!NothingLeaks` | `Spec => []SubscriptionsKnown` |
| `WidgetConnection_proofs!LastOneIsBound` | `Spec => []LatestIsBound` |
| `WidgetConnection_proofs!OwnValues` | `Spec => []ValuesFromScope` |
| `DeviceRequests_proofs!TypeCorrect` | `Spec => []TypeOK` |
| `DeviceRequests_proofs!SuccessIsEffect` | `Spec => []SuccessShowsEffect` |
| `DeviceRequests_proofs!EffectsAreAnnounced` | `Spec => []EffectIsAnnounced` |
| `DeviceRequests_proofs!FailuresAreExcused` | `Spec => []FailureIsExcused` |
| `DeviceRequests_proofs!RefreshesCoverAll` | `Spec => []RefreshCoversAll` |
| `Discovery_proofs!Invariant` | `Spec => []DiscoveryInv` |
| `Discovery_proofs!AllClosed` | `Spec => []ConnectionsClosed` |
| `Discovery_proofs!AlwaysComplete` | `Spec => []AnswerIsComplete` |
| `OptimisticControl_proofs!TypeCorrect` | `Spec => []TypeOK` |
| `OptimisticControl_proofs!OverrideAlwaysEnds` | `Spec => []OverrideEnds` |
| `OptimisticControl_proofs!PendingIsShown` | `Spec => []CommandShown /\ [][PendingStep]_vars` |
| `OptimisticControl_proofs!ShownStaysRight` | `Spec => [][ShownStep /\ OrderStep]_vars` |
| `Release_proofs!FilesHoldVersions` | `Spec => []IInv` |
| `Release_proofs!VersionsAreOrdered` | `Spec => []CompareIsOrder` |
| `Release_proofs!HalfReleasesAreNoticed` | `Spec => []HalfReleaseIsNoticed` |
| `Release_proofs!PinnedImagesFollow` | `Spec => []ImageFollows` |
| `Release_proofs!ReleasesIncrease` | `Spec => VersionsIncrease` |
| `Release_proofs!OneNameNeverGoesBack` | `OneName(preid)` entails `Spec => [][.. ~Later(pyproject, pyproject')]_vars` |

They hold for all values of the constants that satisfy the named assumptions of
the modules (payloads are well typed, `None` is no value of anything else,
bounds are numbers, a poll loop is no request); those are evaluated by the runs.

`AlwaysPolled` holds for any number of concurrent requests, in contrast to
`PollsAreRegistered`. It is not inductive: whether the task in an entry is alive
depends on who may stop it. `PolledInv` adds that a suspended handler remembers
a well-typed operation (`OpsTyped`) and that no two entries share a task
(`DistinctTasks`), for otherwise the handler that cancels the task of one id
would stop the polling of another. A new entry gets a task that no entry and no
waiting handler holds (`Fresh`), which keeps both.

`EventsAlwaysAgree` needs the type invariant and `OpsTyped`: an event is lost only
for an entry that is gone by then, and the one that is still to come belongs to a
handler that is in its first refresh.

`NoVainWait` is what `RequestsAnswered` rests on, for any number of concurrent requests: the
task that a handler awaits is done or has been cancelled, and stays so. `Install` takes a
task that no handler awaits (`Fresh`), and a poll that was cancelled has no step left but
the one that ends it (`StaysCancelled`), so nobody waits for a task that another request
has revived. That the remaining step is taken is the fairness of the run.

The `Serial...` theorems assume what the code does not enforce, that at most one
request that changes the registry is in progress (`Serial`: `MaxMutators = 1`, and
finitely many handlers, so that they can be counted). Section 3 says what
happens otherwise. Their invariant `SerialInv` makes `PollsAreRegistered`
inductive: there is one mutator (`OneMutator`), so the task that a handler awaits is
still the one in its entry (`AwaitsOwn`), and a handler that installs or removes an
entry leaves no loop of that device behind (`NoPollLeft`).
`SerialSync` adds that what a snapshot has still to do leads to its goal
(`OnCourse`): the ids that are in the registry, less those that it removes, plus
those that it configures, are the ids it asks for, and no removal hits one of
these. That is why the order of the work does not matter. It needs the
normalisation of the ids (`SnapshotCourse`): without it, a configuration with its
own `config_id` would be removed by the snapshot that asks for it.
`SerialState` adds that every poll and every first read uses the address of its
entry (`OwnHosts`); a refresh that was under way when the device moved would not,
hence `NoReaders`. `SerialRefines` is the step simulation: the end of a poll task is
`Stop`, the installation of an entry `Start`, the removal of one `Drop`, and nothing
else is visible. `SerialOneLoop` shows what the abstract specification is for: its own
invariant, that a device has at most one loop, at the configured address, is preserved
by its three steps (`OneLoopStep`), and so holds of the runtime. The fairness of
`DevicePolling` stays with the run.

`EventsFollowState` adds to `BeliefMatches` that, until two fetches overlap, at most one
is under way, the previous state in its frame is still the stored one, and a
finished read carries a reading. An overlap breaks the second of these; the
convergence properties say what is left then.

`AnswersFresh` needs of each fetch only that what it has read is no older than its
start, and its start no later than the device itself (`FreshInv`): no other fetch
can touch the reading in its frame.

`StateStaysRight` is the safety part of the two convergence properties. Nothing that is
stored, carried or on its way to Core is newer than the device (`Seen`), so a fetch that
began since the last switch stores the version of the device and no other. Once that is
stored and no fetch carries an older one (`Settled`), and once no delivery does either
(`Told`), every step but a switch keeps it so, failures and lost deliveries included.

`Released` adds that a connection is open only at the awaits that are followed
by a disconnect. `ConnectionsReleased` excepts calls that were cancelled, and
has to: `CancelledError` passes the `except Exception` of `_resolve_device`
(kasa_client.py:440), so that a poll task cancelled in the first `update()` of a
discovered device leaves it connected.

`ReachableAnswered` says what an undisturbed call can rely on (`Undisturbed`): the device
is online, a connection it holds is of the present firmware, and it closes with an
answer or a refusal, whatever other calls do to the cache. `CommandsWork` goes through the
table of commands: at each moment the writes that are left complete the effect of the
command on the state it began with (`EffectInv`), so that a command that ends
with success and was crossed by no other has had all of it. It uses that poll loops
are no requests (`CallersAssumption`), for they read and never write.

`NothingLeaks` holds for any number of overlapping bootstraps. It adds that only
a call that is releasing has taken subscriptions (`TakenToRelease`), and that a
live subscription belongs to a call that will not ask for its slot again
(`AskedOnce`), so that a new subscription is in no other place.

`LastOneIsBound` and `OwnValues` share the invariant `TurnInv`: until two bootstraps
overlap, the one in progress is the latest (`InTurn`), only it may still change the
binding, and the slots of its scope are subscribed, refused or still to ask for
(`SlotsCovered`).

The four properties of `DeviceRequests` are proved at once, by `ReqInv` for each
request. At an await it says what the code will rely on after it: a command was
announced before its refresh began (`AtAwait`); as long as the target keeps its
entry, the host looked up before the command is the one looked up after it
(`SameHost`), and writes are never taken back (`Written`), so that the state shown is
at least as new as the write; the ids that stayed configured are visited, being
visited or still to visit (`Covered`); and as long as no entry moves, they are
all configured and what was read of them is stored (`Calm`). A step of another
request or of a poll writes, stores and answers without disturbing any of this
(`Others`), which is why requests are not spoilt by each other.

`DiscoveryInv` says which device objects are open: those of a scan that was not
merged, and those that were kept and wait to be read (`OpenInv`). With the
provenance of the found hosts (`FoundInv`) and what each phase has completed
(`PhaseInv`), nothing is open and nothing is missing in the end.

`OverrideEnds` is inductive given the type invariant, which needs that the
clock is ahead of the skew (`ClockStarted`), for otherwise a reading could be
from before time 0. `PendingIsShown` uses it: a pending override has its command in flight,
so only the answer, or a rebind, ends it, and it is the one of that command
(`CommandShown`). The button shows what was asked for until a reading agrees,
whatever its age; that reading takes the override off and changes nothing. It does not
hold until the command is answered: from then on the control takes any reading that
is not older than its last (`PendingStep` says which), so that two stale readings
in a row undo the command (`StaleReadingsDoNotUndo`, section 3). `ShownStaysRight` is the safety part of
`ShowsTheDevice`: with no override left and every reading under way in agreement
(`ShownAsIs`), no timer, answer or old command moves the button.

The theorems about `Release` are for versions with any numbers, leading zeros and number
of prerelease identifiers. What decides a comparison is the first position where two
lists differ. There is one because `<` is well founded on the naturals
(`LeastNumber`). If the identifiers there are one number written in two ways
(`Respelled`), compare answers 1 in both directions; in all other cases it is antisymmetric
(`IdentifiersCompared`). An answer of -1 is therefore the one to rely on: a version is
`Later` than another exactly if the other compares -1 to it, and of three lists the earlier
of two such positions decides (`IdentifiersTransitive`, by `LaterAt`). So `Later` is
transitive without an assumption about leading zeros. `BumpFacts` goes through the bumps: each
gives a version that compare tells from the one it was made from. The invariant `IInv` needs
that for `HalfReleaseIsNoticed`: build metadata are ignored by compare, and two
files that differ in nothing else would pass for one release. It adds what the manifest
that is still to be written carries (`FilesAgree`, `ImagesFollow`).
`ReleasesIncrease` needs no assumption about the names: `RenamedBack` is the bump to an
earlier name, which always lowers the version (`RenamedBackFacts`), and all other
targets are later or respelled (`TargetsIncrease`). `OneNameNeverGoesBack` assumes
`OneName`: one name is used with `--preid`, and no version that is set, or that the
repository starts from, begins its prerelease with a later name; that this stays so along
all releases is its invariant (`OneNameInv`).

The theorems about `Entities` hold of every state, for any features, names and methods: they
follow from the searches for the tokens themselves, of which TLC tries three
features at a time. They stand in `KasaSessions_proofs`, which extends both models of
the client, and so the specification of `Entities` is named `EntitiesSpec`.

`WidgetConnection_proofs!TypeCorrect` has no run of its own: the other invariants of
the module are checked with TLC, and it is what their proofs begin with.

Only model-checked: liveness (`RequestsAnswered`, `PolledForever`,
`StoredConverges`, `CoreConverges`, `PollingRecovers`, `ShowsTheDevice`) and the fairness
part of the refinement, which are out of the prover's reach, and the two
properties that runs show to be violated.

## 6. Not modelled

- Startup: the order in which a stored snapshot and Core are tried is a
  procedure of the runtime kit. What it changes, it changes through
  `apply_runtime_config_snapshot`, which is `SyncRequest` of `ConfigLifecycle`.
- Events, health, UI schema and manifest: views that change nothing and read
  one thing each.
- Building and publishing: files, archives, signing and the GitHub API, in a straight
  line.
- Formatting, serialisation of devices, markup, labels, logging and error texts.
- Child devices and the delay of a reboot: other targets and arguments of the
  same calls.
- The ledger, registry class, snapshot coordinator, state service and delivery
  queue belong to the runtime kit and are modelled as the code uses them.

## 7. Order of work

`ConfigLifecycle` with its proofs, `DevicePolling` and `ConfigRefinement`;
`StateFetch` with its proofs; `OptimisticControl`; `Release`; `KasaSessions` with its
proof; `Discovery`; `WidgetConnection` with its proofs; `DeviceRequests` and
`Entities` with their proofs; proofs of `Discovery` and `OptimisticControl`; proofs of
`Release`, and the safety parts of the liveness properties.

Left for later:

1. `WidgetConnection` composed with `OptimisticControl`: what overlapping
   bootstraps do to the button.
2. `KasaSessions` below `DeviceRequests`: the same write as two calls.
3. The safety part of `PollingRecovers`: what a poll that fails says about the device, as
   `ReachableIsAnswered` does for requests.
