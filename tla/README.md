# DECNET in TLA+

DECNET deploys networks of decoy machines ("deckies"), collects what happens on
them and shows it to operators. A master runs an API, a database and a handful
of worker processes; optional swarm hosts run an agent, a log forwarder and an
updater. Almost all of it is asyncio code over SQL sessions, files, sockets and
the Docker command line: every `await`, every commit and every subprocess is a
place where another task runs, a call fails or a process dies. This project
models those protocols, checks them with TLC on small instances and proves the
central invariants with TLAPS for every size.

Paths below are relative to `src/decnet/` unless they start with `src/`.

## 1. Inventory

### Parts with a protocol of their own

| Part | State it keeps | Operations | What makes it correct |
|---|---|---|---|
| topology status machine (`topology/status.py`, `topology/persistence.py`, `_core.py`) | `topologies.status`, `topology_status_events` | `assert_transition`, `transition_status`, `delete_topology_cascade` | only legal transitions are recorded; the status tells what runs |
| mutation queue (`web/.../topology/mutations.py`, `mutator/engine.py`, `api_mutations.py`) | `topology_mutations` rows, the watch loops' locals | enqueue, claim, dispatch, mark, degrade | an op runs once, in the order requested, and its row tells the outcome |
| topology engine (`engine/deployer.py`, the deploy, teardown and delete endpoints) | the status, Docker's containers, bridges and the compose file | `deploy_topology`, `teardown_topology`, the endpoints | Docker is touched only under a committed status; a topology at rest has the Docker state its status says |
| swarm log shipping (`swarm/log_forwarder.py`, `swarm/log_listener.py`) | the log file, the offset store, the connection | tail, batch, drain, save, reconnect; read frame | no line is forgotten, repeated only for a reason |
| log ingester (`web/ingester.py`) | the JSON log, the position, `logs`, bounties | poll, read, flush, save position | no committed position above an uncommitted record |
| decky lifecycle (`lifecycle/`, `agent/executor.py`, `agent/heartbeat.py`, `api_heartbeat.py`) | `decky_lifecycle` rows, API tasks, agent jobs, deltas | request, strategies, agent job, push, apply delta, sweep | a row ends, and ends as its attempt did |
| agent-resident topologies (`agent/topology_ops.py`, `agent/topology_store.py`, heartbeat reconcile, `resync_agent_topology`) | the agent's one pinned topology and hash, `needs_resync` | apply, teardown, supersede, resync | the agent converges to what the master shows |
| updater (`updater/executor.py`) | release directories, the shared venvs, the symlink `/usr/local/bin/decnet`, the agent process | update, rotate, probe, rollback, self-update | a failed update leaves the previous release running |
| bus (`bus/`) | connections, subscriptions, bounded queues | publish, subscribe, fan-out, close | slow consumers do not stop others; a closed bus wakes everyone |
| webhook (`webhook/`) | subscriptions, failure counters | deliver, retry, trip, reload | a dead subscriber is disabled, a healthy one is not |
| collector (`collector/worker.py`) | stream tasks per container | scan, follow events, stream, reconcile | every running container is followed |
| correlation, attribution, clustering | attacker identities, observations | merge, aggregate, publish transitions | mergers do not depend on the order of evidence |
| mutation ops, live service changes (`mutator/ops.py`, `engine/services_live.py`) | LAN, edge and decky rows, containers | add, remove, attach, detach, update | Docker follows the rows, and a decky keeps its home LAN |
| fleet reconciler, engine reaper | decky rows, orphaned Docker objects | converge, reap | nothing live is reaped |

Everything else `PROJECT.json` lists (prober, sniffer, profiler, ttp rules,
canary, intel, geoip, realism, honeypot templates, CLI, ...) is parsing,
numerics, content generation or I/O without a protocol, and is not modelled.

### How the parts interact

* The API and the CLI start *jobs* (background tasks) of the topology engine.
  The mutator is another process. Both write `topologies.status`; the only
  guard is the check-then-write of `transition_status`, over two sessions.
* The API inserts mutation rows; the mutator's watch loops claim them by an
  UPDATE and a SELECT in one transaction.
* The collector writes two files. On a swarm host the forwarder tails the one
  and ships it to the listener on the master, which appends to the master's
  files. The API's ingester tails the JSON file into the database.
* The lifecycle strategies run in the API; agents work in the background and
  report to the heartbeat endpoint, which runs in the swarm controller.
* The deployer pushes a pinned topology to its agent; the agent's heartbeat
  reports the hash it applied, the swarm controller flags a topology that
  differs, and the mutator pushes the flagged ones again.
* The bus wakes workers early and carries notifications; the protocols modelled
  here go through the database and files, and a watch loop polls without it. The
  webhook dispatcher takes its events from the bus and its rows from the database.

### What is hard about it

Reads before an `await` used after it (status checks, `find_open_lifecycle`,
the forwarder's offset); two processes on one table without a conditional
update; crashes between a side effect and its record (claim and outcome, drain
and offset, commit and position); several database calls that make up one
logical step; dispatches that time out although the other side accepted them;
files truncated under a tailing reader. The hazards in `PROJECT.json` give the
lines. Those without a property belong to the parts planned below, or have a
note saying why.

## 2. Modules

| Module | Models | Extends / instantiates |
|---|---|---|
| `TopologyStatus` | the status alphabet and the table of legal transitions | |
| `MutationQueue` | the mutation queue with any number of watch loops | `TopologyStatus` |
| `TopologyDeploy` | deploy, teardown and delete jobs over status and Docker | `TopologyStatus` |
| `MazeNET` | both of them on one status column | instances of the two |
| `MutationOps` | what each mutation does to LANs, deckies, edges and Docker, next to live service changes, teardown and fleet redeploys | `TopologyStatus` |
| `AgentTopology` | topologies pinned to a swarm agent: pushes, the agent's endpoints and store, heartbeat, resync | `TopologyStatus` |
| `AtLeastOnceLog` | abstract: what a tailing worker with a checkpoint promises | |
| `LogForwarder` | forwarder, connections, listener, rotation | instance of `AtLeastOnceLog` |
| `Ingester` | the ingestion worker over file and database | instance of `AtLeastOnceLog` |
| `Collector` | container streams, event watcher, reconcile loop, thread pool | |
| `DeckyLifecycle` | lifecycle rows, tasks, agent jobs, heartbeat deltas | |
| `Updater` | release directories, venvs, processes of a worker's updater | |
| `EventBus` | a bus client and its connection on the server | |
| `Webhook` | the webhook dispatcher for one subscription row | |
| `MutationQueueProofs`, `TopologyDeployProofs`, `AgentTopologyProofs`, `IngesterProofs`, `DeckyLifecycleProofs` | theorems | the module named |
| `LogPathProofs` | theorems about collector and forwarder, and the three workers together | `MCLogPath`, `IngesterProofs` |
| `WorkersProofs` | theorems about updater, bus and webhook, and the four parts together | `MCWorkers`, `DeckyLifecycleProofs` |
| `MazeNETProofs` | theorems about queue and deployer together, and about the ops | `MCMazeNET` |
| `MCAgentTopology` | an instance for TLC | `AgentTopology` |
| `MCTopologyDeploy` | deploys on the master and on an agent side by side | `TopologyDeploy`, instance of `AgentTopology` |
| `MCMazeNET` | the ops, and the queue with the deployer, side by side | `MutationOps`, instance of `MazeNET` |
| `MCLogPath` | collector, forwarder and ingester side by side | `Ingester`, instances of the other two |
| `MCWorkers` | lifecycle, updater, bus and webhook side by side | `DeckyLifecycle`, instances of the other three |

Definitions whose comment begins "Faulty" are not part of any
specification. Each is a plausible bug in the definition that follows it; with it in place
TLC finds the property named in `PROJECT.json` violated, which shows that the
property depends on the code.

`MCTopologyDeploy`, `MCMazeNET`, `MCLogPath` and `MCWorkers` put several parts into one run: the
variable `subject` picks, in the initial state, the part whose behaviour it
is, and the others stand still. The states are the sum, not the product, of the
parts' states.

### Correspondence with the code

**MutationQueue.** A mutation's id is its rank in `requested_at` order. One
action per database session: `AdmitEnqueue` is the endpoint's status check,
`Enqueue` the insert; `StartReconcile`, `NextTopology`, `ClaimNextMutation`,
`Dispatch`, `MarkApplied`, `MarkFailed`, `CheckDegrade`, `WriteDegraded` follow
`reconcile_topologies` line by line. `ClaimNextMutation` keeps what the two
statements do: the UPDATE moves the oldest *pending* row, the SELECT returns the
oldest *applying* row. What an op does to Docker is left out; it returns or
raises, and an exception of `mark_mutation_applied` counts as a raise, because
it is inside the same `try`. `Crash` is a dying process or a database
error outside the `try`. `DegradeMissing` is the `ValueError` nothing catches.
`OtherTransition` and `DeleteTopology` stand for the deployer.

**TopologyDeploy.** A job is `[op, t, at, to]`. Each `await` ends a step:
`CheckTransition` is the read and assertion of `transition_status`,
`UpdateTopologyStatus` the blind write with its event. Docker is three facts per
topology: containers run, networks exist, the compose file exists. The variable
`reliable` is chosen once per behaviour; when it is FALSE any Docker call may
fail, a failing call may leave part of its effect, and any job may die. In the
other half of the behaviours nothing fails, so that what interleaving
alone can do is told apart from what failures can do. `docker.from_env()`
stands before the `try` block in the code and so has an exit of its own
(`DeployNoDocker`). A dry run (`cli/topology.py:187`, `deployer.py:1041-1049`) is
no job: it reads the topology, whatever its status, and writes the compose
file later, without looking at it again (`DryRun`,
`DryRunWrite`); `planned` is the set of topologies one has read. The CLI's
deploy and teardown skip the endpoints' status check; a job that the check would have
refused ends without effect at its first transition, which allows the same statuses,
or goes on as one that was started later. `raced` is a history: the topologies on which a
job was started before the one before it had ended.

**MazeNET.** A step of the deployer leaves the queue's variables alone, except
that the cascade of a delete removes the mutation rows; a step of the queue
leaves Docker and jobs alone, except that the `DEGRADED` of a watch loop is
recorded as a status event.

**MutationOps.** One deployed topology on the master: LAN rows with a subnet,
decky rows with their addresses in order (the first one's LAN is the home),
services and forwarding flag, edges; in Docker the bridges, the base containers
with their networks and compose project, the service containers, and the
compose file as last rendered. `apply_<op>` is what an op reads and checks up to
its first write, `Write...`, `AddEdge`, `DeleteEdge` and `DropLan` its writes,
`CheckLive` the look at the status before the Docker work, `Docker...` that
work, `Validate` the checks at the end, whose failure undoes nothing and
degrades the topology. `update_decky` merges a patch into `decky_config`
(`ops.py:939-941`): it may replace the whole list of addresses (by one of `Patches`)
or change other keys; either way the whole configuration that was read is written
back, and only a change of services or of the forwarding flag leads to Docker
work. `Config` is what `hydrate` makes of a row: an edge without an address is
given the next free one of its LAN. Docker's refusals follow from
its state: a network that is missing or on another subnet, an address in use, a
container name that belongs to another project. `Api...` are the three live
service changes, which name the topology's compose project; the ops name none
and get the fleet's (`OpsProject`). `FleetUp` is a fleet redeploy. `left` holds
what may still happen in a behaviour; the model-checking instance trades many
mutations, concurrent API calls and faults against each other (`Budgets`).

**AgentTopology.** Three coroutines of the master may talk to an agent: the
API's deploy and teardown jobs (`api`), the mutator's resync pass (`loop`) and a
live service change (`live`). A request becomes a handler of the agent
(`ApplyArrives` ... `PutRow`, `RecordFailure`), which goes on as `gone` when its
caller has timed out. The Docker work of a handler runs in a thread and is one
step; the sqlite store is touched on the event loop, in other steps, as in
the code. The store is a sequence of rows because `current()` takes the first
one by insertion. A blob is its content together with `needs_resync`, since
`canonical_hash` covers that column. `overlap` and `deadPush` are histories: two
calls met on the agent; a topology was pushed by `loop` or `live` while not live.

**LogForwarder.** Offsets count whole lines and a line is the number of its
production. `offset` is `run_forwarder`'s variable, `pumped` the one of `_pump`:
the former only changes when `_pump` returns. Each connection has its own
frames in flight, because the listener may still be reading from a dropped
connection when the next one is open. A write to a dead connection is noticed
at once, later or never.

**Ingester.** Lines again, each a record or not decodable (`bad`). A flush is
three kinds of database calls in the code's order: `AddLogs`,
`ExtractBounties`, `SavePosition`; each may raise, before or after its effect.
A raise drops the batch and starts over at `position`; an error that names a
closed connection ends the worker.

**AtLeastOnceLog.** A line may be handed over any number of times, a checkpoint
is not put beyond a line that was not handed over, and while the promise stands
and the worker is alive every line is handed over. For the forwarder "handed
over" is drained to a connection, or passed over by the lag cap, and the
checkpoint is the saved offset; for the ingester it is a committed row with its
bounties, or a line that is no record, and the checkpoint is the saved position. A truncated file
ends the promise, and so does, in the ingester, a failed flush behind an
undecodable line (`ingest_reread`).

**Collector.** Docker's containers start and stop; a start event reaches only a
connected watcher. `active` is the worker's dict of futures; a thread that is
done and a future that is done are two steps, and `_spawn` looks at the future.
Streams, the watcher and the list call queue for the threads of one pool.
`Die` is a crash, after which systemd starts the worker again. `ScanRaises` and
`WatchEnds` are the ends the worker takes for normal ones (`collector/worker.py:881`,
`:898`): the reconcile loop is cancelled, the threads that stream go on until their
containers stop, the unit exits with status 0 and nothing starts it again (`over`).

**DeckyLifecycle.** A request creates rows and a task named after its first
row. `swarm` is chosen once: with an enrolled host every request goes to it, else the
API does the work. `MarkRunning`, `LocalWork`, `Seal` are the local strategy,
`AgentAccepts`, `Accepted`, `DispatchRaises` the swarm one, `AgentFinishes` the
agent's job with its push, `FindOpen` and `ApplyDelta` the heartbeat handler's
two sessions. `sent` is the configuration a task hands on: a deploy that adds to the
fleet sends the deckies it saw in the table with its own
(`api_deploy_deckies.py:190`), and the job pushes a delta for each of them
(`agent/executor.py:99-123`), whosever rows are open. A push may fail, and each database
call of the handler or a task may raise: the delta is dropped (`DeltaRaises`), or the
task gives up with its rows as they are (`TaskRaises`). One host at most is modelled, and
not the death of the swarm controller.

**Updater.** One action per file operation, installation, restart and probe of
`run_update`, `run_update_self`, `run_rollback` and the automatic rollback; the
updater may die before each of them and inside an extraction, an installation or
a removal. What a process runs is what a venv held when it was started; which
venv is decided by `/usr/local/bin/decnet` under systemd (`Started`), which an update and a
self-update repoint in turn (`Heal`), and which a rollback leaves alone. A repoint that
fails is only logged (`stuck`). At first only the agent's tree exists, as the
bootstrap leaves it. The first installation into a tree creates its venv and
brings the dependencies; if that one fails or is cut off, the later ones do not bring
them either (`Bare`). What the unit files say, which a release may replace, is left out.

**EventBus.** One client with its subscriptions of one pattern, its reader task
and `close()` in two steps (the reader is cancelled, then the subscriptions are cleared), and the
server's connection with its queue and writer. `subscribe()` only schedules the
SUB frame (`SendSub`).

**Webhook.** One subscription row. `loop` is the epoch of `_run_with_bus`,
`consumer` the row's consumer, `task` the deliveries; `Fail` reads the counter,
`Bump` writes it, `Trip` disables the row, each in its own session; each of these calls,
and the one that resets the counter, may raise and is then swallowed. When the list of
subscriptions raises, the epoch ends and the worker connects again (`EpochEnds`); the
deliveries of the old epoch go on and set a reload flag that nobody reads (`orphans`).

## 3. Runs

| Run | Instance | Shows |
|---|---|---|
| `queue` | 2 topologies, 1 watch loop, 2 mutations, 1 crash | claims return the oldest unresolved row; outcomes are earned; re-executions are at most the crashes; pending rows of live topologies are claimed; claimed rows are resolved unless a loop died |
| `queue_race_once` | 2 watch loops, no crash | **violated** `AtMostOnce` (finding) |
| `deploy` | master: 1 topology, 2 jobs, racing or not, dry runs; agent: 1 topology, 2 contents, all three callers, 2 changes, 1 fault | always: nothing in Docker while pending, with a compose file only from a dry run, and with a reliable Docker transient statuses end; without a race: live topologies are complete in Docker, at rest status and Docker agree (but for a dry run's file); agent: the resync flag does not stay for ever, drift is repaired |
| `maze` | ops: 3 LAN names on 2 subnets, 2 deckies, 1 service, 1 address list to patch; 3 mutations, or 2 with an API call or a fault, or 1 with 2 API calls and a fault; queue: 1 topology, 1 job, 2 watch loops, 2 mutations | Docker follows the rows; no decky loses its home LAN but by a patch; a failed mutation does not leave the topology shown as active; an outcome is final once no loop has its row in hand |
| `ops_fleet` | 2 LAN names, 2 deckies, 2 mutations | **violated** `FleetHarmless` (finding) |
| `agent` | 2 topologies on one agent, 2 contents, all three callers, 1 change, 1 fault | the agent's rows describe what it runs; a teardown is final |
| `agent_flag` | 1 topology, no faults | **violated** `FlaggedForContent` (finding) |
| `logs` | collector: 2 containers, 3 threads, 1 start or stop, 1 break, 1 death; forwarder: 3 lines, lag cap 2, 1 rotation, 1 cut, 1 crash; ingester: 3 lines, 1 rotation, 1 failure, 1 restart; batches of 2 | forwarder and ingester implement `AtLeastOnceLog` and are never stuck; shipped lines are accounted for and an undisturbed copy is exact; bounties have rows, duplicates are paid for; a container has one stream at a time and orphans are picked up |
| `ingest_reread` | 3 lines, 1 failure | **violated** `UncommittedReread` (finding) |
| `collector_pool` | 2 containers, 2 threads, 1 break | **violated** `OrphanPickedUp` (finding) |
| `workers` | lifecycle: 2 deckies, 2 rows, with a swarm host or without, 1 dispatch that raises, 1 failing push or database call, 1 crash; updater: 3 releases, 2 requests, 1 death; bus: 2 subscriptions, queues of 1, 3 events; webhook: 2 tasks, threshold 2, 3 events, 2 changes, 1 bus restart, 1 raising database call | rows end, and as their attempts did; reported updates run, failed ones restore; subscriptions stay, the newest event arrives, consumers wake; disabled webhooks go quiet and trips are earned |
| `update_rollback` | 2 releases, 1 update | **violated** `RolledBackRuns` (finding) |

**Bounds.** Two actors are the smallest number that race; a third repeats what
the second does, as no action counts actors. Two mutations of a topology
are enough for a row to be overtaken or mistaken for another. Three lines with
batches of two give a full batch, a partial one and a boundary inside the file.
One rotation, one cut, one failure and one crash combine
in every order. Three mutations are enough to add
a LAN, attach a decky to it and detach it or remove the LAN again, and three
names for a bridge to be swept by another LAN on its subnet. Two rows are one batch of two deckies or two requests that may
overlap. Two topologies are enough for one to supersede the other on an agent,
and two contents for a row to describe the wrong one. Queues of one are full
after one event, so every drop happens. Two updates are enough for a request to
meet what a failed one, a first one, a self-update or a death left behind. Two deckies are
enough for a deploy that adds one and sends the other, and one raising call for each place
where an exception is swallowed. Three threads for two
containers are the smallest pool in which watcher and list call still find
a thread; two show what happens when they do not. Model values are used for
ids; symmetry is not used, since most runs check liveness. Every run is
exhaustive within the bounds, in seconds to about four minutes.

`MaxInFlight = 1` in the agent's runs bounds the calls the master has in
progress at once; calls still overlap on the agent, because the work of a
call that timed out goes on next to the following one.

**Deadlock.** `CHECK_DEADLOCK FALSE` stands in every run, because every bounded
system really comes to rest: a deleted topology stays deleted, a queue is drained, a
worker has exited or waits for a line, an event or a request beyond the bound.

**Fairness.** Weak fairness of what a scheduler runs by itself: the watch loop
(its sleep is bounded by `poll_interval_secs`), a job that is not killed, the
forwarder's and the ingester's loops, the listener's task per connection, the
agent's job and its heartbeat loop, handlers and threads that have work left,
the collector's reconcile loop and threads, the bus tasks and a consumer that
comes back for its next event, the webhook loop (its wait has a timer), and
restarts where systemd units have `Restart=on-failure` (mutator, forwarder, bus, and the
collector after a crash, but not after its quiet end).
None is assumed for operators, failures, crashes, Docker's start events or the
restart of the API, and none for the collector's event watcher.

**Conditions in the properties.** Some properties are stated as "unless": the
condition names a history variable (`crashes`, `rotations`, `failures`,
`raced`, `overlap`, `deadPush`, `unwoken`, `unguarded`, `excuses`), never an assumption on the
future, and the same run reaches states with and without it. Each names an
exception that the code really has:

* `RowsDescribeDocker` and `DriftRepaired` need that Docker did not fail and
  that calls did not overlap. An apply that times out on the master goes on in
  the agent's thread; when it ends after the next one, the row is the
  later one's and the containers are the earlier one's, the hash matches
  and nothing repairs it.
* `TornDownIsGone` excludes topologies that were pushed while not live: the
  resync pass lists flagged topologies of any status
  (`engine/deployer.py:940`) and `services_live` does not look at the status,
  so a flag set before a teardown brings the containers back after it.
* `WiresFollowRows` ends with the first mutation that was refused or overlapped
  with an API call or a teardown, the first fault, a fleet redeploy that swept
  containers, a rename, a patch that replaces addresses, or a container left behind by
  `remove_decky`: nothing repairs any of these before a redeploy. `HomeKept` has two
  conditions only: a rename leaves the addresses under the old name, and a patch of the
  addresses that passes the validation may put another LAN first.
* `FailedMutationShows` excludes topologies on which two jobs worked at a time,
  since the second may write `active` over the loop's `degraded`, and behaviours
  in which a watch loop died between the two writes.
* `Woken` excludes subscriptions whose queue was full when the sentinel was
  put, or that were opened after the reader had ended.
* `TripEarned` excludes overlapping deliveries, whose counters overwrite each other, and
  counts from the last success the database recorded: one whose write raised does not
  reset the counter (`webhook/worker.py:257-263`).
* `UpdatedRuns` lets the agent run something else when it is started through the symlink and the
  last repoint failed; `FailureRestores` excludes deaths of the updater, requests that
  raised (a rename, `systemctl`, the creation of a venv) and manual rollbacks.
* `PendingUntouched` and `RestMatchesDocker` let a topology that a dry run has read have a
  compose file.
* `OutcomeFinal` is about rows that no loop has in hand: of two loops with one row the later
  one overwrites the outcome.
* `OutcomeMatchesAttempt` and `EveryRowEnds` end with the first requests whose configurations
  share a decky while both are under way, the first late timeout and the first crash;
  `EveryRowEnds` also with the first lost push or raising database call, since nothing
  repeats either. `SuccessesEarned` has no condition.
* `OrphanPickedUp` is about a collector that runs or crashed; nothing starts it again after
  its quiet end.

## 4. Theorems

TLAPS proves the following for every value of the constants: any sets of
topologies, jobs, watch loops, containers and deckies, any batch and queue sizes
and thresholds, and any bound on faults and crashes. Each property is reached
the same way: an inductive invariant that implies it, with one lemma per action
for the step. TLC checked each invariant on the instance of the run first.

*MutationQueueProofs.* `TypeCorrect`; `QueueInvariant`; from it
`ClaimsInOrderTheorem`, `OutcomeEarnedTheorem`,
`OldestUnresolvedFirstTheorem` and `OutcomeFinalTheorem`; and, for one watch loop,
`LoneAtMostOnce` and `LoneRerunsPaid`.
`ClaimsInOrder` and `OutcomeEarned` are not inductive. `QueueInv` adds that the
rows inserted are exactly `1..rows` (so a new row is younger than all others),
that a row in a loop's hand belongs to the topology it drains and is no longer
pending, and that a loop about to write an outcome has entered the op. The one
interesting case is the claim, whose facts are a lemma of their own
(`ClaimFacts`). For one loop a further invariant says that as long as it has
not died, the row in its hand is the only one in `applying`: then the SELECT
returns the row the UPDATE moved, which fails with two loops
(`queue_race_once`). `LoneRerunsPaid` counts the executions beyond the first, of all rows
together. What is inductive is a larger set (`Charged`): with them the executions that are owed,
because a dead loop left a row in `applying` whose op it had entered, or because the loop
has claimed such a row. A crash adds one element, every other step at most turns a debt
into an execution.

*TopologyDeployProofs.* `DeployInvariant`, and from it `TypeCorrect` and
`PendingUntouchedTheorem`; `SoloInvariant`, and from it `LiveIsUpTheorem`,
`RestMatchesDockerTheorem` and `LegalHistoryTheorem`.
`PendingUntouched` rests on the order inside `deploy_topology`: a job in a
Docker step has committed its first transition (`TouchedMoved`), and no job
ever writes `pending` back (`NeverToPending`); a compose file of a pending topology is
in `planned`. The actions fall in four groups
(requests, transitions, quiet steps, steps that touch Docker) with a lemma
each; `QuietStep` and `DockerStep` state what a step must satisfy to keep the
invariant. `SoloInv` is about the topologies outside `raced`: at most one job
works on such a topology, the status it checked is still there when it is written,
and at each of its steps Docker has what its earlier steps did. A race on one
topology takes nothing from the others, which a condition on whole behaviours
could not say.

*AgentTopologyProofs.* `AgentInvariant` (types, and what a caller on the master and
its request on the agent have in common); `CleanInvariant` and from it
`RowsDescribeDockerTheorem`; `GoneInvariant` and from it
`TornDownIsGoneTheorem`. `CleanInv` holds while no two requests met on the agent
and its Docker did not fail: one request at a time, one row at most, a request
finds at each place what its earlier steps left (`PlaceInv`), and a topology that no
request is in the middle of is described by its row, or by having none
(`BaseInv`). `GoneInv` says of a torn-down topology that it runs nothing, or that a
request accounts for it.

*IngesterProofs.* `TailInvariant`, `TypeCorrect`; `RowsInvariant` and from it
`BountyHasLogTheorem` and `DuplicatesPaidTheorem`; `KeptInvariant` and from it
`PromiseKept`, the step simulation of `AtLeastOnceLog`. `TailInv` describes the
stretch of the file between the position and the cursor: behind the last record
of the batch only undecodable lines were met. `RowsInv` counts rows and bounties
against failures and restarts at each step of a flush. `KeptInv` says which
lines have been handed over at each point of a pass, and that the position in
memory may be ahead of the rows only if there is an undecodable line, where a
failure ends the promise.

*LogPathProofs.* Collector: `CollectorInvariant`, `NoSecondStreamTheorem`; a
container that waits in the pool's queue waits there once and has its entry in
`active`. Forwarder: `ShipInvariant` and from it `ShippedAccountedTheorem` (a
batch whose `drain()` is awaited is on a connection, received or lost);
`MirrorsLogTheorem` (what was received, with what is on the one connection, is
the beginning of the file up to the position and the batch being drained);
`PositionsInvariant` and from it `ForwarderPromiseKept`, the second step
simulation of `AtLeastOnceLog`. The composition: `PathTypeCorrect`. Its one part that is
more than a type is that the pool never runs more jobs than it has threads (`PoolInv`):
the threads in use are the streams that are read, plus one for the watcher and one
for the list call, and a job leaves the queue only while that sum is below the size.

*WorkersProofs.* Updater: `UpdaterInvariant`, `UpdatedRunsTheorem`,
`FailureRestoresTheorem`; the invariant says for each step of a request which
release is in `active.new`, `active`, `prev` and the venv, which venv the symlink names unless
its repoint failed, what the agent was started from, and where the last
good release is between rotation and rollback. Bus: `BusInvariant`,
`StaysSubscribedTheorem`; the invariant speaks of what the server will believe
when the frames in flight are handled, because SUB frames are sent by tasks that
run late. Webhook: `HookInvariant`, `TripEarnedTheorem` (an action property); while
nothing overlaps there is one delivery task at most, and the counter in the row is at
most the number of deliveries that failed since the last recorded success (less, when a call
that should count one raised). The four parts together: `WorkersTypeCorrect`, from
the invariants of the parts (`PartsInv`) and the fact that a step is one of its subject and
a stutter of the others (`PartsStep`).

*DeckyLifecycleProofs.* `LifeInvariant` (a task updates rows of its own request only, the
deltas of a job name deckies of the configuration it was sent, and the row looked up for one
is of that decky and operation), `OutcomeMatchesAttemptTheorem` and
`SuccessesEarnedTheorem`. The latter is about cardinalities: every row that shows a
success is mapped to an attempt that had one, and a success is spent once per decky.

*MazeNETProofs.* The composition: `MazeInvariant`, and from it
`FailedMutationShowsTheorem`. Outside `raced` a topology has one job at most, which
finds the status where it put it (`JobsFit`); a topology on its way to its first
deployment is unknown to the queue (`FirstDeploy`), so that nobody writes `active`
over a loop's `degraded`; and an active topology with a failed mutation has a loop about to
degrade it (`FailureNoted`). The run has one job, since two are too many states; the theorem
is about any number. The ops: `HomeInvariant`, and from it `HomeKeptTheorem` (an
action property). `HomeInv` says that what an op read when it began
(`job.cfg`), and what a live service change read (`api.cfg`), agree with the row
on its home as long as the row has the same id and no address list was patched, that ids are not given out again, and that
`detach_decky` and `remove_lan` hold no LAN that is somebody's home. It is
needed because each of them writes back a whole `decky_config` it read several
steps before, next to the other's writes. The lemmas `PutHome`, `PopHome` and
`HydrateHome` are about the lists of addresses: no put, no pop of a visited LAN
and no backfill changes the first one.
`WiringInvariant`, and from it `WiresFollowRowsTheorem`. As long as there is no excuse, at
most one of op, service change and teardown is at work (`OneAtATime`), and for each
place of each op the invariant says how far the others are behind the rows. `Tidy` is
about the rows: a row has one edge for each of its addresses, but for the LAN the op is
about to link or unlink (`RowsEdged`); an address per LAN (`RowsOnce`); LANs that exist
and have their bridge (`LansKnown`, `Bridged`); and a compose file that serves what the rows
say (`FileServes`). `Docked`
says that a container has the addresses of its row, with the one `attach_decky` is about
to connect, and without the one `detach_decky` or `remove_lan` is about to disconnect. A
failed validation is an excuse, so at `validate` the invariant is about valid rows only.
`Docked` holds only while there are no strays, that is containers in the topology's own
project whose decky has no row, or a row that is not running: `remove_decky` leaves
the containers that deploy started, and an `add_decky` of the same name can then not start and
leaves a row beside a container with the addresses of the old one. The search for the proof
showed that a stray also takes addresses from deckies added later; five mutations are needed, two
more than the run has.
`TypesInvariant`, and from it `OpsTypeCorrect`, the `TypeOK` of the run, for instances in which every
LAN has a host for each decky (`RoomForAll`). The interesting part is what `hydrate` gives out:
members with an address hold one host each, so that enough are left for those without, and the
n-th of them finds the n-th free host (`BackfillsAddress`, by counting; `RankTaken`). It needs
that a decky has one address per LAN in the row, in what the op has read and in what the service
change has read (`RowsGood`, `JobGood`, `ApiGood`), and that no edge outlives its LAN:
`remove_lan` drops the LAN only when its visitors, who are all the members it has, have been
unlinked one by one (`OpLan`).

*Assumptions.* `MutationQueueAssumption`, `WorkersAssumption`, `PathAssumption`,
`MazeAssumption`, `MutationOpsAssumption` (a patched address list is not empty and
has one address per LAN), `ReleasesAssumption` (no release is named like one of the
marks for a missing, cut off, broken or bare tree) and
the assumptions of the component modules: bounds are natural numbers, batches,
queues and pools have a positive size, the sets named are not empty. TLC
evaluates them in the runs. The theorems whose names begin with `Lone` assume one
watch loop; `TypesInvariant` and `OpsTypeCorrect` assume `RoomForAll`.

*The abstract specification.* `AtLeastOnceLog` splits into `Safety` and fairness;
the two refinements are proved for `Safety`, and TLC checks them with fairness
(`CheckpointsKept`, `NeverStuck`).

*Only model-checked:* all liveness properties (`TransientEnds`, `FlagDrained`,
`DriftRepaired`, `PendingClaimed`, `ClaimedResolved`, `NeverStuck`,
`OrphanPickedUp`, `EveryRowEnds`, `LatestArrives`, `Woken`,
`DisabledGoesQuiet`) and the fairness in `CheckpointsKept`, because fairness and ENABLED are
out of the prover's reach; `DeployTypeOK` as a conjunction, because theorems of a module
about an instance cannot be used next to those about its own copy (its two halves are
proved, each in its own module: `TopologyDeployProofs`, `TypeCorrect`, and `AgentTopologyProofs`,
`AgentInvariant`). `OpsTypeCorrect` says nothing of exhausted subnets.

## 5. Disagreements with docs, comments and tests

The findings in `PROJECT.json` are backed by runs that end in a
counterexample. Further observations made while modelling, without a run:

* `transition_status` says "Legal-only status transition"
  (`topology/persistence.py:100`), but checks in one session and writes in
  another: two racing jobs record illegal transitions.
* A delete admitted next to a deploy removes the rows of a topology whose
  containers then run with nothing that knows of them
  (`web/router/topology/api_delete_topology.py:40`).
* `docker.from_env()` stands outside the `try` of `deploy_topology`
  (`engine/deployer.py:1067`): when it raises the topology stays `deploying`.
* A mutation that fails during a teardown takes the legal step `tearing_down`
  to `degraded` (`mutator/engine.py:300`); the teardown's own last transition
  then fails.
* "we never leave the repo in an invalid state" (`mutator/ops.py:8-9`): the
  validation comes after the writes and nothing is undone, so after one refused
  op every later one is refused too.
* "The reconciler is the sole writer from here on" (`mutator/ops.py:22-23`):
  `engine/services_live.py:269` writes the same `decky_config`, both write back
  what they read, and one of the two changes is lost.
* `_materialise_decky_services_diff` renders the compose file before it stops
  the removed services (`mutator/ops.py:497`), which the comment in
  `_materialise_decky_remove` warns of; they go on running.
* `remove_decky` of a decky that deploy started acts in the wrong compose
  project and removes nothing; a decky added live survives the teardown.
* A LAN added on the subnet of a LAN without members takes that LAN's bridge
  away before it is refused, and the bridge does not come back.
* `docker.from_env()` stands outside the `try` of `_materialise_lan_change`
  (`mutator/ops.py:143`), although its docstring says that failures are logged.
* A crash between claim and outcome leaves the row in `applying` for ever
  (`mutator/engine.py:263`), and the next claim returns it instead of
  the row it moved.
* A stale resync flag revives a torn-down topology (`engine/deployer.py:940`),
  although the function's docstring speaks of an ACTIVE topology.
* Lines whose `drain()` returned are lost when the connection breaks with
  them in flight (`swarm/log_forwarder.py:169`), lines that `_pump` had sent before
  it raised are shipped again (`:223`), and a truncated log that has
  grown back beyond the offset is not recognised (`:276`).
* "On connection drop or close, every subscription is woken via a sentinel"
  (`bus/unix_client.py:14`): one with a full queue is not, and its consumer waits for ever
  behind the events it had.
* "the reconciler is the safety net for productive cases" (`collector/worker.py:879-880`): the
  return this comment explains ends the worker, which cancels the reconcile loop, and the
  unit exits with status 0, which `Restart=on-failure` does not restart.
* "Lifecycle rows track THIS call's deployments only"
  (`web/router/fleet/api_deploy_deckies.py:246`): an additive deploy sends the whole fleet
  and the agent pushes its outcome for each decky (`agent/executor.py:99`), so that of two
  deploys at once one seals the other's open rows, although nothing failed.
* An installation that creates a venv and fails leaves a directory into which all later ones install
  with `--no-deps` (`updater/executor.py:266`): the updater, once started from it, does not
  come up.
* A patch of `update_decky` that replaces `ips_by_lan` is written without any Docker work
  (`mutator/ops.py:939-941`).
* "the worker self-heals if the bus ... restarts mid-run"
  (`webhook/worker.py:83`): the epoch goes on with the dead connection, and the
  consumers it starts from then on receive nothing.
* Lifecycle rows: a late timeout overwrites a terminal row
  (`lifecycle/strategies.py:340`); a lost push is never repeated
  (`agent/heartbeat.py:191`); open rows younger than an hour survive a restart
  of the API without a task (`web/api.py:133-141`); of two overlapping attempts
  one seals the other's row (`api_heartbeat.py:179`).
* `topology/status.py:24-26` calls `degraded` unreachable in v1; deploys and
  the mutator both write it.

## 6. Abstractions and limits

* Payloads, names, messages, log formats and TLS are left out; a hash is the
  content it is taken of.
* Offsets and positions count whole lines; a trailing line without newline is
  not modelled, and neither is the busy loop it causes in `_pump`.
* Docker is three facts per topology, except in MutationOps; single deckies and
  LANs are not told apart elsewhere.
* In MutationOps a compose command acts on all its targets or on none, one op
  runs at a time, coordinates, archetypes and service configs are left out, and
  so are the checks on them and a patch of `update_decky` that rewrites the name or empties the
  addresses.
  A LAN has a free host for every edge that `hydrate` has to give an address to
  (`Backfilled`); in the code an exhausted subnet makes `hydrate` raise. `HomeKept` and
  `WiresFollowRows` do not depend on it; `OpsTypeCorrect` states it as a hypothesis.
* In AgentTopology a status transition is one step (TopologyDeploy splits it),
  and a refused blob, a lost report and a timeout are one kind of fault.
* The flat-fleet deploy is not in TopologyDeploy.
* What `_extract_bounty` recognises is one effect per record.
* The retries inside a webhook's `deliver()` are one outcome.
* A worker host's unit files, its auxiliary units and the agent's pid file are not in Updater.
* All bus subscriptions have one pattern; the matching of topics is left out.
* The optimistic version of a topology appears only as a reason to reject an
  enqueue.

### Not modelled

The repository holds some 113,000 lines of implementation in 694 files. About
half of them are honeypot templates, protocol parsers, fingerprinting,
scoring rules, content generators, schema migrations and CRUD endpoints: they
keep no protocol state, or what they compute is text and numbers. They are
listed in `PROJECT.json` with the reason.

## 7. Plan

Done: the modules above, in the order status machine, queue, deployer, their
composition, log shipping, ingestion, lifecycle, agent-resident topologies,
updater, bus, webhook, collector, mutation ops; the refinement of the checkpoint promise; the theorems of section 4.

Next, by importance:

1. Composition of the mutation ops with the queue (two ops of racing watch loops
   on one topology), and the composer's version check.
2. The attribution mergers as pure operators against a reference definition.
3. Fleet reconciler and reaper.

Proofs to add: for one watch loop, that the queue implements an abstract executor that runs
the mutations of a topology in the order of their insertion; the types of `MutationOps` with the
exhausted subnet modelled as a failing `hydrate`.
