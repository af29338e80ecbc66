# Formal models of Jobs and Agent Wakes

This directory holds TLA+ models of two parts of the repository. The first
decides whether a remote command runs, how often, and what is said about it
afterwards: the *Jobs* that a Control Server admits for a Runner and that the
Runner executes. The second decides whether a Durable Agent gets its turn, and
only one: the *Wakes* that the Server hands to a model Host. TLC checks the
modules on small instances; TLAPS proves theorems about them for every value of
the constants.

`PROJECT.json` is the machine-readable side of this file: it names the source
lines of every definition (`map`), the runs with their properties, a mutation of
the model for each property, the hazards the properties are aimed at, and the
theorems.

    tlc -workers 2 -config MCRegistry.cfg MCRegistry
    tlapm RunnerRegistryProofs.tla

## The system

A client (a tool call over MCP, HTTP or a gateway) asks the Server to run a
command on a registered Runner. The Server keeps the authoritative record of the
Job, queues a start request for the Runner, and answers status reads, log reads
and stops from that record. The Runner polls, or holds a stream, receives the
request, executes it in a process tree of its own and reports numbered updates.
Either side may restart, connections break, and a second Runner process may take
over from the first.

| Component | State | Operations | Modelled by |
|---|---|---|---|
| Lifecycle vocabulary (`webcodex-core/src/runner_job_lifecycle.rs`) | none | classification of lifecycle values, rules for reports and snapshots | `JobLifecycle` |
| Runner registry (`webcodex-runner-registry`) | Runner records with lease, connection and liveness; retired instances; `jobs_by_id`, `pending_by_id`, `queues_by_runner`; cleanup intents; suppressed terminal results | start, poll, touch, update, result, read, stop, hidden Jobs (promote, cancel, clean up), register with inventory, disconnect, sweeps, expiry | `RunnerRegistry` |
| Terminal receipts (`receipts.rs`, `webcodex-store/src/job_receipts.rs`) | the rows of `wc_job_receipts`; receipts captured and not yet written | capture at unlock, write, cap, hydrate at start | `RunnerRegistry` |
| Runner executor (`JobManager` in `webcodex-runner/src/main.rs`, `webcodex_runner/shell.rs`) | records with slot and published child, local queue, stop flags, shutdown flag, workers | enqueue, start queued Jobs, start, spawn, publish, run, finish, stop, shutdown phases, prune | `JobManager` |
| Runner delivery queue, transport and dispatch (`main.rs`, `webcodex_runner/transport.rs`, `dispatch.rs`) | undelivered updates per Job, the current sink, the delivery worker, sessions and their channels | enqueue, pick, send or post, acknowledge, suspend, register, replay | `UpdateDelivery` |
| Server and Runner together | the two above, requests and updates on their way | dispatch, report, register, replace a process, restart | `JobSystem`, which implements `JobContract` |
| Detached Jobs (`detached_job.rs`) | durable record of a supervisor process | launch, adopt, observe, end | planned; the transfer between instances is in `RunnerRegistry` |
| Job observation (`src/job_observation.rs`) | wait tokens | bounded wait, resume | planned |
| Server shutdown (`src/server_shutdown.rs`) | phase, open work | ordered drain | planned |
| Agent Wakes (`webcodex-store/src/agent_wake.rs`, the Endpoints of `communication.rs`, `src/agent_wake.rs`) | rows of Wakes, attempts, Endpoints and the task attempt's carrier; process-local Host binding, schedule and worker | post, claim, release, prepare, verify, dispatch, finish, consume, activate; attach, detach, recover; register, unregister; takeover | `AgentWake` |
| Agent tasks (`agent_task.rs`) | task and attempt rows | start, continue, expire, complete | the continuation and its expiry in `AgentWake` |
| OAuth (`webcodex-store/src/oauth.rs`) | codes, tokens, families | authorise, exchange, rotate, revoke | planned |
| Other stores (goals, conversations, memory, audit), gateways, CLI, desktop, computer use, schemas | mostly sequential transactions, request translation, platform I/O | | not modelled; the reasons are in `PROJECT.json` |

**How they interact.** The registry hands a start or stop request to a session
in `poll_checked` (HTTP polling and the streaming transports share it). The
executor's `enqueue` and `stop` receive them on dispatch threads. The executor's
`record_update` numbers each change; the registry accepts an update in
`update_job_checked` only from the process that holds the lease and only if its
number is new. An update that comes late over a replaced connection of that
process is applied too, but does not count as a sign of life. A start request
that the Runner cannot decode may be answered with a result instead
(`complete_checked`). On a registration the Runner sends a complete inventory of
its Jobs, from which `reconcile_inventory_locked` repairs, loses or rebuilds
records. When the registry's lock is released, terminal verdicts that became
visible are written to SQLite.

A Message or a task attempt makes a Wake row. A request handler that committed
one tells the continuation controller, whose worker claims the Wake for the
bound push adapter, crosses the durable dispatch fence (`prepared`), calls the
Host and records the outcome; or the View of an MCP App does the same with
calls of its own. The model turn that results consumes the Wake. Endpoints are
attached, replaced, recovered and detached by other requests meanwhile, each in
a transaction of its own.

**What is hard.** Late messages of a replaced process; the same update over the
live stream and in an inventory; a verdict decided by the Server while the
Runner decides another; a restart between the unlock and the write of the
receipt; threads of the executor that pass each other between two lock
sections (admission, spawn, publication, stop, shutdown); the last slot that is
freed while a Job is just being queued; two locks between a record and its
delivery; a sink that is installed before the replay; a Server that is replaced
after it called a Host and before it wrote so. `hazards` in `PROJECT.json` lists these
with their lines.

**What makes the components correct.**

* Registry: a command is handed out once at most; a Job that has not ended
  belongs to a process that can still report about it; a verdict that a client
  saw does not change, neither by late updates nor by a restart, and a late
  result replaces nothing but a loss that the Server itself declared; the queue,
  the pending requests and the records agree.
* Executor: processes fit into the slots; a Job that has ended is quiet; what is
  said about a command (`not_started`) is true; a command is spawned once; every
  accepted Job ends; a shutdown reaches everything that runs or may still start.
* Delivery: the Server sees the steps of a plan in order and the outcome that
  the Runner recorded; an end is not forgotten; it arrives while a session lives.
* Both together: a command runs once at most, nothing that did not run is shown
  as completed, and what is shown as ended is over.
* Wakes: a Wake becomes one turn at most; no Message falls between two Wakes; a
  turn whose Endpoint was replaced can no longer act for its task; an
  opportunity to dispatch is not slept through.

## Modules

* `JobLifecycle` – lifecycle values, their classes, the Server's rules for
  execution states and snapshots. `Timeout` and `TimedOut` are two values there,
  as on the wire.
* `RunnerRegistry` – the Server's registry of one logical Runner.
* `RunnerRegistryProofs` – theorems about it.
* `JobManager` – the Runner's executor.
* `JobManagerProofs` – theorems about it.
* `UpdateDelivery` – the way of one Job's updates from the Runner's record to the
  Server's. `UpdateDeliveryProofs` – theorems about it.
* `JobContract` – what a client may rely on. `JobSystem` – instances of
  `RunnerRegistry` and `JobManager` joined by a network; implements the contract.
  `JobSystemProofs` – the proof that it does, and that what it says of commands is
  true. `JobSystemRegistry` – the proof that it implements `RunnerRegistry`.
* `AgentWake` – the Wakes of one Durable Agent. `AgentWakeStore` – what every
  transaction does to the tables, `AgentWakeProofs` and `AgentWakeEventProofs` –
  theorems about its safety and about its events.
* `MCRegistry`, `MCManager`, `MCDelivery`, `MCJobSystem`, `MCWake` – instances for
  TLC.

An operator whose comment begins with *Mutant* is a plausible mistake in the
definition after it; no specification uses it. `PROJECT.json` says which property
notices it.

### `RunnerRegistry`

Every operation of the registry takes one async mutex for its whole body, so it
is one action. Some bodies are long (`register_session` ends the Jobs of the
replaced process, expires recoveries, applies the losses, then the snapshots,
then removes records that await cleanup); they are written as a chain of
functions on Job records (`Orphaned`, `AfterLosses`, `Reconciled`,
`DropCleanedUp`) and applied in the order of the code. The one step outside the
mutex, the write of a receipt, is captured by `CaptureReceipts` at the end of
every operation that may end a Job (`ReceiptRegistryGuard::drop`) and is an
action of its own, `WriteReceipt`, that a crash (`Restart`) or an error
(`LoseReceipt`) may prevent.

| State | Code |
|---|---|
| `lease`, `retired` | `RunnerRecord`: `runner_instance_id`, `connection_id`, `last_seen`, attachment; retired instances |
| `jobs` | `jobs_by_id`; `recovering` is the recovery overlay, `candidate` a Job admitted by this process, for which a receipt may be captured, `hydrated` a record made from a receipt |
| `pend`, `queue` | `pending_by_id` restricted to start requests, `queues_by_runner` |
| `unwritten`, `receipts` | receipts between unlock and write; rows in SQLite |
| `intents`, `suppressed` | hidden Jobs whose cleanup is retried; results that were projected |
| `handed`, `known`, `sessions`, `conns` | history: who received the start request, which Jobs exist, which sessions may still send something |
| `overturned` | history, no field of the code: Jobs whose terminal verdict a result replaced |

Runner processes are an open environment: a process that was handed a Job may
report anything well formed about it, in any order, any number of times, over
any session ever established, current or not; and it may answer the start
request with a result (`Results`: which, success or failure). The guards of the
code decide what is accepted. Clocks are nondeterministic: the online window, the recovery
deadline and the retention periods may end at any moment.

`CompleteJob` is `complete_checked` for start requests. A Runner submits such a
result for a request it cannot decode and that names no Job, or whose kind it does
not know (`dispatch.rs`, `submit_decode_failure`). It is accepted while the
request is pending, and then the Job's record becomes `Completed` or `Failed`
*whatever it was before*: unlike `update_job_checked` and
`reconcile_inventory_locked` this path has no terminal guard. Most ends remove the
pending request. A loss declared by a read past the recovery deadline
(`refresh_job_status_locked`) does not, so a late result can replace `Lost`,
although a receipt may have been written; `overturned` notes it. `VerdictFinal` and
the agreement in `ReceiptAgrees` are about the other Jobs; `OnlyLossesOverturned`
says how far the exception goes. A stop request leaves `pending_by_id` when it is
handed out, so no result answers one.

Left out: requests that are not Jobs and their results, log text, validation
progress, project inventories, access control, the idempotency index of detached
Jobs. The id of a detached Job is a hash of a key of the caller
(`job_updates.rs:610`), and after its retention the code admits the same key as a
new Job (the reliability document says at line 298 that keys are no permanent
tombstones); here an id is used once, so each Job of the model is one admission,
and `HandedOutAtMostOnce` is about admissions. An operation refused before it
changes anything is a step that is not enabled.

### `JobManager`

A step is what a thread does between two lock boundaries: one section under the
`lifecycle` lock, one `record_update` under the `jobs` lock, one load or store
of an atomic. `pc[j]` is the place of the thread that carries Job `j`: the
dispatch thread first, the worker later. `late[j]` is the dispatch thread of a
Job in the local queue, which still owes its `agent_queued` report, and
`stopper[j]` the thread that serves a stop. `waking` counts the threads inside
`start_available_queued`. `spawns` and `alive` are the processes themselves.

Three kinds of Jobs differ in control: shell Jobs (checked before and after the
spawn, child published in the record), validation plans (several commands; no
execution state is claimed) and structured Jobs (spawned inside
`execute_configured_command`, never published, result settled against the stop
flag).

Where the model allows more than the code: the loop of `start_available_queued`
goes on while the Job it started is still starting, where the code starts that
Job first; a stop may come at any time, also for a Job that the Runner never
saw. Where it assumes something: terminating a process tree succeeds, and a
start request is delivered again, if at all, while the record of its Job is
kept. The second is what the retention of terminal records is for; the
registry's `HandedOutAtMostOnce` says that the Server does not cause it.
One stop per Job is served at a time. Detached and SSH Jobs are not in this
module; the delivery of updates is `UpdateDelivery`.

### `UpdateDelivery`

One validation Job, because its progress cursor is what the Server checks most
strictly. `record_update` writes the record under the `jobs` lock and puts the
update into the delivery queue under another; `owed` is an update between the
two, once for the thread that carries the Job and once for the one that serves a
stop. `queue` is `JobUpdateDeliveryQueue`: the semantic updates, one coalesced
output, and the suspension. `worker` is the one delivery thread: it picks, sends
into the channel of a stream or posts over HTTP, and settles the result against
the sink that is current by then. `sink` is `current_sink`, which registrations
and dispatch threads install, the latter perhaps late. `chan` and `posts` are
the network; what a closed session still holds may arrive or not, and a post
that timed out may arrive after its repetition. `reg` is the registration:
the inventory is read, applied by the Server, the sink installed, the inventory
read again, and the queues repaired (`replay_snapshots_since`), each under its
own lock. `srv` is the Server's record with the checks of
`validation_progress`; a Server restart empties it.

`queue.skipped` is history and no field of the code. A suspended queue drops what
is recorded; `replay_snapshots_since` ends the suspension when the registered
inventory is as new as the records. It reads the records, then locks the queues:
if the Job moves on between the two, the suspension ends although something was
dropped, and `skipped` notes it. `NoSkippedStep` and `EndNotForgotten` except this
one case and say that nothing else makes the Server see a skipped step or lose an
end.

Left out: the Server's recovery deadline (it waits for the Runner), log text,
back-off times. `WorkReport` has one failure and one stop of a plan where the code
has several: a command that times out (`main.rs:4959`), a plan that fails before it
reports `running` (4698, 4786), a failure or stop reported with a cursor that has
already moved past the step (5000, 5045, 5078), and a stop that a worker sees
before the stop thread has recorded `stop_requested` (5589). The Server treats these
as it does the modelled ones: another terminal value, and a cursor that moves by
one at most. The stop of a Job in the local queue, which the stop thread ends itself
(5507), and the rule of `validate_snapshot` about `started_at`, which may refuse a
registration, are in `JobManager`; here the Job holds its slot and no registration
is refused for it. `Settle` joins two sections of the worker (564–574): that a
new sink is installed after the worker compared the sinks and before it
acknowledges is not in the model. A registration that fails leaves no session of the Runner
behind, so `MaxSessions` counts those that were opened.

### `JobSystem` and `JobContract`

`JobSystem` declares the variables of `RunnerRegistry` and `JobManager` and
instantiates both over them; its actions are conjunctions of theirs. `inbox`
holds requests that the process was handed and that no dispatch thread has
looked at, in any order; `sent` every update ever recorded, each of which may
arrive at any time, repeatedly, over any session of its process; a registration
sends exactly the executor's records. `Replace` is the death of the process
between any two steps. All Jobs are public; receipts are not written here, and
the orderly shutdown stays in `JobManager`, since a process that dies at any
moment covers what the Server sees of it. Every request reaches the executor:
results for requests that the Runner cannot decode are left to `RunnerRegistry`, of
which this is the instance with no `Results` and nothing overturned. A request is
handed to the process that runs; one handed to the open stream of a dead process is
a request whose answer was lost, which `Dispatch` has too.

The refinement mapping: a Job is `accepted` once the registry knows it; what is
`shown` is its record, reduced to unknown, open or its verdict; `runs` counts the
spawns of all processes together. `Show` of the contract lets several Jobs change
in one step, as a registration does.

### `AgentWake`

Every operation of the store is one SQLite transaction and so one step on `db`.
The controller's lock `binding_transitions` is held over the whole dispatch of
the worker and over each call of a View, but no transaction is: between two
steps of the worker other requests change the store. `worker.pc` is the place
of the worker in `dispatch_next_agent_wake`, `answer` a View's call between
its prepare and its verify, `calls` the request handlers between their commit
and their call on the controller, `sched` the entry of `scheduled_agents`
(absent, clean, dirty).

| State | Code |
|---|---|
| `db.wake`, `db.att` | `wc_agent_wakes`, `wc_agent_wake_attempts`; `hw` is the inbox watermark, `over` an expired claim lease |
| `db.ep`, `db.cur` | `wc_agent_endpoints` by controller generation, `current_controller_generation`; `window` is the retained Host window |
| `db.task` | the task attempt, its `attempt_controller_generation` and the carrier columns of `wc_agent_task_endpoint_executions` |
| `bind`, `fresh` | `bindings`, `attached_endpoints` |
| `box`, `told`, `turns` | what the Host and the turn got: the message, the watermark or controller generation in its envelope, and how many turns a Wake became |
| `gaveUp`, `unbound` | history: the last opportunity failed; a Host binding was withdrawn while its Endpoint carried the task |

Leases run out at any moment. Data nobody reads again is dropped: a revoked
attempt keeps its Wake only, a replaced Endpoint its lifecycle only. Registering
a Host is two transactions (withdraw, then enable); a failure between them is
what `Unregister` followed by any other step does. Left out: attention
events, recovery by fingerprint instead of the window, Views of different
windows, idempotent repetitions, completion of tasks.

## Runs

Bounds are constants. In `RunnerRegistry`: `MaxSeq` (update numbers),
`MaxConns` (streaming connections), `MaxRetired`, `QueueCap`, `MaxReceipts` (the
limits of the code, made small so that they are reached), `Reports` and `Results`
(the vocabulary of a Runner). In `JobManager`: `MaxOutputSeq` and `MaxStopSeq` bound
how late output is reported and a stop is served; `MaxConcurrent` and
`MaxActive` are limits of the code. In `UpdateDelivery`: `MaxRequired` is
`JOB_UPDATE_REQUIRED_PENDING_MAX` (8 in the code) and `ChanCap` the capacity of
a channel, both small so that they overflow; `MaxSessions`, `MaxOutputs` (the
number up to which output is reported) and `MaxStops` are bounds of the model. In
`AgentWake` all constants are bounds: `MaxWakes`, `MaxAttempts`, `MaxGen`,
`MaxMessages`, `MaxFaults`, `MaxCalls` (request handlers in flight).

| Run | Instance | Shows |
|---|---|---|
| `registry` | one structured Job, two processes, polling and two streams, update numbers to 2, failing results | `ActiveJobsOwnedByLease`, `HandedOutAtMostOnce`, `ReceiptAgrees`, `VerdictFinal`, `OnlyLossesOverturned` |
| `registry_two` | a structured Job that may be adopted by the second process and a shell Job, queue of length 1, one receipt, no results | `ActiveJobsOwnedByLease`, `ReceiptAgrees`, `VerdictFinal`, `TypeOK` and `QueuedExactlyWhenRequested` while Jobs compete for the queue and the receipts |
| `registry_revival` | as `registry_two` | a violation, see Findings |
| `manager` | a structured Job and a plan of two commands, one slot, output, stops and shutdown | `TypeOK`, `EndedIsQuiet`, `SpawnedOnce`, `ShutdownReachesAll`, `OnlyEarlyStopRefused` |
| `manager_progress` | a structured and a shell Job with output, no shutdown | `SlotBound`, `NoLostWakeup`, `NotStartedIsTruth`, `LifecycleForward`, and `AcceptedEnds` under fairness |
| `manager_inventory` | one structured Job | a violation, see Findings |
| `delivery` | a plan of two steps, two sessions of either transport, a queue of two, a stop | `TypeOK`, `NoSkippedStep`, `OutcomeAgrees`, `EndNotForgotten` |
| `delivery_progress` | the same with output instead of a stop | `DeliveredWhenConnected` under fairness |
| `delivery_stuck` | as `delivery` with a queue of three and without a stop | a violation, see Findings |
| `job_system` | one structured Job, two processes, polling | `ShownEndIsReal`, `NotStartedUnlessLost`, and `ImplementsContract`: the refinement |
| `job_not_started` | the same | a violation, see Findings |
| `agent_wake` | two Wakes (inbox or task), two attempts, two Endpoints, two Messages, one fault (an expired lease or a takeover) | `OneTurnPerWake`, `AttemptsAgree`, `MessagesCovered`, `CarrierIsCurrent`, `OldTurnIsStaleUnlessUnbound`, `NoLostOpportunity`, `FenceOneWay`, `TypeOK` |

Why the bounds are enough for what they are used for: replacement needs two
processes, and what a third does is what the second does; a report is new,
repeated or old, for which two numbers suffice; a queue and a table of receipts
are empty, partly filled or full. The results that a Runner submits for a start
request are failures (`invalid_command`), so `registry` has those; in `registry_two`
they would more than double the states and concern each Job by itself, so they are
left to `registry` and to the theorems, which hold for any `Results`. Two Jobs with one slot have a holder and a
waiter. With two steps a plan has a first, a last and a step between, and with
its start and its end more semantic updates than a queue of two holds, so that
it overflows (`delivery_stuck` has a queue of three, to show that a suspension
needs no overflow). Two sessions are one that is lost and one that repairs. Two
Wakes with two attempts
are a Wake that is retried, or one that waits behind another; two Endpoints one
that is replaced and its successor; the second Message joins a Wake or must not.
The theorems do not depend on these bounds. Runner processes are
interchangeable, so their permutations are a symmetry; it is used with
invariants and action properties only, never with liveness.

Deadlock is not checked: the systems may stop, when every Job has ended or
every Wake is consumed and the bounds are used up.

**Fairness.** In `JobManager`, weak fairness of
`JobStep(j)` says that a thread which can take a step takes one, and that every
command ends or is ended by its timeout, which the worker enforces in its wait
loop. `StopStep`, `AnnounceQueued` and `Wake` are threads as well;
`ShutdownStep` is the sequence in the main thread. Nothing is assumed of those
who deliver requests, stop, prune or begin a shutdown. Strong fairness is not
needed: a thread is never disabled for good by others, since locks are held for
one step only.

In `UpdateDelivery`, the threads that record, the stop, the delivery worker and
the steps of a registration are weakly fair: they are loops without a wait for
anybody else. So is the reader of the session that is served, and the
reconnect loop. `PostAnswered`, `RegisterAtServer` and `InstallSink` are strongly
fair: a post or a registration is repeated without end (`main.rs`, the delivery
loop and the session loop), and the assumption is that not every one of
infinitely many repetitions is lost. Nothing is assumed of the progress of the
Job, of stops, of failures or of restarts. `AgentWake` has no fairness: what its
code promises without a timer is that an opportunity is never missed while
nobody is scheduled, which is the invariant `NoLostOpportunity`.

## Proofs

TLAPS proves the following for every set of Jobs and processes and for every
bound, from the named assumptions on constants alone (`RegistryAssumption`,
`ManagerAssumption`, `SystemAssumption`, `NumberAssumption`, `DeliveryAssumption`,
`BoundsAssumption`): they say that sets of Jobs are finite where they are counted,
that bounds are numbers, that limits which the code never sets to zero are
positive, and (`NumberAssumption`) that the two components of `JobSystem` bound
update numbers consistently: the code has no such bound.

`RunnerRegistryProofs`. `RecordsInv` is the inductive invariant. Besides the
types it says that (1) a record that has not ended belongs to the lease holder
and there is one; (2) a stored receipt is *vouched* for: the Job has a public,
terminal record, with the same verdict unless it was overturned; (3) the same of
every receipt captured and not yet written. The last part is the strengthening
that `ReceiptAgrees` needs: the write comes after the unlock, and only because a
public terminal record never goes away without its receipts, and changes for a
late result only, can the write be late.
Most operations are *calm*: they map every record by a function that keeps
verdicts (`Keeps`) and move no lease; one lemma (`CalmPreserves`) settles these.
Registration, sweeps, storage and restart have lemmas of their own.

* `RecordsInvariant`: `Spec => []RecordsInv`.
* `OwnershipSafe`, `ReceiptsSafe`: the two invariants that follow.
* `VerdictsSafe`: the action property `VerdictFinal`, from the invariant and the
  fact that every step keeps a verdict, or is the result that overturns it, or is a
  restart that falls back on the receipt of a Job already overturned.
* `OverturnsSafe`: the action property `OnlyLossesOverturned`. Its invariant is
  `LateInv`: a start request that was handed out and is still pending belongs to a
  Job that has not ended or that was lost, and to none that was overturned. Every
  other way to end a Job has to remove the request for it; this is shown operation
  by operation.
* `DispatchSafe`: `HandedOutAtMostOnce`, from `DispatchInv`, which relates
  `handed`, `pend` and `known`: a Job is admitted once, its request is pending
  undispatched only before it was handed out, and whoever received it is one.
* `RegistryInvariant`: `Spec => []RegistryInv`, which adds `LateInv`, `RequestsInv` (the queue
  holds the start request of a Job once if it is pending and undispatched, else not
  at all; and that is so exactly while the record says `Queued`) and the remaining
  types. The three are changed by a dozen operations, several of which drop
  requests of many Jobs at once. What they need of the queue is in
  `RetainedFacts`: `VecDeque::retain` leaves a queue that is not longer, with every
  request that passes as often as before and no other. `Retained` is defined by
  positions, not by recursion, so that this is a fact about a bijection
  between finite sets of positions and needs no induction over sequences.
* `RegistryTypes`, `QueueSafe`: `TypeOK` (with the capacity of the queue) and
  `QueuedExactlyWhenRequested`.
* `PollSkipsNothing`: every start request in the queue is pending. `poll_checked`
  skips entries that are not; the model's `Poll` has no such loop, and this is why
  it needs none.

`JobManagerProofs`. `ManagerInv` is the inductive invariant. Per Job (`JobOK`) it
relates the four places where the code keeps a Job: a Job that a thread carries
has an active record with a slot; a process is alive only while its thread is
between spawn and end of the wait; a Job in the local queue has no thread and no
started command, is in the queue once, and a stop that took it out is the only
one that will end it; an outcome `not_started` that a thread is about to record
belongs to a Job without a spawn; once the shutdown has signalled, whoever may
still spawn has a raised flag. Globally: the holders of slots fit into
`MaxConcurrent`, and no wakeup is lost. None of the properties is inductive by
itself; `SlotBound`, for instance, needs that a live process implies a slot, which
needs that no stop ends the record of a Job that a thread carries. Most steps
touch one Job only (`LocalStep`); `LocalPreserves` settles all others at once.

* `ManagerInvariant`: `Spec => []ManagerInv` (with `TypeOK` and `NoLostWakeup`).
* `SlotsSafe`, `EndedQuiet`, `NotStartedSafe`, `SpawnsSafe`, `WakeupsSafe`,
  `ShutdownSafe`: the invariants of the runs, for any number of Jobs and slots.
* `TypesSafe`: `TypeOK`. The part that is not obvious is `waking`: a thread leaves
  `start_available_queued` once for each time one entered.
* `RecordsForward`: the action property `LifecycleForward`.
* `CompletedRan`: a record says `completed` only of a Job with a started command.
  It needs its own strengthening (`RanInv`: a thread past its spawn has spawned).
* `EarlyStopOnly`: `OnlyEarlyStopRefused`, the other half of the finding
  `manager_inventory`. The Server's rule for snapshots accepts every record that
  was announced, except `stop_requested` without a start. `SaidInv` is the
  strengthening: what a record or a verdict on its way to the record says of the
  command goes with its lifecycle under the Server's rule, even for a Server that
  knows of no start; and a record that says `Running` has `started`.

`JobSystemProofs`. `SystemInv` joins the two sides. It contains the executor's
`ManagerInv` and `RanInv`, taken over through an instance of `JobManagerProofs`
(`SameExecutor` says that the actions are the same, `Begins` and `Continues` that
a new process starts in an initial state and that a running one takes the
executor's steps), and per Job: `HandedOK`, a request is handed to one process at
most, that runs or ran; `WorkOK`, only that process works on it, and all starts
ever made are its own; `Backed`, what the Server says of a Job is covered by what
was done. `UpdateOK` says of every update ever recorded that it was true then and,
when final, stays true. That is the crux: updates of a dead or a running process
may arrive at any time, so the Server is right only because no recorded end can
become wrong. All steps of the Server satisfy one relation (`ServerRel`: an end is
kept or its record goes; a new state is backed), and one lemma (`ServerPreserves`)
settles them.

* `SystemInvariant`: `Spec => []SystemInv`.
* `ShownEndSafe`: the invariant `ShownEndIsReal`.
* `ContractKept`: `Spec => ImplementsContract`. The initial state maps to the
  contract's; every step maps to one of `Accept`, `Run` and `Show` or to a stutter.
* `NotStartedTrue`: `NotStartedUnlessLost`, the other half of the finding
  `job_not_started`: `not_started` is wrong only where the Server itself declared the
  Job lost. `TruthInv` takes `SaidInv` over from the executor, for every process that
  ever runs, and says that a recorded `not_started` is true and stays true. The
  first part matters: an end that broke the Server's rule for execution states would
  be replaced by the Server's own `not_started`, although the command ran.
* `ExecutorSafeInSystem`: what was proved of one executor with arbitrary requests
  holds of each process in turn under this Server, and all processes together start
  the command of a Job once.

`JobSystemRegistry`. `RunnerRegistry` lets a process that was handed a Job report
anything well formed about it. Here the reports come from the executor's records,
and the theorem is that these are among them; so the open environment of the
registry's model and proofs is wide enough for the Runner that exists. Two things
have to be shown for it. First, an update or a snapshot that may arrive is about a
Job that was handed to that process (from `SystemInv`). Second, its number lies
within the registry's bound `MaxSeq`: `NumbersInv` adds to the number of a record the
updates that its threads may still record.

* `NumbersBounded`: `NumbersInv` is invariant.
* `RegistryRefined`: `Spec => ImplementsRegistry`, which is `Registry!Spec`.
* `RegistrySafeInSystem`: ownership, agreement of queue and records, and dispatch
  at most once, taken over from the registry's proofs through an instance of
  `RunnerRegistryProofs`.
* `VerdictsFinalInSystem`: the same for `VerdictFinal`, and with it
  `TerminalNeverRevives`, which the finding `registry_revival` refutes in general: the
  Jobs of this system are public and their requests are decoded, so the rule holds as
  the code's comment states it.

TLC does not check `ImplementsRegistry`: for each step it would have to find the
inventory, among all functions from Jobs to reports, under which the step is a
registration.

`UpdateDeliveryProofs`. `DeliveryInv` has five parts besides the types. All that
the Runner and the network hold about the Job, in whatever queue, hand or
channel, is one set `Items` of what was *said*. `ItemsInv` says that its members
are well formed and in order: a higher update number never goes with less
progress. `RecordInv` says that nothing is newer than the record and that at most
one end was ever said. `ServerInv` relates this to the Server's record.
`SessionInv` says which sessions exist, that a fallback to polling is final, and
that a registration which is being answered does not claim more than the Server
has. `WayInv` is the part about what is *missing*. `Delivers(b, e, w)` reads: a
Server that has `b` steps and the number `e`, and that will receive `w`, will be
brought up to the record by what the queue, the worker and the recording threads
hold, no two neighbours on that way being more than a step apart. It must hold
for the Server with the wire of the session that is served; and, while a
registration is under way, for the Server as it will be after it (`AskedWay`) with
nothing on the wire, since a new connection starts with an empty one. It is this
second half that makes reconnects inductive. Steps of the Runner keep `Delivers`
for every `b`, `e` and `w`
(`LocalWay`), so they need not know what the Server has.

* `DeliveryInvariant`: `Spec => []DeliveryInv`.
* `DeliveryTypes`, `SkippedStepSafe`, `OutcomeSafe`, `EndSafe`: `TypeOK`,
  `NoSkippedStep`, `OutcomeAgrees` and `EndNotForgotten`.

The attempt to prove an earlier form of `NoSkippedStep` and `EndNotForgotten`,
without `skipped`, failed: it is false. TLC had not shown it, since in the instance
of the time no suspension could end early; the run now has a smaller queue, in
which one does. See Findings.

`AgentWakeStore`, `AgentWakeProofs`, `AgentWakeEventProofs`. `StoreInv(db)` is
about the tables alone: a claimed or dispatched Wake and its attempt name each
other, one Wake of the task at most is open, the carrier of the task is the
current Endpoint. It is a predicate of a store, so that each transaction has one
lemma in `AgentWakeStore`, wherever it is called from. `TurnInv(db)` relates the
tables to the worker, the View, the Host and the turns: who is between fence and
Host call holds an attempt that nobody was told of (`Unsent`), and that is why a
retry or a takeover starts no second turn. `WakeInv` adds what events need:
`BindingOK` (which attach notices are on their way), `ClaimsOK` (a claim of the
bound adapter is the worker's or has expired) and `EventOK` (while there is
something to dispatch, somebody is scheduled, dirty or expected).

* `SafetyInvariant`: `Spec => [](StoreInv(db) /\ TurnInv(db))`, as `SafetyInv`.
* `TypeCorrect`, `OneTurn`, `TablesAgree`, `NoMessageSwallowed`, `CarrierRow`,
  `OldTurnsAreStale`: the invariants of the run; `FenceIsOneWay`: its action
  property.
* `WakeInvariant` and `NoOpportunityLost`: `NoLostOpportunity`.

Only model-checked: what is about liveness (`AcceptedEnds`, `DeliveredWhenConnected`),
since fairness is `ENABLED`, which is out of the provers' reach. Every other property
of a passing run is a theorem.

## Findings

* `registry_revival`. The comment in `reconcile_inventory_locked`
  (`reconciliation.rs:1040`) says that a terminal state never revives or changes
  its class. It does for a Job that awaits cleanup: a read declares it lost, the
  next registration first removes ended records that await cleanup (when another
  Job's recovery expires in the same call) and then, finding no record, rebuilds
  the Job from the inventory with the Runner's verdict, and public.
  `VerdictFinal` states the rule for the records that clients see, and holds but for
  the late results below.
* `manager_inventory`. A stop of a Job that holds a slot and has not spawned yet
  leaves a record with `stop_requested` and no `started_at`.
  `validate_snapshot` refuses it, and with it the whole registration, until the
  Job ends: the record stays `stop_requested` even when the command starts. The
  reliability document says that queued records survive
  a reconnect. No other announced record is refused (`OnlyEarlyStopRefused`).
* `delivery_stuck`. `replay_snapshots_since` compares the records with the
  inventory of the registration. Updates that were delivered and acknowledged
  after the sink was installed and before the replay make the record look two
  steps ahead with nothing in the queue, and the queue is suspended; everything
  later, the end of the Job included, is dropped until the next registration,
  however long the connection lives. `EndNotForgotten` and
  `DeliveredWhenConnected` say what holds while the queue is not suspended.
* `job_not_started`. A Job that was handed out and whose dispatch thread has not
  inserted its record is missing in the inventory of a registration of the same
  process; `mark_job_lost` shows it as `not_started`, and then its command runs.
  The output schema says that `not_started` means that no command was dispatched.
  It may be relied on for every other outcome (`NotStartedUnlessLost`).

Two more have no run of their own; a history variable marks the case, and the
properties say that there is no other.

The first is about late results. `complete_checked` (`polling.rs:856`) assigns
`Completed` or `Failed` to the record of the request's Job without looking at what it
is. A read past the recovery deadline declares a handed-out Job lost and keeps its
request pending; the receipt `Lost` is written; then the result for the request
arrives from the same process, say over polling after a silence, and the record says
`Failed` or `Completed` with the execution state of the loss, while the receipt stays
`Lost` and comes back after a restart. This contradicts the comments in
`reconciliation.rs:1040` (quoted above) and in `job_updates.rs:2138` ("Terminal class
is server-authoritative once accepted."), and the receipt, described in
`job_receipts.rs:9` as "immutable terminal evidence", then differs from what clients
are shown. With `VerdictFinal` over all Jobs TLC shows it. It takes a Runner that
answers a start request with a result, which `submit_decode_failure` does
(`dispatch.rs:221`, 316).

The second comes from the proof of `NoSkippedStep`.
`replay_snapshots_since` (`main.rs:3612`) reads the records before it locks the
queues. A queue is suspended (an overflow, or a replay that was not safe), the
next registration brings the Server up to the record, and between the read and
the lock the Job records another update, which the suspended queue drops. The
replay then ends the suspension, and the update is on no way to the Server: the
next step looks like a jump and ends the Job as failed, or the end never
arrives. With plans of at most three steps it takes a first registration whose
replay was not safe.

Three observations about Wakes come from `AgentWake`; no run of its own shows them:

* `docs/architecture/durable-agent-runtime.md:735` says of an Endpoint replaced
  inside one attempt: "old E1 turn is stale". When the Host binding is withdrawn
  after the dispatch (a View unregisters, or another Host registers), the carrier
  row is cleared without a fence; a later replacement finds no carrier and leaves
  `attempt_controller_generation` as it was, so the old turn stays current. With
  `OldTurnIsStale` in place of `OldTurnIsStaleUnlessUnbound` TLC shows it in ten
  steps.
* Line 632 there says that a `delivery_unknown` observation remains exactly
  consumable. After its Endpoint was replaced it is not (`wake_endpoint_fence_mismatch`),
  and since a dispatched Wake blocks every claim and every explicit activation,
  the Agent gets no further Wake.
* An explicit activation looks at dispatched Wakes only. A pending inbox Wake may
  be activated while a task Wake is claimed, and the prepare of the latter does
  not look again: two Wakes of one Agent are then dispatched at once.
  `OneTurnPerWake` holds all the same, since it is about each Wake.

## Plan

In this order:

1. `DetachedJob` – supervisor, durable record and adoption after a restart.
2. `JobObservation` (wait and resume without a missed change), `ServerShutdown`.
3. `OAuthGrants` – single use of codes, rotation and revocation of families.

## Not modelled

Detached supervisors, observation tokens, the Server's shutdown and OAuth grants
are state machines that could be modelled and are not yet. The task kernel, goals,
conversations, memory and audit are sequential SQL transactions: what could go
wrong in them is a query, which a model of the query would only repeat. Gateways,
schemas, CLI, desktop, computer use, SSH, git and process trees are request
translation, text or platform calls; most of the repository's lines are of this
kind. `PROJECT.json` gives the reason for each component.
