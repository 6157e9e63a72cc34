# Moorline in TLA+

Moorline runs coding agents ("providers") behind a chat transport: a supervisor process forks a runtime worker; the worker
receives messages from a transport, keeps sessions in SQLite, sends turns to providers and posts their answers; a Control API,
in the supervisor's process, asks the worker for operations through a table both can see, and installs packages. This directory
models its parts that are concurrent or must survive a crash, checks them with TLC, and proves with TLAPS nearly all of the safety
properties it checks, for every value of the constants.

## 1. The system

Everything is single-threaded JavaScript: inside one process, code between two `await`s is atomic, and everything else
interleaves. Host and worker (two workers during a reload) share one SQLite database, whose statements are transactions of their own,
and exchange messages.

| Component (under `packages/core/src/`) | State | Operations | What is hard | What makes it correct |
| --- | --- | --- | --- | --- |
| Keyed queue, `core/runtime/execution/drainableWorker.ts` | tails, counters, time stamps for each key | `push`, `drain` | cleanup is a microtask after the settlement others react to | serial for each key, exact counters, drains complete |
| Orchestration requests, `runtimeOrchestrationRequest{s,Service}.ts`, `sqlite/orchestrationRepository.ts` | rows; poller, in-flight set, recovered flag of each worker | enqueue, wait, poll, claim, execute, recover, drain | two processes, crashes, retries, overlapping workers | at most one execution, truthful answers, no request open for ever |
| Turn broker, `providerOrchestration/providerTurnBroker.ts` | waiters, buffers, sealed keys, requesters, thread failures | `runTurn`, provider events, timeouts, `rejectThread` | events come before the waiter they are for; threads are shared | whole replies, every turn settles, nothing left behind |
| Supervisor, `core/runtime/supervision/runtimeSupervisor.ts` | worker, startup states, forwarded requests, `stopping`, `restarting` | `start`, `stop`, reload, crash restart | four operations overlap with exits and timers | one worker serves while it should, whatever is begun returns |
| Pending requests, `runtimePendingRequestService.ts`, request projector | approval and input requests | open, answer, resolve, orphan | user, provider, posting and recovery race for one row, none in a transaction | the record tells what was decided and done, nothing stays open that nobody waits for |
| Transport intents, `core/runtime/hosting/runtimeTransportIntentService.ts` | recorded intents | record, process, mark, drain | crash between process and mark; live and drained copies; intents of one resource overlap | each intent settles, in general once; the latest one shows |
| Event pipeline, ingestion, receipts, projections, compaction policy | event logs, receipts, activities, a latch | append, handle, project, mark, reconcile, compact | a crash between any two writes; replay on moved state; the latch's confirmation comes through the queue that waits | each event takes effect once; receipts tell what runs; the latch is released |
| Runtime lifecycle, `core/runtime/moorlineRuntime.ts`, the four queues | phase, queues, what is accepted | start, quiesce, stop | work pushes work across queues while they are drained in turn | nothing is under way in closed stores; a stop ends |
| Sidecars, `supervision/sidecarManager.ts` | rows, running entries, children | ensure, stop, exit, recover, shutdown | calls meet between awaits; timers against exits | one child for each sidecar, and the table tells of it |
| Package jobs, `lifecycle/packageJobSchedulerService.ts`, schedules | jobs with due times | tick, run, reschedule, schedule, cancel | overlapping ticks; a stale copy is written back | a job runs when due, as last asked, not twice |
| Work items, gates, workflows, `core/system/state/sqlite` | rows, leases | enqueue, claim, settle; start, confirm, cancel | expired leases, overlapping confirms, crashes | one holder; one completed run for a setup |
| Sessions, `core/domain/sessions`, provider session control | rows, workspaces, conversations, live provider sessions | create, bind, direct, archive, resume, delete, start, stop, sweep | awaits inside each read-modify-write | the last decision about a session stands |
| Policy, `core/system/policy` | profile | decide | precedence of rules | the most exact rule decides, a denial among equals |
| Packages, `app/bootstrap/operatorPackageService.ts`, `core/extension/packages` | directories, inventory, configuration, secrets, journal, cache | install, remove, bundles, activate, configure, apply, import, boot | failure or crash between any two writes | records, files, activations and the worker agree |
| Control API and command line, `app/control-api`, `packages/{control-api,http,cli}` | hosts, leases, queue of mutations, endpoint record | start, stop, restart, lease, renew, poll | hosts, supervisors and commands that do not know of each other | no worker left behind, the record tells where a host serves, main stays for who holds a lease |
| Plugin host and context, memory, read models, version control | mostly queries and files | | | |

A message travels: transport → intents → command queue (a keyed queue) → session → `runTurn` → provider; its events come back
through the provider queue (keyed by thread) → pipeline → broker, projector and ingestion → the waiting `runTurn` → transport.
An operator's command travels: CLI or HTTP → Control API → request row → poller of the worker → execution → row → answer. A stop
runs in the worker: pollers off, threads rejected, queues drained in turn, requests drained, stores closed; and in the
supervisor: message, SIGTERM. `PROJECT.json` lists every component with its status and the hazards with their lines.

## 2. Modules

| Module | Models | Composes |
| --- | --- | --- |
| `FifoExecutor` | abstract: what a bounded first-in first-out executor promises for each key | |
| `KeyedWorker` | `KeyedDrainableWorker`; refines `FifoExecutor` | `FifoExecutor` |
| `KeyedWorkerProofs` | theorems about `KeyedWorker` and `PluginWork` | both |
| `OrchestrationRequests` | the request table between Control API and workers | |
| `TurnBroker` | `ProviderTurnBroker` with the session start, attribution and pipeline dispatch around it | |
| `Supervisor` | `RuntimeSupervisor`, the worker's side of its messages, and the host that starts and stops it | |
| `PendingRequests` | the rows of `pending_runtime_requests` and everyone who writes them | |
| `TransportIntents` | the recorded intents of a transport and the sessions they bind, archive, resume and delete | |
| `EventPipeline` | provider events through log, session, domain events, receipts, projection and compaction policy | |
| `Sidecars` | `SidecarManager` | |
| `Runtime` | the worker from start to stop: hosting, recovery, four queues, commands, turns, replies | `Sidecars` |
| `Schedules` | cron and interval arithmetic, as operators | |
| `PackageJobs`, `WorkItems`, `Workflows` | the scheduler; items, leases and gates; setups and runs | `Schedules` |
| `PluginWork` | the package code that runs in jobs and workflows and works on items | the three above |
| `Policy` | the decisions of the policy engine, with a reference definition | |
| `Sessions` | rows of sessions, their workspaces and conversations, and the calls that write them | `Policy` |
| `ProviderControl` | turns, starts and stops of provider sessions that write those rows | `Sessions` |
| `SessionWork` | users, plugins, kickoffs and the lifecycle tick on top | `ProviderControl` |
| `PackageGraph` | dependencies, cycles, versions, startability, as operators | |
| `PackageSources` | registry listings, downloads, archives, fallbacks, the loaders | `PackageGraph` |
| `Packages` | operations on packages, the disk they leave, crashes, boots | `PackageSources` |
| `ControlHost` | hosts, control planes, leases, supervisors, the endpoint record | |
| `ControlClients` | the commands of the command line | `ControlHost` |
| `OrchestrationRequestsProofs`, `TurnBrokerProofs`, `SupervisorProofs`, `PendingRequestsProofs`, `TransportIntentsProofs`, `EventPipelineProofs`, `RuntimeProofs` | theorems about these modules, each with its inductive invariant; `OrchestrationRequestsProofs` also about `Packages`, `TurnBrokerProofs` also about `Policy` and `SessionWork`, `SupervisorProofs` also about `ControlClients` | the modules they are about |
| `MC...` | the instance of a module that TLC checks, with its `.cfg` | |

**KeyedWorker.** A job is one call of `push`. `tails`, `pendingByKey`, `pendingTotal` and `enqueuedAtByKey` are the fields of the
class; `phase`, `previous` and `snapshot` are what the promises hold. `Push` and `Reject` are the two ways through `push`, `Start`
and `Finish` the callbacks of `previous.then(work, work)`, `Cleanup` the body of `settled.finally`. Between `Finish` and `Cleanup` of
a job anyone may push: this gap is the reason for the test `tails.get(key) === settled`.

**OrchestrationRequests.** `rows` is the table, with time as the minute of the dedupe key. `CallJoins`/`CallInserts` are the two ways
through `enqueueOrchestrationRequest`, `CallReturns`/`CallTimesOut` the ends of the wait. A worker goes "up", "stopping" (poller
stopped), "draining" (last drain), "closed" (store closed), "dead". `Recover`, `Poll`, `Claim` are the parts of `drain`; `Perform` is the side
effect of a request, of whatever type, `Settle` the outcome written by `process`. `Exit` may come at any moment. `told`, `performed`, `usurped` and
`late` are history that no action reads.

**TurnBroker.** `phase` tells at which await a `runTurn` stands; `buffer`, `sealed`, `requester`, `failure` are the maps of the broker,
the attribution service and the session orchestrator. The provider is the environment: it streams chunks, ends a turn in any way
or loses it. One action handles one event whole, since the queue hands a thread's events over one by one.

**Supervisor.** Workers are numbered by fork. `startup`, `worker`, `stopping`, `restarting`, `forwarded` are the supervisor's fields;
`inbox` holds messages and exit event of a worker in the order of arrival; `reload`, `target` and `cleaning` stand for the operations
suspended at an await. A process boots, fails to, serves, halts when told to, and dies of itself, of a signal, or never.

**PendingRequests.** `pending` is the table, reduced to status, decision and whether there is a message. `events` is the provider queue
of the thread; `work` tells at which await the handler of its first event stands: `ProjectOpened` writes the row and posts it, `Posted`
writes back the row of before with the message, `Projected` is `OrchestrationEngine.process`, which writes the projector's copy once
more (and with it wipes the message id the posting has just stored). `calls` are answers: the buttons of a tool's approval (`Refuse`,
`Accept`; then the tool takes effect, `Perform`, and its row is written, `Executed`, with failures and crashes in between), and `resolvePendingRequest`/`answerPendingRequest` for all else, from `CheckOpen` over the provider to `CancelRow`, for a request
the provider does not know or a turn it interrupts. The Control API sends the answer to a tool's approval that second way, so it ends
as "cancel". `todo` is what the recovery has listed and not yet posted. `ProjectEnded` closes all open rows of the thread when a
turn fails, is interrupted or cancelled; a session that closes or errs, and an error of the provider's runtime, end the turn too and close no row
(`SessionEnds`, `ProjectClosed`).

**TransportIntents.** `rows` is the table, in order of occurrence; `bound` the session of a resource. A member of `runs` is a call of
`processRecordedIntent`, `at` its await: the policy guard, the cleanup of sidecars, the interactions. `session` is the row read before the
guard, which `Archives` writes back; the other operations read the row again by its resource. Live intents do not wait for each other or for the
drain: `HandleIntent` is enabled whenever the runtime is up. `Foreign` intents of another scope are older and only take up room in
the drain's page.

**EventPipeline.** `logged` and `processed` are the provider event log, `domain` the domain event log, `receipt` the row of the thread,
`shown` its activities. `work` is the await the handler stands at: plugin hooks, the compaction call, the posting of a request, the projection queue. `Take` does all that
runs before the first await (append, fold into the session, start of a compaction). `Hooked` writes the row of a request (`ProviderRequestProjector.project`); a new one
is then posted, and `Posted` writes the row again, with its message, while what `project` returns, `found`, has none; `PostFails` ends the handler there, with the row written and nothing
logged. `Requested` makes the domain events of `found`. `Record` logs one domain event and rewrites the receipt, unless it is
there already; content that differs throws, and ends the handling. `Crash` drops queue, handler, requester and latch; `Restart` queues what
is not marked as processed and may have been delivered before; `Reconcile` is `reconcileRecoveredState`. A compaction is awaited inside the
thread's queue, so its confirming event waits behind it; `LatchTimeout` is the timer.

**Runtime, Sidecars.** `phase` follows `MoorlineRuntime.start` and `stop` from await to await; `st` says of each command where its job is in
each of the four queues. A command is pushed by an intent, runs a hook or a turn; a hook may drain the queues, its own among them, or not return at all, until its timer gives it up
(`HookGivenUp`): the job fails, and the hook runs on beside it (`abandoned`). The turn's events are jobs of the provider queue that push to the projection queue,
its reply a job of the transport queue. A stop drains the queues in their order, each the jobs pending at that moment. In `Sidecars`, `rows` is
the table, `running` the map in memory, `children` the processes; a call or the recovery or the shutdown is an entry of `calls` with the await it stands at.
The exit handler (`Mine`) knows its child by the identifier of the instance.

**PackageJobs, WorkItems, Workflows.** `tick[k].left` are the jobs a tick has listed and not yet taken; `line` is the queue of each job. `FinishJob`
writes back the copy from before the action (`Rescheduled`). Items are claimed under a lease; whoever holds a copy of an item settles it, in time or
late. A setup collects an answer, is confirmed, and its run is awaited before it is marked as started. In `PluginWork` the ticks and the runs are the workers
that claim items, so a slow job or a crash is what lets leases expire.

**Policy, Sessions, ProviderControl, SessionWork.** `calls` holds, for each call under way, its await and the copies of rows it took
(`held`). Each such call first asks the guard (`May`), which decides by `Policy`. The transport and the provider answer or fail; the sweep is a call
that lists and then archives one after the other. The jobs of one conversation run one at a time, in slot `s`; a plugin whose hook is
given up by its timer goes on in slot `-s`. `said` is what was last decided about a session.

**Packages.** A handler between two awaits runs to its end in one action, but each of its writes to disk may be the last: an operator on a run
collects the disks it leaves one after the other in `todo`, and `Write` and `Crash` take turns from there. `PackageSources` is what
npm, the download and the archive checks can give; `Boots` is the start of host and worker, which walk directories like the loaders do. `main` is what
the worker then has loaded.

**ControlHost, ControlClients.** A host has a server, a control plane with leases and a queue of mutations of which one runs, and supervisors, of which
only what matters here is kept (module `Supervisor` has the detail); the first thing a supervisor does is kill every worker of the same configuration.
A stop that finds no worker returns at once (`HaltMain`, `Workerless`): the fork of a restart whose cleanup was under way follows, and its worker is nobody's
(`stray`); so is one that outlasts the timers of a stop (`WorkerStays`). A stray is not started again, and the next supervisor's cleanup kills it.
The command line goes by the endpoint record: it connects, spawns a host and polls, or gives up.

## 3. Runs

All bounds are named in the `.cfg` files and in the `MC` modules. Where a run has scenarios (`Budgets`, `Scenarios`), each bounds how
often things happen, and the initial states choose one: together they let every action fire and every pair of operations named as a hazard meet, which
one large bound would only do with states beyond reach. Deadlock is not checked: each model may come to rest when its bounded callers have made
all their calls.

| Run | Shows | Bounds |
| --- | --- | --- |
| `queue` | `OneAtATime`, `DrainSeesAll`, the refinement `ImplementsFifo`, `AcceptedSettles`: what is accepted ends, drains return | 2 keys, 4 jobs, 3 of them on a key, so that a job can be pushed before, in and after its predecessor's cleanup; limits 2 and 3 are both reached; 1 drain |
| `requests` | `ExecutedOnce` (and identical requests of a minute complete once), `AnswersHold`, `OwnersHold` (who owns a running row; a clean stop leaves none), `OpenSettles` | 2 workers alive at once, hence restarts and reloads; 2 rows, hence a retry; 2 minutes; a client that may give up at any time |
| `turns` | `WholeReply` (and no reply has a gap), `BrokerSound` (no missed flush, no stale failure, no memory of ended turns), `TurnSettles` (and not by timeout when it has completed) | 2 turns on a thread, 2 chunks each, 2 failures, 1 sealed key, so that keys are evicted |
| `supervisor` | `ServiceKept`, `WorkersKnown`, `Returns` (reloads and stops return, a crashed worker is replaced) | 2 control requests, 1 crash, 1 failed boot; 5 forks, one more than those can cause |
| `pending` | `RowsAgree` (with what the provider knows, once events are handled), `ToolsSound`, `OnlyAwaitReopens` | one request of each kind; 2 answers, so that two race; 2 announcements, so that one comes late; 1 end, of a turn or of the session; 1 crash, hence a recovery; but not all four in one behaviour |
| `intents` | `DrainSound`, `LatestShows`, `IntentsSettle` (and only an archive revives) | 2 intents of any kind on a resource with or without a session, so that two overlap and the drain needs two pages (room for 1 beside 1 foreign intent); 1 crash |
| `events` | `EffectsOnce`, `ReceiptSound`, `Handled` | 10 scenarios: 2 requests; a request and a crash; a request whose posting fails; 2 turns with a request, which the first may leave open; 2 turns and a crash; 2 or 3 usage reports, hence a second compaction that the confirmation of the first may meet, with and without a crash; 2 items with 2 crashes; at most 6 events |
| `runtime` | `ClosedQuiet`, `SidecarsSound`, `EverythingReturns` | 3 commands of 2 resources, stored or live; at most 6 children (5 are started) of 1 sidecar in 2 launch definitions; 2 calls; 7 scenarios, with crashes and failures |
| `work` | `JobsAsAsked`, `WorkSound`, `DueRuns` | 2 jobs, an interval and a cron; 2 overlapping ticks; 2 items, 1 key, 1 attempt more than a lease; 1 setup, 2 runs, 1 gate; 4 instants of a calendar with 2-minute hours; 6 scenarios |
| `sessions` | `DecisionsHold`, `SessionsSound` (whole, within the limit, guarded as the rules mean), `Settles` | 3 sessions, limit 2; 2 calls beside the queues; 2 plugins; 4 instants; 12 scenarios, and one for each set of 5 overlapping rules |
| `packages` | `RecordsSound`, `StateAgrees`, `ManualStays`, `WorkerHasWhatIsSet` | 9 packages of every kind, 2 versions, 3 bundles, two of which share a member, a dependency that becomes a cycle with version 2; 5 listings, 10 parcels, each failing in another way; 2 calls and a backup, a crash before any write, an import, boots in between |
| `control` | `NoWorkerLeft`, `HostsSound` (the record tells, main is kept), `Settles` | 2 commands of each kind in pairs, 3 hosts, 4 supervisors, 1 fault, a stop beside a restart 2 |

In every run but `queue`, where it is a property and a theorem, the type invariant of the module (`TypeOK`, or `JobsTypeOK`, `HostsOK` and so on where a run
composes modules) is the first conjunct of the invariant with "Sound", "Known" or "Hold" in its name. The faulty variants of definitions beside them (the comments call them so, or "mutant") are what each
property was tested against: put in the place of the definition, it violates the property.

`intents` begins with any session a runtime may find in its store. With `MaxIntents = 3`, 14 million states and too many for `IntentsSettle`, its
safety properties hold too; the third intent lets an archive meet a session made meanwhile, which is an error.

### Exceptions

What a property exempts is what the code does not guarantee, and each exemption is a history variable set at the step that causes
it.

* `usurped`, `late` (requests): a row failed by the first drain of a replacement while its owner was executing it; a row
  claimed during an overlap by a worker that then crashed.
* `reopened`, `doubled`, `orphaned` (pending): a request resolved while its message is being posted, or while the recovery goes through its list, is written back open;
  a tool whose approval is clicked twice runs twice; a second answer that the provider no longer knows cancels the row of the first.
* `unwritten`, `unheeded` (pending): a tool that took effect before a failure or a crash kept its row from being written, and that may be approved again;
  requests the provider dropped with its session, whose rows stay open until a turn fails, is interrupted or cancelled.
* `again`, `disordered` (intents): an intent cut off by a crash, or listed by the drain while it is processed live, is processed again; intents of a resource
  that overlap or are taken out of order leave what the last of them to finish says.
* `cut`, `behind`, `stranded`, `lapsed` (events): an event whose handling a crash ended or whose replay conflicts with what it logged, and one of
  which the replay came behind later events; a posting that failed ends the handling too, and a crash after it may have the request posted again; a crash during a turn or with a request open (`stranded`): what `ReceiptSound` says of the
  provider is suspended until the next turn, since its receipt stays busy, but what it says of rows and receipt against the log is not; how often a latch was released while the provider was still at work.
* `late`, `muddled`, `forced` (runtime): commands that came, or began their turn, when their queue was already being drained, and those whose hook, given up by its timer, posted then;
  sidecars of which two calls overlapped; children that SIGKILL had not ended in time.
* `raced`, `late`, `twice` (work): a job changed while its action ran; an item settled by a worker whose lease had expired; a setup confirmed twice at once.
* `crossed`, `extra` (sessions): a session that a call wrote from a copy taken before the last decision, or that the provider was just starting, or that was inserted for a
  conversation deleted meanwhile; sessions resumed, or created
  while another one was.
* `torn`, `Littered`, `behind`, `cut` (packages): a package whose directory a crash in the middle of a replacement left; a package beside which a failed installation or a crash left a
  copy; a worker under which a recovery ran; a state brought by a call that was cut in two, by a crash when no journal was there or by a backup during the installation of a bundle.
* `outlived`, `crashed`, `stray`, `twice`, `stolen` (control): a host whose queue was starting main while it closed; a host that was killed; a worker forked after the stop that
  met its restart, or one that heeded neither message nor SIGTERM; two hosts at once; a record removed by somebody else's stop or failed import.

### Where the code and its documents or comments disagree

Stated as properties these are violated; the models have the behaviour.

* A request failed by recovery as "abandoned ... after restart" (`runtimeOrchestrationRequestService.ts:25`) may be one that the
  worker being replaced is executing: recovery asks for no sign of life of the owner (`:149`).
* "Set runtime queue acceptance mode" (`cli.ts:378`), on, off and on again within a minute, is answered as done and leaves the runtime draining:
  a completed request of the same minute answers for a new one (`runtimeOrchestrationRequests.ts:514`).
* A turn "timed out ... waiting for completion events" (`providerTurnBroker.ts:207`) may have completed: `onTurnCompleted` deletes the requester that
  `shouldTrackTurnEvent` looks for (`:311`). A reply with text survives, because it has a buffer; one without is lost.
* A stop before packages are changed (`control-api-package-mutation-stop.test.ts:56`) returns at once while a crashed worker is being replaced: `this.worker` is
  null (`runtimeSupervisor.ts:141`), and the fork follows.
* "The supervisor decides when to escalate to process termination" (`moorlineRuntime.ts:409`): `child.killed` is true from the SIGTERM on, so SIGKILL is never sent
  (`runtimeSupervisor.ts:382`).
* "The requester may already be disconnected" (`runtimeSupervisor.ts:254`): `send` to a child that is gone does not throw, it emits `error`, which ends the
  host's process.
* "Removing the bundle removes owned members unless another bundle, a manual install, or a dependent package still needs them" (`docs/TERMINOLOGY.md`): a bundle installed again whose members no longer
  resolve is removed alone (`operatorPackageService.ts:701`) and leaves members whose owner does not exist.
* A plugin beside which a failed installation left its staging copy (`packageInstaller.ts:205`) is loaded twice, and the worker does not start:
  "Duplicate runtime action id" (`pluginHost.ts:143`).

### Fairness

The event loop runs what is due: microtasks, continuations, timers, messages that have arrived (weak fairness of those actions). Work
and executions end, because turns, hooks and effects have timeouts. In `OrchestrationRequests` the end of an execution is strongly
fair, since a poll that lists a row and drops it again disables it for that moment only. A runtime that crashed is started again by its
supervisor. In `Runtime` no hook need return, and no child become ready or exit: hooks, turns, readiness, SIGTERM and SIGKILL have timers. In `SessionWork` nothing makes a plugin answer, in
`ControlClients` a command goes on until it ends and an expired lease expires. `PendingRequests` states safety only, `Packages` only that writes
go on. Nothing obliges a client to call, a
provider to answer, an approval to be given, a worker to exit, crash or boot successfully, or the host to stop.

## 4. Proofs

Eight modules hold theorems, for every value of the constants; `PROJECT.json` lists them. Bounds are any natural numbers (`SupervisorBounds`, `EventBounds`, `BoundsAssumption`,
`CallBounds`, `IntentBounds`, `SidecarsAssumption`, `WorkAssumption`, `SessionsAssumption`), sets of keys, requests, intents, turns, resources, commands, sidecars, jobs, items, setups, sessions, hosts
and supervisors are any sets (finite where the model counts or lists them), and so are scenarios (`ControlAssumption`). Beyond that
only this is assumed: `None` and `Absent` are none of the values they stand beside, the kinds of requests are disjoint and not all empty, a page of the drain
has room for one intent, an hour of the calendar is some minutes and the search for the next time of a cron line (`CronLimit`) reaches past the clock, a session cools before it is archived, no slot is named like a session, and the sessions of the first state are within the limit.
Of packages (`PackagesAssumption`, `SourcesAssumption`, `MenuAssumption`, `CallsAssumption`, `DisksAssumption`): they are finitely many, each of a known kind, and a package of a kind of which one
is selected has a key for that (`packageActivation.ts:72-81`); only bundles have members; versions are ordered, and a listing that has any has a greatest; the operator enables and disables plugins and skills (`actions.ts:225-232`),
selects packages of an exclusive kind, activates and configures surfaces; and the files a boot first finds are of no interrupted operation. TLC evaluates each assumption on the runs.

No property below is inductive. Each module states the invariant that is, `IInv` (`WorkInv`, `SessionInv`, `ControlInv` and `PackagesInv` for those that share a module with others), as a conjunction of named parts, with `Init => IInv`, one lemma (or
several) for each action and each part it can disturb, and `Invariance`, that `Spec` keeps it; TLC checked each `IInv` before it was proved.

| Module | Proved | What the invariant adds, and why |
| --- | --- | --- |
| `KeyedWorkerProofs` | `TypeOK`, `OneAtATime`, `DrainSeesAll`, `ImplementsFifo`, `ExactCounters` (no longer model-checked) | `enqueuedAtByKey[k]` lists exactly the pending jobs of `k` in the order of their chain: each is chained on the one before it, the first on a job that is done, the tail is the last. Counters equal its lengths; what a drain has accepted and not seen stands before or at a tail it awaits. In the refinement the head of the list is the only job that can start |
| `OrchestrationRequestsProofs` | `OwnersHold`, `ExecutedOnce`, `AnswersHold` | An execution in flight is of a claimed row and the only one of it, and its worker had recovered; a row is pending exactly while it has no attempt; a running row is in flight in its owner while that lives; of the rows of a key all but the latest failed (`Superseded`), so a caller who joins a row is answered by it |
| `TurnBrokerProofs` | `BrokerSound`, `WholeReply`, `NoLateTimeout` (as an action property of its own) | A buffer is `Rest(n, k)`, what the turn said from some chunk on, with the completion exactly if it has come (`Kept`); a sealed key has neither waiter nor buffer, and its call or its turn is over (`Apart`), so that a turn that still runs and waits is never ignored; a turn alone on its thread is the thread's requester until it has a waiter or a failure is marked that its registration finds (`Asks`), so its buffer begins with its first chunk (`Holds`) |
| `SupervisorProofs` | `WorkersKnown`, `ServiceKept` | Mail of a worker comes in order: ready or failed first, exit last (`Mail`); startup state, promise and timer agree with it (`Known`); who asks for a reload has been ready (`Askers`); before the host stops some worker serves and is not the one being replaced (`Service`); a single request is in one place at a time (`OneAsk`), so that there are only the first worker and its replacement (`Lone`) |
| `PendingRequestsProofs` | `ToolsSound`, `RowsAgree`, `OnlyAwaitReopens` | What the provider has done with is resolved with nothing of it left in the queue, or a resolving event stands behind its last announcement (`Closing`; `Deciding` for the decision): the position in the queue is what makes the rewrites after an await harmless. For tools, what was carried out is counted against what was not written and what calls still have in hand (`ToolsInv`) |
| `TransportIntentsProofs` | `DrainSound`, `LatestShows`, `OnlyArchiveRevives` (as an action property of its own) | Of an intent there is at most one live run and one of the drain; what neither crash nor drain took up is settled or runs (`OnlyLive`); the intents of a resource in order are processed one at a time (`InOrder`), so the last one's result is not overwritten (`Shown`) |
| `EventPipelineProofs` | `EffectsOnce`, `ReceiptSound` | Queue, work and log agree at every await (`Frame`); domain events are logged in the order of their number, shown as far as they are handled (`Effects`). `Receipts` compares what the receipt says with what the first `n` events say of turns and requests (`TurnAfter`, `AskedAfter`), where `n` is how far handling has got: marked are exactly `1..n`, the open rows are those of the requests unanswered by then, or by `n + 1` once the handler has written its own (`HasWritten`), and the receipt is steady also after a crash in a turn. A least-number argument gives the first missing event |
| `RuntimeProofs` | `ClosedQuiet`, `SidecarsSound` | Where a command's job stands in the four queues determines its turn and its reply (`Jobs`); after each drain that queue holds late commands only, since nothing that is not late can push to it again, an abandoned hook included (`Order`): this is what the order of the queues is for. Of a sidecar that is not muddled (`Supervised`): its entry is its only living child but for those under SIGKILL, and these are of other instances, so no exit handler takes another child for its own (`Entered`); a row that says "starting" or "ready" without an entry is of a former process, has no living child and is still on the list of the recovery (`Told`); whoever waits for a child to end finds that child or nothing in the entry, and is alone if it is to start the next (`Awaited`); what lives and was there before the shutdown is on its list, or the one it waits for (`Leaving`) |
| `OrchestrationRequestsProofs`, about `Packages` | `RecordsSound`, `ManualStays`, `WorkerHasWhatIsSet` | The invariant speaks of the disk that is left once all writes in `todo` are done (`Final`). Its records match its directories, but for torn packages (`Whole`); an operation begins on a tidy disk without a journal, with the worker stopped (`UnderWay`); what the operator chose is enabled in the memory of the call as well as on disk, and activated by no bundle (`ByHand`, `Kept`); a crash or an import begins anew with what the disk shows him to have enabled (`EnabledByHand`); a running worker has what a disk without later changes gives (`Up`, `Fits`), and one that failed has a reason (`Failed`). An operator on runs removes packages (`Shrinks`) or adds one (`Grows`), and each handler is a chain of such operators, so that each of them is proved once |
| `KeyedWorkerProofs`, about `PluginWork` | `WorkSound`, `JobsAsAsked` | Each table has its own part, since an action of the composition changes one or two of them (`JobsInv`, `ItemsInv`, `FlowsInv`). A job that is not raced has a row of the schedule last asked, and every time it is due before its next one is among those that ran (`AllRan`); a job is in its queue exactly while its tick waits or runs, and the first of the queue runs (`Queues`). A lease that has not expired is of the worker that holds the row (`Leases`); a setup engages one run at a time (`OneEngaged`) |
| `TurnBrokerProofs`, about `Policy` | `DecidedAsMeant`: for every profile and request `Evaluate` decides what the reference definition `Meant` says | The engine's scan for the longest prefix finds the greatest number of a bounded set (`LongestIs`) |
| `TurnBrokerProofs`, about `SessionWork` | `DecisionsHold`, `SessionsSound` | A copy of a row that no decision has outdated says of the row what matters (`Copies`): this is what a write-back after an await relies on. An ended provider session that may still be started is one that a call is about to archive or delete (`Quieted`), and who starts it crosses that call (`Starters`). Since the limit was checked nobody has joined those it counts (`Limited`), so that a creation keeps it |
| `SupervisorProofs`, about `ControlClients` | `NoWorkerLeft`, `HostsSound` | What a supervisor is doing agrees with its host's main and job, and a stray is neither (`SupsRight`, `HostsRight`); a step halts main or lets it go (`Moves`); a command that talks to a host knows it, and one that waits for its end has told it (`ClientsRight`); there is one host unless one was spawned beside another (`Alone`), so the record can only be its own (`RecordTells`) |

Induction over data is replaced by the least counterexample where a proof needs it: `NatLessThanWellFounded` and `WFMin` give the least number of a set (`LeastNumber`), and the
assumption that a recursive function does not exist, or goes wrong, at some length fails at the least such length. So `TurnBrokerProofs` shows what sealing the waiters of a
thread one after the other (`SealAll`) leaves, for any number of them and any limit.

Proving changed the model of events. `EffectsOnce` had said that activities appear in the order of their events and that there is at most one compaction beside a released latch; both hold in the
first scenarios and fail in larger ones. After two crashes, an event that the first left unmarked can be delivered again behind later ones (`behind` records which),
and each further report of usage may release the latch by its timer while the provider still compacts (`lapsed` counts them). Both are
behaviour of the code; the scenarios that show them are now in the run. `ReceiptSound` speaks of states in which nothing is left behind. A turn's end closes the open requests of its
thread only if the turn failed, was interrupted, cancelled or aborted: a closed session and a `runtime.error` close none, and a request that such an end leaves open is shown as open until a later turn of the thread ends that way, which is how
`ReceiptTells` states it.
Of the sessions it showed two more: a crash after the provider session was ended and before the archive was written leaves the session open without a provider session (so a
crash ends what `quiet` remembers of it), and a session may be inserted for a conversation that was deleted while the provider was being asked (`crossed` has it).
Of packages it showed that a backup does not wait in the queue of mutations (`actions.ts:85`) and can copy the files while the member of a bundle is being fetched: what is imported from it
calls the setup complete and cannot start. `StateAgrees` had held in the run only because no bundle there replaced a plugin in use; bundle `b3` now does, and `cut` has the backup.
(`actions.ts` is of `app/control-api/services`.)

What stays with TLC, and why:

* Liveness: `AcceptedSettles`, `OpenSettles`, `TurnSettles`, `Returns`, `IntentsSettle`, `Handled`, `EverythingReturns`, `DueRuns`, `Settles`. The prover has no ENABLED, hence no weak fairness.
* `StateAgrees` (`Packages`): the judgement which packages can start would have to be carried through every write of every operation, crashes excepted. It is the one invariant of the runs that is not proved.

## 5. What is not modelled

Data: texts, attachments, payloads, wording of errors, logging. Time, except as timers that may fire, small clocks in `PackageJobs` and `Sessions`, and the minute of the
dedupe key. Whole components: read models (queries), memory and retrieval (ranking of text), contracts (types), git history, routing, validation and rendering in HTTP and
CLI, pruning and migrations of the database, and the many calls of the plugin context that only read.

In `OrchestrationRequests` the order of two rows created in one millisecond (random in the code), and what the requests do. In `Supervisor` the order in which a
signal's exit code is reported, and the private `restart` method, which nobody calls; `WorkersKnown`, `ServiceKept` and `Returns` state under which mix of reloads and crashes they hold: outside
of it two reloads asked by one worker leave two workers serving, and a worker that dies while a reload is under
way is not restarted. In `TurnBroker` a call whose session may not be started automatically (`ProviderControl` has it). In `PendingRequests` other threads, who may answer (a denial may come at any
check), archived sessions in the recovery. In `TransportIntents` actions, external and observed intents, the initial message of an "ensure". In `EventPipeline` answers to requests,
other threads, and the failure of a SQL statement. In `Runtime` the tick and the pollers, which other modules have. In `Sidecars` the error of a spawn, for which no listener exists, and children
that survive a crash of the runtime. In `WorkItems` the reading of queues; runs and gates that a crash leaves as running are in the model, and nothing is claimed of them. In
`Packages` two operators at once (the mutations are queued; `setDefaultModel` is not, and loses updates), the package tool of a running worker, searches' results, and the copying of a backup's files.
In `ControlHost` other leases than those of the counting policy, ports taken by other programs, a reload under way at a stop (`Supervisor` has it), and a worker whose start-up took too long and that does
not heed SIGTERM: it is taken for gone.

## 6. Plan

1. Theorems: `StateAgrees`; an abstract specification of a request's life that `OrchestrationRequests` implements.
2. The abstract specification "decided once, then closed" for pending requests holds only without the rewrites above; it is worth stating
   for runs without recovery.
3. Transport surfaces and effects, as far as they keep state; the remaining intents.
