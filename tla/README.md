# Verification of Rat Things

Rat Things runs coding agents. An API accepts work for an agent, a dispatcher launches a
worker on a MicroVM or an EC2 instance, the worker runs the agent and records what
happened, and scheduled reconcilers repair what crashes left behind. Chat and webhook
integrations feed the same API, and a desktop application runs the same agents on a local
native runtime. Everything durable is in DynamoDB and S3 (SQLite and files for the local
workspace). There are no locks: components rely on single conditional writes, on
idempotent identifiers, on leases, and on other components picking up what a dead one
dropped. That is what these modules are about.

Paths are relative to `src/src/` unless they start with `docs/` or `infra/`, which are in `src/`.

## 1. The system

### Components and what makes them correct

| Component | State | Operations | Correct when | Module |
| --- | --- | --- | --- | --- |
| Run store (`adapters/aws-runtime.ts`, `domain/state.ts`) | the private Run record | transition, attach, start, heartbeat, finish, fail, cancel, record liveness: each one conditional write | the status follows the table, an attached worker is never replaced | `DynamoRunStore`; abstractly `RunContract` |
| Run dispatcher (`execution/dispatcher.ts`) | none; SQS deliveries | claim, launch, attach, stop | one worker executes a Run however often its wake-up is delivered | `RunLifecycle` |
| Worker (`runner/main.ts`, `runner/heartbeat.ts`) | the process | wait for attachment, start, heartbeat, finish, fail, cancel | executes only what is attached to it | `RunLifecycle` |
| Run service (`core/run-service.ts`) | none | submit, cancel | a cancellation settles without its client | cancel in `RunLifecycle` |
| Active-run reconciler (`execution/reconciler.ts`, `lambdas/reconciler.ts`) | none; a schedule | nudge, inspect, observe, fail, cancel, stop | repairs only what is lost, and everything that is | `RunLifecycle` |
| Terminal-worker reconciler (`execution/terminal-worker-reconciler.ts`) | none; a schedule | retire EC2 workers of ended Runs | stops only workers of ended Runs | `RunLifecycle` (`RetireWorker`) |
| Execution command mailbox (`core/execution-command-service.ts`, `runner/ec2-supervisor.ts`) | command rows and responses | request, list, claim, perform, respond, give up | a command takes effect at most once and its answer is true | `ExecutionCommands`; abstractly `CommandContract` |
| Delivery (`delivery/service.ts`, `adapters/dynamo-delivery-fence.ts`) | fence rows | claim, post, record, release | one post per destination | `DeliveryFence` |
| Session service and execution (`core/session-service.ts`, `app/run-session-execution.ts`, `runner/session-runtime.ts`) | Session and runtime records, snapshots, outbox | events, dispatch, start, steer, cancel, complete, delete, publish | an input is accepted once and dispatched, one harness runs, outcomes are final | `SessionDispatch` |
| Thread integrations and event candidates (`core/session-integration-service.ts`, `core/event-candidate-service.ts`, `ingress/service.ts`) | thread subscriptions, integration inputs, occurrences, candidates | receive, filter, admit, promote, release, submit, deliver | an event becomes one input and every request is answered | `ThreadIntegrations` |
| Integration connections (`plugins/connection-service.ts`, `plugins/oauth.ts`, the vault and OAuth stores) | connection and alias rows, secrets, refresh leases | create, test, rename, rotate, revoke, refresh, call | names, rows and secrets agree; one refresh at a time | `IntegrationConnections` |
| Local native installation and service (`adapters/local-native-installation.ts`, `app/local-native-service.ts`) | version directories, `selection.json`, change records | install, probe, activate, select, roll back, recover | a selection that survives power loss, changes that settle and tell the truth | `NativeInstallation` |
| Workspace handoff (`core/workspace-handoff-service.ts`, `runner/workspace-handoff.ts`) | the environment record with its handoff, snapshot leases | admit, bind, adopt, seal, stop writers, synchronize, commit, abort, recover, copy | one user of a root; a checkpoint is complete | `WorkspaceHandoff` |
| Worker control (`microvm/runtime-server.mjs`, `runner/control.ts`, `runner/codex-app-server.ts`) | waiting commands, two channels, the turn of the driver, mounts | ask, answer, direct, time out, start, resume, shut down | a repeated command applies once; a turn has its storage | `WorkerControl` |
| Codex harness (`runner/session-runtime.ts`, `adapters/codex-rpc.ts`, `core/native-checkpoint-planning.ts`) | the native turns, what the host was told, the checkpoint | start, steer, interrupt, child threads, checkpoint, verify, end | one native turn per Turn; a checkpoint holds all that was done | `NativeSession` |
| Pi harness (`core/session-native-store.ts`, `runner/pi*`) | the history in the runtime record, its image in memory, reserved ids | claim, commit, run, effects, functions, steering, replace, project | an effect runs once; what is published is stored | `PiHarness` |
| Local Sessions (`runner/local-session-execution.ts`) | durable attempts, snapshots behind the harness, the worker | start, cancel, observe, close, recover | a Turn starts once, has an outcome, and is cancelled only when its worker has gone | `LocalSession` |
| Local workers (`runner/local-managed-environment.ts`, `adapters/local-native-runtime.ts`, `adapters/local-container-runtime.ts`) | claims, storage, machines, the slot | ensure, boot, close, poison, retire, snapshot | one machine per workspace; stopped means gone | `LocalRuntime` |
| Worker machine (`microvm/runtime-server.mjs`, `runner/ec2-supervisor.ts`, `runner/workspace.ts`, `runner/process.ts`, `runner/chatgpt-auth.ts`) | mounts, the Git workspace, child processes, the stored login | hooks, clone, refresh, set up, run commands, persist the login, stop | a whole workspace with one user; no login lost | `WorkerMachine` |
| HTTP API and rate limits (`lambdas/agents-router.ts`, `lambdas/control.ts`, `adapters/agents-http-server.ts`, `core/owner-rate-limiter.ts`) | tokens, the counter and the receipts of an owner | admit, route, check scopes, charge, answer | scopes bound what a request does; no minute exceeds its limit | `ControlApi` |
| Requests (`cli.ts`, `domain/capabilities.ts`, `plugins/capability-profiles.ts`) | none | parse a command line, narrow what a request may do | never more than profile and grants allow | `Requests` |
| Setting up integrations (`cli.ts`, `plugins/oauth.ts`, `adapters/dynamo-integration-store.ts`) | connections, sets, two copies of a binding, authorizations | slack-events, connect, reconnect, event policy, callback | the copies agree; an authorization works once | `ConnectionAdmin` |
| Publications (`core/session-artifact-capture.ts`, `core/publication-service.ts`, `adapters/cloudfront-publications.ts`, upload in `adapters/aws-runtime.ts`) | artifacts, publication objects, shares, an upload | capture, stage, commit, share, sign, upload | the manifest names complete files of one version | `Publications` |
| Session events (`core/session-event-store.ts`, `core/session-stream.ts`, `core/watchdog-session-actions.ts`) | the observation, batches of events | write a source, commit, replay, judge | a stream replays what was observed | `SessionEvents` |
| Outgoing webhooks (`core/webhook-service.ts`) | endpoints, registry, secrets, deliveries | create, update, rotate, delete, fan out, deliver | no event forgotten, no secret without endpoint | `Webhooks` |
| Creation and forks of Sessions (`core/session-service.ts`, `core/session-tool-service.ts`, `runner/fork-workspace.ts`) | preparations, attempts, secrets, bindings; locks and leases | create, adopt, abandon, delete; lock, checkpoint, lease, commit, copy | a Session is made whole or not at all | `SessionPreparation`, `SessionFork` |
| Agent vaults (`core/vault-service.ts`) | vaults, credentials, secrets, refresh leases | create, rotate, archive, refresh | a grant whose successor is stored is not sent again, stored secrets are live | `Vaults` |
| Schedules (`core/schedule-service.ts`, `adapters/eventbridge-session-scheduler.ts`) | the schedule, its occurrences, the EventBridge schedule | change, synchronize, invoke, accept, skip | one Session per instant | `Schedules` |
| Local service, transfer, sign-in (`local-workspace.ts`, `app/local-composition.ts`, `app/local-transfer.ts`, `runner/local-subscription.ts`, `scripts/console-server.ts`) | lease and connection file, snapshot and parts, sign-ins | find or start, snapshot, upload, import; open, cancel, shut down | one service; a copy of one moment; no sign-in left open | `LocalTransfer`, `SignIn` |
| AWS quickstart (`scripts/aws-quickstart.ts`) | four files beside the repository, the cloud | setup, resume, destroy, verify | what is reported destroyed is gone | `Quickstart` |

### How they interact

- **Run lifecycle.** API, SQS deliveries, workers and reconcilers share the Run record and
  nothing else. Each decides on a record it read earlier and writes under a condition.
- **Sessions.** `events` commits an input and its commands; the table's stream turns the
  write into FIFO jobs; a job talks to a running harness or submits a Run; the harness
  publishes snapshots in the runtime record, which names the Run that may publish.
- **Worker control.** On EC2 the control plane reaches the harness through the command
  mailbox only; on a MicroVM through the lifecycle server. Both end in the same bridge.
- **Workspaces.** Control plane, worker and fork copiers share the environment record; a
  worker's storage outlives its machine.
- **Integrations.** A webhook becomes an input of a Session or a candidate for a model to
  judge; the outcome of the Turn is delivered to the thread through the delivery fence,
  with credentials from a connection.
- **Local workspace.** A service process holds the profile; the client asks for changes and
  restarts it. The harness runs on the host, its commands in an isolated worker.
- **Around the API.** Vaults, webhooks, schedules, preparations and rate limits each are rows
  with revisions, written conditionally by API calls, stream jobs and workers.

### Which behaviours are hard

Deliveries that overlap or repeat; records read before a slow call and used after it
(inspections, observations, provider calls); crashes between two writes; answers lost after
the effect; leases that run out under their holder; a list of Turns that four callers
rewrite from what they read; queues that must drain behind a stuck entry; a harness whose
answers and notifications share one stream; storage that outlives the machine that wrote it;
a power loss between a rename and the synchronization of its directory. `PROJECT.json` lists
40 such hazards, each at its line, with the properties that cover it. Hazards left out of
that list for room: a mismatched worker fails another worker's Run (`runner/main.ts:438`),
the generation branch of `dispatcher.ts:57`, health that never matches
(`ec2-executor.ts:54`), the two-job claims of `run-session-execution.ts:139` and `:194`, a
cancelled Turn that a later claim makes unobservable (`:285`), a store error that leaves a
native release unpinned (`local-native-service.ts:54`), a first setup that is recorded as
failed and activated by the next start (`:149`), the lost answer of `putConnectionBundle`
(`connection-service.ts:159`), an event accepted into a Session that is deleted just then
(`session-integration-service.ts:53`), a refresh that stores its replacement after a rotation
(`oauth.ts:327`), a 30 s refresh lease around two exchanges of up to 20 s, a crash between
the receipt of an explicit request and its acceptance (`ingress/service.ts:44`), and a
candidate whose event was accepted meanwhile, which retries until it is an hour old
(`event-candidate-service.ts:133`). The models contain those that happen inside a modelled
component; the repository promises nothing about them that a property could state.

## 2. Modules and the code

In every module a step is one call (store, queue, vault, provider, host, file system) with
the local computation up to the next, so anything may happen between two calls. A read and
the conditional write that depends on it are one step only where a lost condition makes the
caller start over and nothing else can tell.

| Module | What its variables are | Notes |
| --- | --- | --- |
| `DynamoRunStore` | none: an `...Ok` condition and a written record per method | the execution generation is a hash of immutable fields and left out |
| `RunContract` | `status`, `execution` | the abstract promise of the Run record |
| `RunLifecycle` | `run`, `wake` (the SQS message), `token` (idempotent launch), `host`, `dlv`, `wrk`, `client`, `rec` | `D...` dispatcher, `W...` worker, `C...` client, `R...` reconciler actions |
| `RunLifecycle_proofs` | | section 6 |
| `ExecutionCommands` | `table`, `response`, `requester`, supervisors with the page they listed, `run`, `now`, history `effects` | creation times, cursors and deadlines are kept; ids are numbers, ordered |
| `CommandContract` | `caller`, `outcome`, `effects` | the abstract promise of the mailbox: who supervises is left out |
| `ExecutionCommands_proofs` | | section 6 |
| `DeliveryFence` | `row` per destination, `job`, history `accepted` | the lease is a state of the row |
| `DeliveryFence_proofs` | | section 6 |
| `SessionDispatch` | `session`, `runtime`, `run`, `worker`, `native`, `started`, `refused`, `client`, `deleter`, `job` | a Turn's Run has its number, the bootstrap Run is 0 |
| `SessionDispatch_proofs` | | section 6 |
| `NativeInstallation` | `disk` (contents and what is synchronized), `process`, `op` (the operation under way), `records`, history | one process holds the profile's lease |
| `IntegrationConnections` | `row`, `aliases`, `secret`, `lock`, `issued` (what the provider thinks), `proc`, `wanted` | credentials are numbers |
| `IntegrationConnections_proofs` | | section 6 |
| `ThreadIntegrations` | `subscription`, `inputs`, `occurrence`, `explicit`, `marker`, `candidate`, `session`, `delivery`, `awake`, history `posted` | webhook handlers and `submitPending` keep no state: dying is not taking the next step |
| `WorkspaceHandoff` | `row` (the environment record), `attach` (the control plane), `worker`, `effect`, `unsynced`, `copier` | a conditional update with its retries is one step; content is "which Run wrote last and what is not synchronized" |
| `WorkspaceHandoff_proofs` | | section 6 |
| `WorkerControl` | `host`, `storage`, `request`, the channels `down` and `up`, `bridge`, `driver`, `native` | a request that timed out stays in the channel |
| `NativeSession` | `native` (the harness), `out` (its stream), `view` and `buffer` (what the host knows), `start`, `cancel`, `ckpt`, `driver` | the harness numbers its own turns; `Uses` selects fork, child agents or functions |
| `LocalSession` | `attempt`, `saved`, `writes`, `snap`, `runtime`, `native`, `worker`, `tails`, `op`, history `said` | one operation of a Session at a time, as `LocalRuntimeLifecycle` does |
| `LocalRuntime` | `claim`, `storage`, `slot`, `machine`, `orphan`, `connections`, `poisoned`, `retiring`, `op`, history `stopped` | three runtimes behind one environment; `orphan` are workers of an earlier host |
| `PiHarness` | `disk` (the record), `harness` (images in memory), histories `ran` and `granted` | hosted or local, by `hosted` |
| `PiHarness_proofs` | | section 6 |
| `WorkerMachine` | `job`, `record`, `machine`, `sup`, `server`, `mounted`, `runner`, `cmd`, `ws`, `login` | machines are numbered in the order of their Runs |
| `Quickstart` | `files`, `cloud`, `vms`, `secrets`, `setups`, `command` | one command at a time; a kill can leave a file unreadable |
| `ConnectionAdmin` | `row`, `sets`, `owned` and `routed` (the copies of a binding), `auths`, `cli`, `late`, `callback`, history `installs` | commands give up after 30 s; `late` requests still take effect |
| `ControlApi` | `tokens`, `request`, `clock`, `counter`, `receipt`, history `ran` | the table of routes is data (`Routes`) |
| `Requests` | none | functions: the parser of the command line, profiles, grants, constraints, against a reference definition |
| `Publications` | `live`, `capture`, `listed`, `public`, `publisher`, `shares`, `access`, `upload` | keys that are hashes are what is hashed |
| `LocalTransfer` | `proc`, `lease`, `link`, `source`, `plan`, `task`, `cloud` | the archive and its restoration are functions |
| `SignIn` | `service`, `login`, `failing`, `console`, `window`, `link`, `cli` | a sign-in is a number; URLs and accounts are left out |
| `SessionEvents` | `session`, `runtime`, `obs`, `batch`, `writer`, `reader`, histories `log` and `judged` | one turn and one item stand for all |
| `Webhooks` | `endpoint`, `registry`, `secret`, `admin`, `event`, `jobs`, `delivery`, `handler`, histories `steady` and `accepted` | `seen`, `counted`, `fresh`: whether a reader's revision is still stored |
| `SessionPreparation` | `preparation`, `session`, `bindings`, `attempt`, `secret`, `proc` | revisions as in `Webhooks` |
| `SessionFork` | `source`, `env`, `root`, `forker`, `preparation`, `child` | the checkpoint itself is `WorkspaceHandoff`'s |
| `Vaults` | `vault`, `row`, `secret` and its refresh token `grant`, histories `spent`, `kept`, `resent`; `refresher`, `admin`, `slow` | an update brings a refresh token or keeps the one it read; a refused deletion is repeated or not; in the profiles of `Slow` a refresher may outlive its lease |
| `Schedules` | `schedule`, `occurrence`, `latest`, `job`, `trigger`, `calls`, `invoker`, `session`, histories `overlapped` and `blocked` | a configuration is known by the generation that set it |
| `Schedules_proofs` | | section 6 |

`MC...` modules instantiate them. Components that share nothing are composed in one run
(`MCServices`, `MCSessionInput`, `MCIntegrations`, `MCWorkers`, `MCPlatform`): the variable
`focus` says whose behaviour it is, the others do not move, and every property is restricted
to its focus. In `MCWorkers` and `MCPlatform`, which compose nine and eleven components, the
instances take turns on the same registers `v1`, `v2`, ...: a component's Init sets those it
uses, the rest are 0. Each instance fixes its own bounds. A property of such a run is the
conjunction of what its component's module states separately and comments there. One component
of `MCServices`, `MCIntegrations`, `MCWorkers` and `MCPlatform` is extended and not instantiated
(`DeliveryFence`, `IntegrationConnections`, `WorkspaceHandoff`, `Schedules`), so that the property the run checks and the
property the theorem of section 6 states are one definition; while another component acts it
stays in its initial state. `MCSessionInput` extends `SessionDispatch`, for whose three shapes `focus`
selects the calls, jobs and faults that take part; the hosted shape takes the steps of an instance
that differs in `Hosted` only; the messages differ in name only, and the one accepted first is called
`FirstKey`. `TypesOK` is the type invariant of whichever component acts.

Some quantities are shared between modules and modelled where they are written: the Run record
in `RunLifecycle`, of which `WorkerMachine` and `WorkspaceHandoff` have only what they read;
the checkpoint in `WorkspaceHandoff`, of which `SessionFork` has the lease; and the native turns in
`NativeSession`, which `SessionDispatch` and `LocalSession` see as "running" or "ended".

Every definition that models code is in `map` of `PROJECT.json` with its lines.

## 3. Runs

| Run | Instance | Shows |
| --- | --- | --- |
| `run_dispatch` | 2 deliveries, 2 hosts, client, 2 faults | `TypeOK`; `OnlyAttachedWorkerExecutes`; the record implements `RunContract` (`RefinesContract`) |
| `run_repair` | 1 delivery, 1 host, 1 reconciler, 1 fault, fairness | `RepairIsTrue` (`LostMeansGone`, `AttachedHostNotStopped`), `HeartbeatDefeatsFailure`; `RunsSettle` (`CancellationSettles`, `RunSettles`) |
| `mailbox` | 2 commands, 2 supervisors, pages of 1, fairness | the mailbox implements `CommandContract` (`RefinesContract`); `ResponsesAreTrue`, `NoStartAfterGivingUp`, `CommandsLeaveTheQueue` |
| `services` | 2 delivery jobs x 2 destinations x 2 faults; native: 2 releases, 2 changes, 1 fault; a Session of 2 messages, 1 fault; a local Session of 1 Turn, 2 faults; fairness | `FenceIsTrue`, `SelectionsAreSound`; `ServicesSettle` (claims end unless their work is given up, changes settle), `SessionsSettle` (inputs are dispatched, attempts settle) |
| `session_input` | one Session of three shapes: 2 messages and a cancel, 1 fault; a deletion with 2 jobs, 1 fault; a hosted Session, 1 message, 1 cancel, 2 faults | `SessionIsOne` in each (`OneReceiptPerKey`, `OneOpenTurn`, `OneHarness`, `DeletedMeansStopped`); `TurnsHappenOnce` (`OnlyRefusalsOverwrite` and `StartsAreNotSaved` in each, `OutcomesStay` and `StartsAreUnfinished` in the first) |
| `integrations` | 1 connection with a fault, or 2 of one alias; 2 processes, 2 credentials; threads: 2 events of one Session, of up to 3 Sessions, or 1 with a fault, fairness | `ConnectionsAreWhole` (`AliasesResolve`, `NoOrphans`, `LockIsHeld`), `EventsAreAnswered` (`OneInputPerOccurrence`, `ExplicitIsAnswered`), `CandidateYields`; `IntegrationsSettle` (`RevocationDeletes`, `InputsAreProcessed`) |
| `workers` | nine components, see `MCWorkers`; the handoff with 3 Runs, 1 fork, 1 fault | `WorkspaceIsKept`, `CommandsAreKept`, `NativeTurnsAreKept`, `LocalWorkStops`, `PiIsKept`, `MachineIsSafe`, `OperatorsAreTold` |
| `platform` | eleven components, see `MCPlatform`; a schedule of 2 instants with 2 invocations at a time, or that changes, with 1 that may die | `RequestsAreBounded`, `PublishingIsSafe`, `LocalServiceIsSafe`, `DeliveriesAreTrue`, `SessionsAreMadeWhole`, `VaultsAreSound`, `OccurrencesAreTrue` |
| `attachment_error`, `session_cancelled_start`, `revoked_stays`, `vault_revokes_live` | the smallest instance that shows it | disagreements, section 7 |

Every property of a passing run has a mutant of the modelled code that violates it; the
mutant stands before the definition it changes.

### Bounds, and why they are enough

- *Run lifecycle.* Runs do not interact. Two deliveries and two hosts are what it takes to
  launch twice and race for an attachment; the theorems of section 6 lift the numbers. The
  repair run has one host and one reconciler, because its questions are about one stale
  decision against one worker; timestamps are compared for equality, and the boot, the
  attachment and the start write take one each, so `MaxClock = 3` leaves a heartbeat that
  falls between an inspection and the failure it decides.
- *Mailbox.* Two commands on pages of one give every cursor position: before, at and past a
  stuck entry; a tick of patience separates in time from too late.
- *Delivery.* A second job, a second destination, and two faults: a crash and a lost answer.
- *Native installation.* Two releases are an active one and an update; previous and pending
  follow from their order. The run has one fault; `ChangesSettle` would need fault-free
  periods otherwise.
- *Sessions.* The second message is what steering, queueing and a second harness need; one
  cancel races both. The jobs of a Session without an environment are serialized by their FIFO group,
  and the first shape has one; an `environment` job has a group of its own, so that others may have
  two at a time: the deletion is checked with two, and section 7 says what two break.
- *Connections.* Two processes suffice for every pairwise race of row, secret and lease; two
  credentials for one rotation or refresh after the first issue.
- *Threads.* Two events share a Turn, follow each other through epochs, or supersede each
  other. With `MaxInputs = 1` the second event finds the Session full, as the 129th does.
- *Handoff.* Three Runs: a checkpoint, its successor, and the successor of that; one fork
  copies from the first or the second.
- *Control.* Two requests for the same or different operations, with two contents, so that a
  repetition differs from a new command; two mounts, of which one may fail.
- *Codex harness.* Two public Turns, three native turns (one started for each, and one that a
  fork inherits or a child thread runs), a pipe of two lines: an answer and a notification
  in either order; the one fault may be an error that the harness will not retry.
- *Local.* Two Sessions compete for one slot; a second Turn follows a closed one. *Pi*: a
  harness and its successor, one Turn, five commits: enough to reach past an effect, a function
  result or a child's end. *Machine*: two machines on one storage, two logins, two faults: a worker
  that is reported lost or a failed store of its login, and one thing more; every pair of backend,
  repository and managed environment, the third following from the two.
- *Quickstart.* A setup, and a second one after or instead of its teardown, with three
  failures or kills. *ConnectionAdmin*: two commands of the kinds that touch the same rows,
  which `Profiles` lists, over two connections and accounts; one authorization, of which the
  callback is delivered twice; a set made by hand only where the commands read sets.
- *API.* Two requests against a limit of two and one minute's turn. *Requests*: command lines
  of four words over every class of word. *Publications*: two publishers of three kinds of
  publication; outputs rewritten twice; streams of nothing, less than, exactly and more than a part.
- *Transfer, sign-in.* Two processes or services; two parts; one clock tick past the lock; five
  workspaces that differ in what restoring must refuse. *Events*: one writer of each source;
  three revisions with a stream and a fault, and four without: the creation, the item that the
  watchdog judges, a change of it, and the cancel that comes too late. *Webhooks*: two endpoints for a limit of one, two callers.
- *Preparation, fork, vault, schedule.* Two callers of the same operation and one of each that
  conflicts, with one fault, or more callers without; two instants and two generations of a
  schedule, so that an invocation of the old one meets the new one. Two refreshers of the vault
  may stall past the lease when nobody else acts (`Slow`), which spares `StoredSecretsAreLive`
  there: `vault_revokes_live` shows what it then does; with an administrator they take turns.

`CHECK_DEADLOCK FALSE` is set where a finished instance stops (a Run that settled, a mailbox
without commands, deliveries done, a component of `workers` or `platform` that reached its
bounds); the Session runs check deadlock.

## 4. Fairness, and why the code justifies it

- *Runs.* SQS redelivers, the reconciler is scheduled, hosts have a maximum lifetime, and a
  process that started takes its next step (`WF`). An inspection that keeps being asked is
  answered at last (`SF` on `RInspectProven`). Nothing makes a client cancel or a wake-up
  arrive.
- *Mailbox.* Supervisors poll in a loop while the Run is active.
- *Delivery.* What is delivered for a Run comes as an asynchronous invocation of the notifier
  (`infra/modules/agent-runner/events.tf`), which is dropped after a few attempts; what is
  delivered for a Session comes from the agents queue, up to its `maxReceiveCount` of 1000.
  So a job is fair only as long as it is not given up (`Drop`, any time between two
  attempts), and `ClaimsEnd` promises an end only while one delivery of the work is left.
  Leases run out by time (120 s).
- *Sessions.* The agents queue retries with `maxReceiveCount` 1000 and a visibility timeout of
  360 s (`infra/modules/agent-runner/agents.tf`), so a job is received again until it
  succeeds; what a thousandth failure would lose is outside the model. Bounded harnesses end
  their Turns; host-managed ones need not, and `InputIsDispatched` is checked for bounded
  ones.
- *Native.* The service is started again after it ended, and a client that asked for a
  change asks for its result.
- *Local Sessions.* The host serves its operations, its writes and the questions about its
  Sessions; a harness has a bounded lifetime. A question waits until no operation runs, and is
  answered in the end (`SF` on `ObserveStopped`): operations of a Session are queued one
  behind the other, so one that waits is not passed for ever.
- *Connections.* A step of a process that began is taken; an owner who wants a
  revocation and is told of a failure asks again (`SF` on `BeginRevoke`).
- *Threads.* Stream jobs are received until they succeed; Turns end.

`workers` and `platform` check safety only and state no fairness.

## 5. What the main properties are about

- `OnlyAttachedWorkerExecutes`, `RefinesContract`: launch, attachment, start and
  cancellation are separate calls of separate processes.
- `HeartbeatDefeatsFailure`, `LostMeansGone`: the reconciler's evidence is older than its
  write; the heartbeat fence keeps it from failing a worker that lives.
- `OneHarness`, `DeletedMeansStopped`: start reads, claims and submits without a lock; the
  worker's own check of the runtime record comes later still.
- `OnlyRefusalsOverwrite`, `FinishedTurnNotStarted`, `SavedTurnNotReplayed`: completion,
  cancellation, refusal and new input rewrite one list of Turns. `OutcomesStay` is stronger and
  fails once a start is refused after its Turn was reported (section 7), so it is checked with the
  one shape in which no such refusal is within the faults. A start may be refused before its delivery,
  its launch or its submission, and be accepted when it is retried; `StartsAreUnfinished` therefore
  excepts Turns of which a start was refused.
- `RefinesContract` of the mailbox, `AtMostOnePost`: the effect is outside the database; a claim that precedes it
  is never taken over.
- `SelectedSurvives`: a version is synchronized before its selection; excepted are versions
  whose publication was interrupted (history `interrupted`), which `install` does not
  synchronize again.
- `ExplicitIsAnswered`: the withheld reply to a candidate never counts as the answer to a
  request; while it is being withheld, a promotion or another request may join the Turn.
- `OneInputPerOccurrence`, `CandidateYields`: redelivery across epochs and roles; the marker
  is read before the candidate is stored, compared before the model and again in the
  transaction.
- `RevocationDeletes`, `NoOrphans`, `LockIsHeld`: row, alias, secret and lease live in
  three services that share no transaction.
- `WorkspaceIsKept`: a worker seals admission, stops writers, synchronizes and commits in
  separate steps, any of which can fail with or without its effect; a successor adopts only
  what was committed, and a copier's lease holds the root.
- `CommandsAreKept`: an answer that timed out is still on its way when the client repeats it.
- `NativeTurnsAreKept`: the host knows the harness through one stream that it reads late; a
  checkpoint promises quiescence that a child thread or a buffered event may belie.
- `LocalWorkStops`: the native harness ends with the host, the worker does not.
- `PiIsKept`: an effect is outside the history that says it was made; after a lost answer the
  image in memory is wrong in one of two ways.
- `MachineIsSafe`: a workspace is taken over from a machine that died at any step of making it,
  and a login that was refreshed by a Run that then failed is the next Run's all the same. A Run
  reported lost while its machine was still at work is left to `LostRunsHaveStopped`, section 7.
- `OperatorsAreTold`: what a command reports against what requests that it gave up on did later.
- `VaultsAreSound`: once the row refers to the successor of a refresh token, no refresher that
  holds the lease sends that token again, although exchange, secret, row and credential are four
  writes, an update may start from any of them, and a stall or a crash may come between; no
  secret is left live that no active credential refers to. A holder that stalled past its lease,
  and a token spent by a refresher that stored nothing, are the cases it leaves to
  `GrantsAreSentOnce`, section 7.
- `SessionsAreMadeWhole`: every secret that exists is in some row that will have it revoked.
- `DeliveriesAreTrue`: a replayed stream equals the observation it has reached.

## 6. Proofs

`RunLifecycle_proofs` proves, for any number of hosts, deliveries and reconcilers and any
bounds:

- `TypeCorrect`: `Spec => []TypeOK`;
- `Authority`: `Spec => []OnlyAttachedWorkerExecutes`;
- `Refinement`: `Spec => RefinesContract`.

Assumptions: `VmsAssumption` and `NoneAssumption` (the markers are not hosts or numbers) and
`BoundsAssumption`.

`OnlyAttachedWorkerExecutes` is not inductive: nothing in it says why a worker that has not
started yet may start. `AuthorityInv` adds `RunAttachment` (a Run has an execution reference
from its claim on, none while queued) and `WorkerIdentity` (a worker past the identity check
carries its own attachment). With them a start that succeeds is conditional on the attached
reference, and `ContractStability` says no step replaces that reference. The refinement goes
the other way round the same facts: `DispatcherRefines`, `WorkerRefines`, `ReconcilerRefines` and
`ClientRefines` show that every step of an actor is a step of `RunContract` or leaves status
and execution alone, using `RunAttachment` for dispatchers and `WorkerIdentity` for workers;
`StepRefines` joins them. `AuthorityStep` then needs only that workers advance by their own
steps (`OthersDoNotAdvance`, `WorkerAdvances`).

About repair it proves:

- `TrueRepair`: `Spec => RepairIsTrue`, if the dispatcher's attachment write has a certain answer;
- `LostIsGone`: `Spec => LostMeansGone`, whatever fails;
- `HeartbeatWins`: `Spec => HeartbeatDefeatsFailure`.

The hypothesis of `TrueRepair` is needed: without it the run `attachment_error` is a
counterexample. `RepairInv` adds to `AuthorityInv` what a reconciler that is about to fail a Run knows
(`LossIsProven`: the host or the worker of the execution it inspected is gone), that a host that was never launched has no worker (`Unlaunched`), and that a
delivery past its claim works on a claimed Run (`Claimed`). That a host that is gone stays gone is
`GoneStays`; a stop that is about to be made is for a Run that is over or for a host that lost the
attachment (`StopsAreDue`, inductive only under the hypothesis). `HeartbeatWins` follows from the
conditions of the writes and needs no invariant beyond the types.

`ExecutionCommands_proofs` proves, for any commands, supervisors, page size and deadline:

- `MailboxTypes`: `Spec => []TypeOK`;
- `ClaimedOnce`: `Spec => []AtMostOnce`;
- `TrueAnswers`: `Spec => []ResponsesAreTrue`;
- `GivenUpNotStarted`: `Spec => NoStartAfterGivingUp`, an action property;
- `MailboxRefinement`: `Spec => RefinesContract`.

Assumptions: `CommandsAssumption` (finitely many, numbered) and `BoundsAssumption`. Both
properties speak of a row and a count only, while what protects them is in the memory of
supervisors, so `MailboxInv` ties the two together: the status of a row determines its
revision and an unclaimed row had no effect (`RowsAreOrdered`); a page entry listed as queued
carries revision 1 (`PagesAreQueued`), so the compare-and-swap of a stale page fails against
any later row; a supervisor at work holds a claimed row and knows whether it had its effect
(`ClaimsAreHeld`); and no other supervisor works on that row (`ClaimsAreExclusive`). Even the
types need the invariant: a claim writes the revision behind the listed one, which stays
within two only because the entry was queued. `LocalStepKeepsInv` covers every step that does
not touch the mailbox; `ClaimKeepsInv`, `PerformKeepsInv` and `RespondKeepsInv` the three that do.
The invariant was checked on the instance of `mailbox` before it was proved.
`GivenUpNotStarted` needs one invariant more, `PatienceInv`: a requester gave up only when the
deadline had passed. A step that starts a command is then one whose deadline has not
(`EffectsAreInTime`), so its requester is still waiting.

`CommandContract` says the same things as one specification: a command runs once, while it has no
answer and nobody has given it up; an answer is true when given and is never changed; a requester
that waits is told the answer or leaves. It says nothing of rows, pages and claims.
`MailboxRefinement` maps what a requester can see (`Caller`), the response and the count of
effects to it, and every other step of the mailbox to a stutter. Beside the invariants above it
needs `ToldInv` (a requester that was told an answer was told the stored one), since a command
must not run once its requester has one. A requester whose write failed may still have its
command run: the contract says so (`Execute` allows "unavailable"), because the code does not
know whether the write arrived.

`Schedules_proofs` proves, for any invokers, instants, generations and profiles:

- `ScheduleTypes`: `Assumptions /\ Spec => []TypeOK`;
- `TrueOccurrences`: `Assumptions /\ Spec => []OccurrencesAreTrue`.

`Assumptions` is defined in `Schedules`: there is at least one instant and one generation, and a
profile's changes fit the generations. `OccurrencesAreTrue` relates rows and histories, but
what protects them is in the memory of invocations, which decide from reads that may be out of
date. `ScheduleInv` therefore says what a read that is still current implies (`DecidesOnce`: that
nothing was decided of the instant, and that there is a Session before it; `JudgedIsTrue`: that
this Session, if it was not found in progress, is made), that whoever submits an
instant finds it decided, that a noted turn belongs to a Session that was made
(`TurnsFollow`), that the stream's job read the stored row unless it has news (`JobIsTrue`), and
that the generations left suffice (`GensLeft`, on which the types depend). A write of the row
ends every current read, so `DecisionKeepsInv` only needs the deciding invocation's own;
`SessionMoves` shows that a Session that was made is never again to be made, which is
why `JudgedIsTrue` survives the steps of Sessions between the read and the decision. Nothing of
the kind holds for its first turn, which begins between the two reads: the theorem's part on
"skip" (`SkipIsKept`) is about Sessions yet to be made, and `SkipSuppresses` (section 7) is not
a theorem.
`PlaceKeepsInv` covers the invocation steps that decide nothing. The invariant was checked on
two invokers, three instants and two generations, as far as TLC came in five minutes, before
it was proved.

`DeliveryFence_proofs` proves, for any jobs, destinations and number of faults:

- `FenceTypes`: `Assumptions /\ Spec => []TypeOK`;
- `TrueFence`: `Assumptions /\ Spec => []FenceIsTrue`.

`FenceIsTrue` counts posts that the provider accepted and compares the row with that count. The
count is out of the reach of any write, so `FenceInv` follows a post from the claim: a job is at a
destination of its list (`Underway`); of the jobs that hold, post or record for one destination
there is one (`OneHolder`); while it does, the row is its claim, or was given up as unknown after
its lease, and nobody else claims it (`ClaimStands`); the job knows what the provider did or that it does not know
(`HolderKnows`); and without a row nothing was posted (`NoRowNoPost`). `FenceIsTrue` itself is
needed: it is what makes a second delivery skip a destination.

`IntegrationConnections_proofs` proves, for any processes, connections, names, accounts, credentials
and faults:

- `ConnectionTypes`: `Assumptions /\ Spec => []TypeOK`;
- `WholeConnections`: `Assumptions /\ Spec => []ConnectionsAreWhole`.

Row, alias, secret and lease are written by different calls of a process that may stop after
any of them, and every process goes by the row it read. `ConnectionsInv` therefore has, beside
what the property says, a predicate of each process, `Sound(p)`: a creation names what it creates
and has stored the secret when it comes to the rows (`CreationIsWhole`); any other operation holds a
row of a connection that is there under the alias it still has, since no operation
renames a row or removes one (`OperatesOnRow`); and what it holds of credentials was issued
(`HoldsIssued`). `RowsAreWhole` and `StoredWereIssued` are the same for what is stored. The alias of
a row read long ago is what makes a late `save` harmless to `AliasesResolve`, while nothing makes it
harmless to a revocation: that is the run `revoked_stays`. Most steps write one of the four
places; the proof has one lemma per shape of step and shows that the processes that do not move
keep `Sound` (`OthersStay`).

`WorkspaceHandoff_proofs` proves, for any number of Runs, forks and faults:

- `HandoffTypes`: `Assumptions /\ Spec => []TypeOK`;
- `KeptWorkspace`: `Assumptions /\ Spec => []WorkspaceIsKept`.

`WorkspaceIsKept` speaks of who may write and of what is synchronized; that it holds is due to what
the environment record says and to what each actor saw of it. `HandoffInv` ties the program
counter of a worker to the phase, the source and the generation of the record (`WorkerOwns`): all
that may write belongs to the Run that the record names, and only a worker that shut down and
synchronized can commit. A generation is that of the bound Run, whose worker never takes one again
(`GenerationIsOfRun`); the source of a committed checkpoint is quiet (`CommittedIsQuiet`); a copy runs
under its lease (`CopiesAreLeased`); a recovery whose read is current recovers from a host that
is gone (`RecoveriesAreTrue`). The delicate part is an admission, which reads, asks whether the
predecessor's host has stopped, and writes much later under the condition that Run and generation
are those it saw. That this is enough is `AdmissionIsTrue`: the predecessor has stopped, which is
irreversible, or its generation is `Spent`: taken, and no record ever has it with
phase "none" again. A checkpoint that was committed, adopted or reset in between fails the condition.
The steps of a worker are covered by what they write (`WorkerSteps`, `WorkerPuts`), those of
forks and time by `RowStays`, and admissions by `AdmissionSteps` and `RootIsFree`, all of which
leave the other actors to `AdmissionStays`. The proof showed that `RootHasOneUser` had excepted a copier
whose lease is in its last seconds without need: the exception is gone. The invariant was
checked with three Runs and a fork, and with two Runs, two forks and two faults, before it was
proved.

`SessionDispatch_proofs` proves, under `Assumptions` (finitely many messages, which are not
cancellations), for any number of messages, cancellations and faults:

- `SessionTypes`: `Spec => []TypeOK`;
- `InputIsAcceptedOnce`: `Spec => [](OneReceiptPerKey /\ OneOpenTurn)`, for any number of jobs;
- `OneSession`: `Spec => []SessionIsOne`, if `OneAtATime`;
- `OutcomesAreKept`: `Spec => [][OnlyRefusalsOverwrite]_vars`, for any number of jobs;
- `SavedNotReplayed`: `Spec => SavedTurnNotReplayed`, if `OneAtATime`.

`AcceptInv` is the invariant of the first two. A client plans with what it read, and commits under
the revision it read: `PlanIsCurrent` says what a plan of the current revision knows (its key has no
receipt; its list of Turns is as long as the stored one and agrees with it in every outcome), so that
the plan can neither add a second receipt nor reopen a Turn. `Continues` is what every other write
of the Session has in common (no Turn and no receipt comes or goes, an outcome stays one, what
changes a Turn changes the revision), and `ContinuesKeeps` that acceptance survives it.
The types are the surprising part: a Turn's Run has its number, so they say that there are never
more Turns than messages. That is `TurnsAreAsked` and `OneReceiptPerKey` together, by an injection of
the Turns into the messages (`TurnsFit`). `Sees` says that a job's copy is an earlier state of the
Session and `DispatchAccepts` that each of a job's steps keeps it.

`HarnessInv` is the invariant of the third. A harness that is admitted is the one the runtime record
names (`NamedRuns`) and belongs to a Run that runs (`LiveRuns`). What may break this is a claim, much
later than the read it relies on. Three facts together prevent it: every write of the runtime record
changes its revision, so a claim that succeeds finds the record it read (`ReadIsOld`); that record was
open; and while the job goes on from its read no other Run becomes active (`NothingRuns`). Since a
claim never finds a closed record, a runtime is closed for good (`ClosedForGood`), nobody is admitted
after that, and the deletion that stops the named Run has stopped all (`StopsFirst`).
`NothingRuns` is where `OneAtATime` is needed: either one job is at work (`OneJob`), as where the
Session has no environment and all its jobs are in one FIFO group, or another one (an `environment`
job, which has a group of its own: `agents-outbox-planning.ts:36`) has nothing to launch but the
same single Run. With two jobs, two messages and a cancellation, and no fault at
all, TLC finds two harnesses admitted (section 7).

`OutcomesAreKept` needs no more than `AcceptInv` and that a job about to fail a Turn was refused
its start (`FailsRefused`). Of the writers of the list of Turns a plan knows the outcomes of its
revision and fails on any other, a completion writes a Turn without an outcome, and a cancellation
leaves outcomes alone; what is left is the refusal, which looks at nothing.

`SnapshotInv` is the invariant of `SavedNotReplayed`: what an admitted harness holds of a Turn it
started itself or took from the published snapshot (`NativeIsKnown`), what is published the admitted
harness holds (`SavedIsNative`), the Run that the runtime record names has a Turn that is not saved before
that Run starts it (`NamedIsNew`), and so for the Turn of a job that read the record and still relies on it
(`ReadIsNew`). The hazard is a retry that started long ago: between its read of the runtime record and
its effect the Turn may be started, saved and its host lost. Either the effect is a delivery, and the
worker asks its own history, or it is a claim, which fails on a record that changed since it was
read; after a claim the named Run is new and its snapshot is the one that was read. `SnapshotMoves`
says once what all other steps may do to histories and snapshots; claims are treated apart.

`PiHarness_proofs` proves, for any harnesses, Turns, commits, profiles, replacements and faults:

- `PiTypes`: `Assumptions /\ Spec => []TypeOK`;
- `KeptPi`: `Assumptions /\ Spec => []PiIsKept`.

`Assumptions` is defined in `PiHarness`: harnesses are numbered in the order of their claims.
`PiIsKept` counts what was started outside, which no record holds; what protects it is the chain of
commits. `IInv` says of each harness (`Fits`) that claims are made in order and only the last can be
open (`Claimed`); that the image of an open harness is the stored one, unless a lost answer poisoned
it (`ImageOf`); that an effect belongs to a task that the stored history says was begun (`TaskOf`);
and that an effect which can still start has not (`NotYet`). Beside that a tool that was begun is of
the one Turn that runs (`Sound`), no two harnesses have the same task (`TasksAreOwn`), and what earlier
harnesses started is over when a new one is open (`EarlierAreQuiet`). The last is what a harness
that aborts a Turn, or reports as interrupted a tool it did not begin, relies on, and it
is why `openPiEffects` comes before the engine. `CommitKeepsInv` treats a commit once for all
commands, acknowledged, lost on the way or lost on the way back; each command then only shows that
the documents it writes are sound (`Advances`) and what it keeps of its effect (`Keeps`). `MoveKeepsInv`
covers the steps of a harness beside the history, `RepairKeepsInv` the commits of a control plane.
The proof attempt found a fault of the model: a harness that crashed between the end of an
effect and its commit kept the mark of that effect for ever, so that no successor could open, and
what successors do then was not checked at all. `Gone` now drops it.

Only model-checked: all liveness (out of the prover's reach, as is `ENABLED`), `OutcomesStay` of
`session_input` (which holds only while no start is refused: section 7), `StartsAreUnfinished`, and everything about the
other modules. Nothing in the proved modules is recursive, so no induction over data is needed; the prover could not do one.

## 7. Disagreements between the code and what is said of it

Shown by violation runs and listed under `findings`:

1. `attachment_error`: any error of `attachExecution` stops the host, also one that another
   delivery attached (`dispatcher.ts:70`).
2. `session_cancelled_start`: cancelling a start that never reached the running harness is
   retried for ever (`executors.ts:341`).
3. `revoked_stays`: a rename, test or rotation writes back the row it read before a
   revocation (`connection-service.ts:211`).
4. `vault_revokes_live`: a refresher that outlives its lease revokes the secret its successor
   made the active one (`vault-service.ts:202`).

Stated in a module, with a counterexample in the instance named, and not a run:

- `StartedTurnsEnd` (`SessionDispatch`; one message, one job, `Hosted = TRUE`, `HostManaged =
  FALSE`, one fault, `FairSpec`): a Turn started in a running harness has no outcome if the
  host dies before the journal's next flush (`run-session-execution.ts:285`), although
  `docs/agents-api.md:284-285` sends the reader to its terminal outcome.
- `FinishedTurnNotStarted` (`SessionDispatch`; one message, one cancellation, two jobs, no fault): one
  job is about to submit or deliver a start when the other, which has read the cancellation, finds
  nothing to cancel and settles the Turn as cancelled; the first then starts it, although "A cancelled
  queued start never ran" (`session-planning.ts:14`). An `environment` job may be the second
  (`agents-outbox-planning.ts:36`). A Turn that was reported failed because its start was refused may be
  started by a retry as well, which the definition excepts.
- `TokensSentOnce` (`IntegrationConnections`): the credential is read before the refresh lease is
  taken and not again (`oauth.ts:273`, `docs/plugins.md:375-378`), so a spent refresh token
  can be sent.
- `GrantsAreSentOnce` (`Vaults`): a spent refresh token is sent again, against "never exchange it
  a second time" (`vault-service.ts:182`), in three instances: two refreshers, one of which
  stalls past its lease or ends between the exchange and the pending write; and two refreshers
  and an update, without stall or crash, that omits the refresh token and has read the secret
  that is being exchanged (`vault-service.ts:95`, `vault-planning.ts:80`): its transaction
  replaces the row, lease and all, by one that holds the spent token.
- `OneAtATime` (`NativeSession`; one fault): a native turn that notifies an error without
  `willRetry` is failed for the host from that moment (`session-runtime-planning.ts:126-130`) and
  not from its own end. The next Turn is then started beside it (`session-runtime.ts:258`), and a
  cancellation of it returns without an interruption (`session-runtime.ts:356`), while "before
  admitting another public Turn" (`session-runtime.ts:358`) the exact binding is to be observed.
  `OneNativeTurn` makes this one exception.
- `LostRunsHaveStopped` (`WorkerMachine`; one fault): a Run is failed before its machine is stopped
  (`reconciler.ts:79-82`), or when a MicroVM has no runner any more (`executors.ts:198`), although
  the runner of the first, or a Git command that outlived a runner killed there, is still in the
  workspace that the next Run is given, where `docs/conversations.md:31-32` has recovery confirm "the
  prior worker has stopped before giving a replacement ownership".
- `SkipSuppresses` (`Schedules`; two invokers, two instants, no change, no fault): `active()` asks
  for the Session, which is not found, then for its integration; if the Session is made, and
  its turn noted, in between, the answer is that it is not active, and the occurrence is accepted
  while the Session before is in progress (`schedule-service.ts:79-85`), which
  `docs/schedules.md:45-46` says "skip" suppresses.
- `SkipsForAReason` (`Schedules`): a Session deleted after it was created and before its
  integration noted the Turn leaves an input without `turnId`; `active()` then answers true
  for ever and every later instant is skipped (`schedule-service.ts:85`). `docs/schedules.md`
  says "skip" suppresses an occurrence while the previous Session is in progress or awaits
  creation.
- `FailsForAReason` (`ConnectionAdmin`): two `slack-events` commands for one workspace can both
  fail, where `docs/api.md:127-130` says the command creates or reuses the binding.
- `WatchdogResumes` (`SessionFork`): a fork that died leaves its lock on the Session; once the
  lock has expired input is admitted again, but the watchdog looks at the lock's presence and
  never retries (`watchdog-planning.ts:56`, `docs/watchdog.md:90` "nor locked for a fork").

Seen while modelling: a worker whose attachment is not repaired within 60 s records nothing
(`docs/runbook.md:110-111` against `runner/main.ts:441`: the write is fenced by a heartbeat
that the pending record does not have; `RunsSettle` holds all the same); a steer of a Turn
that ended is refused with 409, reported as unavailable and retried for as long as a
host-managed harness lives (`executors.ts:341`); a refused start overwrites the outcome of its Turn
(`OutcomeIsFinal` fails with one job, two messages and two faults: the answer of a delivery is
lost, the retry is refused because the Turn is not saved yet (`run-session-execution.ts:171`), the
Turn completes and is reported, and `session-service.ts:478` records "failed" over "completed"; with
two jobs sooner), and it is the only way to overwrite one (`OutcomesAreKept`, section 6); with two
jobs, two messages and a cancellation one job may claim for the second Turn
after the other has claimed for the first and before the first's Run is submitted, which admits two
harnesses until the older one publishes (`OneHarness` fails with `Jobs` of two, `Cancels` of one, no
faults; `run-session-execution.ts:139`, `:194`); the SQLite store keeps no tombstone of a deleted row, so a delayed creator can adopt
a preparation again that the outbox had abandoned (`SecretsAreAccounted` fails with
`Tombstones = FALSE`; `session-preparation-planning.ts:31`); disabling a webhook discards its
pending deliveries where `docs/agents-api.md:332` speaks of a pause; and the deletion of a vault
that meets another write of its credential ends in a 409 with the vault archived and the
credential's secrets live until somebody repeats it (`vault-service.ts:221`, `NoSecretLeaks`
excuses it).

## 8. What is not modelled

Inside the modelled components:

- *Runs*: retired Runs, the SIGTERM grace period, generations, timed staleness cutoffs;
  submission is the initial state; `RetireWorker` is EC2's. The harness of a worker is a
  choice of outcome.
- *Mailbox*: of two conflicting transactions one wins; one clock for all.
- *Delivery*: a store call takes effect at most once.
- *Sessions*: one event per request, root Turns only; what the snapshot holds beside Turns; an
  observation is atomic.
- *Native installation*: the contents of bundles; a setup of a damaged active release always fails.
- *Connections*: grants and health observations; one token family per credential.
- *Threads*: integrations older than subscriptions, repeated Turns, the hourly limit's
  counter (any candidate may be capped), conflicts between inputs with one id.
- *Workers*: contents of prompts, model settings, output and patches; timeouts are choices;
  the KVM and container hosts' own state beside machine, disk and volumes; images.
- *Pi*: the contents of a conversation, chunking of large commits, model calls.
- *Operators*: Terraform is assumed to record a resource with its creation; two commands of the
  quickstart at once.
- *Platform*: lists and pages, bodies, rendering of publications, DNS and addresses of
  webhooks, time zones and cron expressions, codex processes behind a sign-in.

Not modelled as components, with the reason in `components` of `PROJECT.json`: composition and
configuration, providers' payloads, traces and metrics, the desktop's views, the site,
infrastructure, images and build scripts. They are pure functions, generated or configuration:
they keep no state that two actors share.

## 9. Plan

1. The judgement and retry of the watchdog (`core/watchdog-service.ts`,
   `adapters/watchdog-collector.ts`), composed with `SessionEvents` and `SessionFork`.
2. The relay (`adapters/environment-relay.ts`, `relay.ts`) with a reconnecting environment.
3. `SessionDispatch` composed with `SessionPreparation`, so that a deletion races a creation
   and a dispatch in one instance; liveness of `Webhooks` and `Schedules`.
4. Abstract specifications: a workspace with one owner that `WorkspaceHandoff` implements, an
   append-only log that `PiHarness` implements.

Theorems planned: the coherent selections of `NativeInstallation`; `OneInputPerOccurrence` of
`ThreadIntegrations`; `VaultsAreSound` of `Vaults`; the secrets of `SessionPreparation`.
