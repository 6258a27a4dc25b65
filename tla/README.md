# A formal model of the devproof.ai control plane

devproof.ai runs AI agents on Kubernetes. A *session* is a conversation with an
agent; every *turn* of it runs in a fresh Job whose pod (the *runner*) restores a
checkpoint, talks to the model, and at the end uploads a new checkpoint and posts
its status. The *control plane* (Node, one replica, Postgres) keeps the rows,
launches the Jobs, and repairs what goes wrong. An *operator* (Go) deploys the
models that the gateway serves.

The hard part is that nothing here is synchronous: a request handler gives way at
every `await`, several handlers act on the same row without a transaction, a pod
outlives the interrupt that killed it, a post is repeated until it is answered, and
a restart forgets every handler at once. This directory holds the TLA+ modules,
the TLC runs and the TLAPS proofs about that.

## Running it

    tlc -workers 2 -config SessionTurns_races.cfg MCSessionTurns.tla
    tlc -workers 2 -config EventLog_stream.cfg MCEventLog.tla
    tlapm SessionTurnsProofs.tla
    tlapm GatewayRoutingProofs.tla

`PROJECT.json` lists every run with the module it checks, the source lines behind
every definition (`map`), the hazards (`hazards`), the theorems, and for every property
of a run a *mutant*: a plausible bug, written next to the definition it replaces and
marked `\* mutant`, with which TLC finds the property violated.

## The system

| Component | State | Operations | Interacts with | What makes it correct | Module |
|---|---|---|---|---|---|
| Session turns (`repo.ts`, `session-actions.ts`, `agents-api.ts`) | `sessions` row, checkpoint files | create, message, interrupt, status post, lock | gate, orchestrator, runner, reconciler | a turn runs at most once; a stale pod changes nothing; the checkpoint never goes back; nothing is in flight for ever | `SessionTurns`, `TurnLedger` |
| Launch gate (`launch-gate.ts`) | `pending_launches` | park, release, fail | routed hook, sweep, wake | a parked launch is released once, or failed | `SessionTurns`, `ScaleToZero` |
| Writer queue (`writer-queue.ts`) | `pending_launches` under `wq:<agent>` | gate, park, take next under an advisory lock, sweep | status and interrupt routes, wiki write-back | releases one at a time; nobody waits for ever | `WriterQueue` |
| Zombie reconciler (`reconciler.ts`) | none | list, judge, fail | orchestrator, event log | every dead session is failed | `SessionTurns` |
| Orchestrator (`orchestrator.ts`) | Jobs, claims, proxies, Secrets | start, stop, job state, orphan sweep | Kubernetes | one Job per turn; nothing left without a row | `SessionTurns`, `WorkspaceDeletion` |
| Runner (`runner.py`) | pod file system | restore, stage, run, salvage, post | control plane, gateway | salvage publishes and writes back what this turn did, and only that | `RunnerPod` |
| Agent loop (`devproof_runner`) | transcript, budgets | call, retry, compact, use tools, wrap up | gateway, runner | transcripts stay valid; the loop ends | `AgentLoop` |
| Event log and stream (`repo.ts`, `session-sse.ts`) | `session_events` | append with uid, list, notify, stream | console, client, parent | an event once, in order, seen by every viewer | `EventLog` |
| Delegation (`session-actions.ts`, `runner.py`) | child session | create or continue, poll, read, lock | session turns, reconciler | a call returns | `EventLog` |
| Operator (`operator/internal`) | annotations, replicas, cache claim, scaler window | reconcile, bounce the cache, tick | Kubernetes, control plane | sleep only when idle; no flapping; the cache is lost only for a move | `Operator`, `Scaling` |
| Scale to zero (`wake.ts`, `routing-state.ts`, `main.ts`, gateway callbacks) | `model_routing`, `wake_requests`, `warmedModels` | wake, project, route, warm, hold | operator, gate | a wake is never lost | `ScaleToZero` |
| Routings and keys (`custom_callbacks.py`, `routing-rules.ts`, `gateway-config.ts`) | routing rows, gateway config, five caches per replica | authenticate, evaluate, guard, sync | control plane, replicas | no way around a routing; staleness is bounded | `GatewayRouting` |
| Files and maintenance (`filestore.ts`, `maintenance.ts`, `repo.ts`) | file rows, objects, uploads | upload, write entries, delete, collect | runner, sessions | a row has its object; nothing else is kept for ever | `ObjectStore` |
| Catalog (`agents-api.ts`, `repo.ts`) | agents, versions, wikis, environments, proxies | save, claim, delete, refresh proxies | pool of connections | one writer per wiki; no wedge | `AgentCatalog` |
| Workspaces (`workspace-delete.ts`, `workspace-guard.ts`) | workspace status, every table | guard, drain, tombstone, resume | Kubernetes | one drain at a time, that ends and leaves nothing | `WorkspaceDeletion` |
| Cost accounting (`cost-sampler.ts`, `costs.ts`) | watermarks, ledger | tick, settle, accrue | reconciler, status route | time is billed once, and only if a pod ran | `CostAccrual` |

Tracing, metrics, usage charts and deployment files only report or configure and are not
modelled; the console, the Python client and the public API are modelled where they
follow a stream or upload in parts, and are thin layers otherwise.

**How the modules compose.** `Operator` extends `Scaling`, and `ScaleToZero` extends
`Operator`: its `OperatorReconcile` and `OperatorStep` are the operator's own actions,
joined to the control plane and the gateway. `RunnerPod` extends `AgentLoop` in the same
way: salvage and staging around the loop. `SessionTurns` implements `TurnLedger`. The
others meet in rows that each module lets change freely: what a launch gate decides is
free in `SessionTurns` and is the subject of `ScaleToZero`; that other sessions write to
a memory store is free in `RunnerPod`.

## Conventions

An action is the code of one coroutine from one `await` to the next: one query, one
call of the cluster, one post. Where an `await` returns something no decision uses, there
is no step of its own. A handler has a program counter and what it remembers over an
`await`. A failing query or call is an action of its own where the code catches it, and
otherwise ends the handler. A restart of the control plane forgets all handlers. Names,
texts, files and keys are model values or small numbers. History variables are marked
as such; no action's guard reads them.

## SessionTurns and TurnLedger

One session, from its inserted row. The variables are the row (`status`, `turns`,
`checkpoint`), its row in `pending_launches` (`parked`), the checkpoint `files`,
per turn its Kubernetes Job (`job`), its runner (`pod`) and the deliveries its status
posts still have ahead (`wire`), and the coroutines of the control plane
(`handler`). `doomed` holds the best-effort deletions that the status route starts
without waiting for them. `quiet` stands for the clock: it is TRUE when the last
event is older than the reconciler's grace window.

`startTurn` is `MessageRead` (SELECT and check) and `MessageBegin` (UPDATE, without a
condition on what was read); the interrupt route is `InterruptStop`, `InterruptUnpark`,
`InterruptIdle`, `InterruptRecord`; the reconciler is `SweepList`, `SweepJudge`,
`SweepRecord`, `SetFailed`; the status route is `ReportRead` (the checkpoint it will
replace) and `ReportApply` (the guarded UPDATE and the deletions it starts), or in one
step `ReportBare` and `ReportCrash` when the post has no checkpoint. The runner starts,
restores the checkpoint of its env, on a 404 asks for the current one once and tries
again, emits events, salvages, and posts; it may crash into its handler or end at any
time. A post, once sent, is delivered between zero and `Attempts` times, at any later
time, also after the pod is gone.

`TurnLedger` is what a session promises, without saying how: turns are numbered one by
one, each is launched at most once and after it was accepted, and only the latest turn
hands in a checkpoint. `SessionTurns` implements it with `launched` mapped to the turns
that have a Job (`ImplementsLedger`).

Abstractions: prompts, attachments, environments, costs and memory are left out, since no
decision here reads them; a checkpoint is named by its turn; what a gate decides and a
turn's result are free; `Quiet` does not happen between `startTurn` and the creation of
its Job, nor while a created pod has not started: these take seconds, the window is
minutes (a wait for a deployment is not exempt).

## WriterQueue

Several sessions of one agent that writes to a wiki. Nobody owns the agent's slot: it
is held when some session is in flight and not parked under `wq:<agent>` (`Holds`), and
gate and release read that anew from the rows. A request begins a turn (`Begin`),
resolves the mounts (`Resolve`), asks for the slot (`GateCheck`), and parks or launches.
A release locks and looks (`TakeCheck`), deletes the oldest row (`TakeNext`) or finds
none, resolves the mounts again (`Refresh`) and launches. Check and DELETE are two
statements under READ COMMITTED, so a gate, which takes no lock, may act between them.

Abstractions: a session accepts one message at a time and has one interrupt under way at
most (their races within one session are in `SessionTurns`); "resting" is idle or failed;
list and judgement of the reconciler are one step; the wiki is a version number. The
reconciler's grace window is longer than a request takes, but not than a wait in the
queue: a session just released may be judged before its Job is active.

## EventLog

The log of one session with its writers, and one `follower`: the console, a client of the
public API, or the parent session that delegated to it. `appendEvents` holds the
session's row lock from its first read to its commit, so an append is one step
(`AppendEvent`); the uid is the turn and kind of a runner's event. `Handle(p)` is one
delivery of a runner's post, whose answer reaches the pod that waits for it or nobody;
`copies` are the deliveries that may follow. The server's loop is `List`, `ReadStatus`,
`Wake`; the follower's connection is `Connect`, `Receive`, `Drop`, `Stall`, `Watchdog`;
the delegate tool is `DelegateAsk` to `FetchOutputs`, with the control plane's side in
`DelegateCheck`, `CreateChild`, `StartTurn` and `TurnRefused`.

Abstractions: a runner's batch of a turn is one event, `result`; frames are taken in
order; the fan-out caps, and an interrupt of the parent, are left out. Bounds: the
stream does not list again before its frames are taken, which keeps `wire` finite and
loses only states in which the same frames are there in more pieces.

## AgentLoop and RunnerPod

`AgentLoop` is `query()` with `client.create()` and `compact.py`: the transcript
`history` in memory, on `disk`, and `kept` in the checkpoint; `chars` the tracked
estimate of its size. A message is its kind and size; a prompt, note or summary is a
plain user message. `Respond` yields what a stream's finished blocks can be, `Use` and
`RunTools` append tool uses and results, `Summarise` and `Drop` compact. A model call
ends in a response, in an exception after `MaxAttempts` bounded attempts
(`RetryBounded`), or after the patient window (`RetryPatiently`, once `late`).
`EmitFails` is a post of events that fails for good where the query yields,
`ServerBreaksQuery` an MCP server that sends what nobody expects.

`RunnerPod` puts around it what the pod is launched with (`payload`), stages
(`StageMemory`, `StageFiles`), changes by tools, and writes back in `run_salvage`
(`SyncOutputs`, `SyncMemory`, `SaveCheckpoint`), while other sessions write to the same
store (`OtherSyncs`).

Abstractions: one pod at a time (an overlap with a superseded pod is the subject of
`SessionTurns`); wikis are staged and written back like memory and are not repeated; the
contents of skills, the `model_wait` marker and usage are left out; `history` is cleared
when its query is over.

## Scaling, Operator and ScaleToZero

`Scaling` is the arithmetic: `DesiredReplicas` of the transform and `NextWindow`, `IdleFor`
of `decide.go`. `Operator` is one deployment: `Reconcile` with the cache bounce in its
phases (`BounceDrain`, `BounceHold`, `BounceFinish`, and `BounceCrash`, `BounceCut` for an
operator that dies between two of its patches), the scaler's `Tick` (scrape and decide)
and `TickPatch`, pods that start, get ready and stop, pool edits and changes of the
replica counts. A partial scrape is any number of pods over `Quorum`, and any number of
the requests under way.

`ScaleToZero` adds the control plane and the gateway: a request reads the `row` and is
held, which leaves a wake request and a notification; `Sweep` and `Sync` project phase and
warmth into the row; a newly routed model is warmed, and warmth opens the hold and
releases what is parked.

Abstractions: `setModelRouting` and `clearWakeRequest` after a wake are one step; the
idle window outlasts a wake (`OperatorTick` does not end it while one is under way: the
window is minutes, and the code has no other protection); an operator's sync arrives
within its attempts (see "Disagreements" for one that does not).

## GatewayRouting

What one replica of the gateway does with a call: `Auth`, `Lookup`, `Targets`,
`RuleMissing`, `RuleEvaluate`, `Terminal`, `Guard`, `Meter`. Each reads through a cache
with a time to live (`keys`, `rules`, `targets`, `costs`, `states`), and each query
behind one may fail. Beside it stand the routes that change the tables
(`Administrate`), the sync that writes the configuration (`SyncGateway`, `Synced`), and
the rollout that loads it (`RollOut`). `away`, `revokedFor` and `overFor` are history:
how long a model is gone, a key revoked, a budget spent.

Abstractions: one routing name; a rule has a target and a set of conditions (cost,
availability, classifier, chance); `Budget` stands for any threshold; provider keys are
left out; a replica is rolled when its calls are done.

## ObjectStore

Rows of files and their objects. Every route writes the object before the row (`Put`,
`Row`) and deletes the row before the object (`PurgeRow`, `PurgeObject`), one statement
at a time. An upload, an output and a checkpoint have a key of their own; entries of a
memory store, a wiki or a skill have the key of their path, which successive rows share.
Requests are `UploadFile` to `SweepStaleUploads`; the maintenance run is `MaintSessions`
to `MaintDone`. `contested` and `garbage` are history. `Hour` passes only when no request
is under way: the grace hour is what the code has instead of a lock.

## AgentCatalog

Saves of agents and their versions, with the checks, the exclusive claim on the wikis a
version writes (`Connect`, `Lock`, `TimeOut`, `Release`), the pool of connections that
queries and claims share (`CanQuery`), deletes of what versions name, and the refresh of
the egress proxies (`ReadHosts`, `Ensure`). `mixed` is history: environments that two
overlapping requests were about.

## WorkspaceDeletion

The row's status, the guard with its cached copy, the drain (`DrainList`, `DrainFree`,
`DrainRow`, `Count`, `Tombstone`), writes that were let in before the flip became known
and callbacks that are exempt, resources in the cluster, and the sweep that frees what no
row claims. `late`, `sinceCount`, `raced` and `gaveUp` (the last pass still found rows)
are history. Left out: single credentials and
their keys in a vault's Secret. A vault is deleted by its public route, which asks for
the row first.

## CostAccrual

Ticks and settles with their observations (`Ask`), the chain that serializes their
accruals (`Runs`), the entries (`Drafts`, `Span`, `Quantize`), and sessions whose Jobs
start, finish, are interrupted and go on. Abstractions: Job creation and pod start are one
step; a Job that was collected by its TTL answers like a failed request (`AskFails`);
which kinds of entries the settings and prices call for is free in every accrual; of the
entries' order of insertion only what a failure in between tells apart is kept (`Before`);
the retention of entries is left out.

## Runs

| Run | Instance | States | Shows |
|---|---|---|---|
| `races` | turns 0 and 1, 2 deliveries, 2 handlers, interrupts, lockable | 4.0 M | every handler of a session against every other: launched once, checkpoints forward and never lost, `TurnLedger` implemented |
| `settles` | 2 follow-up turns after one at rest, 2 handlers, 1 restart, fair | 0.7 M | an in-flight session comes to rest or waits for a deployment |
| `writers` | 2 sessions, 1 turn, interrupts, 1 restart, fair | 0.1 M | releases never overlap; who waits is served |
| `scaling` | 2 requests, 2 placements, 2 kinds of deployment | 1.5 M | sleep only when idle, scale-down to the peak, cache lost only for a move |
| `wakes` | 1 request or launch, a sleeping or a moving deployment, 1 fault, fair | 0.4 M | a request is served, a parked launch released |
| `calls` | 2 calls (one external), 2 models, 2 routings, 1 failure, 1 edit | 2 M | what a verdict says was true, within the stated staleness |
| `files` | 3 files, 1 entry path, a skill of 2 files, 2 requests at once, 3 in all | 2.5 M | rows have their object, garbage goes, parts are found |
| `drain` | 1 write, 2 requests, 2 drains, 1 restart, fair | 0.45 M | one drain, an end, nothing left behind |
| `saves` | 2 clients, 2 agents, 1 wiki, 2 environments, pool of 2, 4 requests, fair | 0.9 M | one writer per wiki, requests end, proxies follow |
| `stream` | 2 turns, 2 deliveries of a result, 1 interrupt, 1 lost connection, fair | 1.2 M | each event once and in order, the view catches up, a delegation returns |
| `turns` | 2 turns of 1 call, 2 attempts, 1 path, 1 foreign write, fair | 0.3 M | valid transcripts, untouched memory kept, outputs published once, the pod ends |
| `billing` | 1 session of 2 turns or 1 deployment, 2 accruals at once, 4 half minutes | 5.9 M | nothing billed twice; a tick bills only runtime |

Why the bounds are enough: the hazards are pairwise - one handler reads, another writes,
the first acts - so two handlers, requests, accruals or clients at once, on a current and
a previous turn, with free ones reused, have all of these. One restart, failure or lost
connection may fall at any step. `Handler`, `Worker` (billing) and `Worker` (files)
are symmetric; no run with a temporal property uses symmetry. `settles`
starts from a session at rest (`Resting`), so that two follow-ups are within reach. In `billing` the initial states are cut to a
running session or a served deployment. Deadlock is checked in `races` and `writers`; in
the others a bound (requests, turns, time) may be used up, where nothing is left to do.

Fairness, per module:

- A started coroutine, drain, request or loop goes on: its awaits are database and
  Kubernetes calls that return or throw. A restart is not fair, nothing is asked of
  users, deployments or of the network unless said here.
- The reconciler, the sweeps and the writer queue's sweep run every minute
  (`startReconciler`, `sweepWriterQueues`); maintenance runs daily, at some hour in which no
  request is under way, hence SF on `Hour` and `SweepIds`.
- A pod ends at the latest at `activeDeadlineSeconds`; the patient window of a model call
  passes; an HTTP timeout ends a post that is not answered (`ParentNext`).
- `Sync` is SF: the coroutines of the projection share one slot of the model, and the
  operator's post is answered when its turn comes.
- `ClaimsFinish`: the event loop returns to every handler, the pool serves its queue in
  order, and Postgres cancels a lock wait at `lock_timeout`.
- The drain is WF because the process that runs it, or the boot sweep of the next one,
  goes on with it.

## Disagreements

Where the code does something else than a comment or a user would expect. None of these
is a run: each can be followed through the actions named, or was seen while reading.

Sessions and turns:

- `dangling`: turn 0's post is applied and its answer lost; the user sends a follow-up;
  the repeated post is now stale, so the route deletes "its" checkpoint, which is the
  current one (`agents-api.ts:1062`, "its salvage checkpoint is referenced nowhere";
  `ReportApply`). The follow-up fails, and so does every later one.
- An interrupt un-parks before the gate has parked: an idle session stays parked
  (`InterruptUnpark`, `agents-api.ts:999`).
- The reconciler fails a session whose launch was released after a long wait, since its
  last event is old and its Job not active yet (`SweepJudge`, `reconciler.ts:46`).
- Two messages both pass `startTurn`'s check, since its UPDATE does not repeat it
  (`MessageRead`, `MessageBegin`), and both turns run in one session.
- A completed child is moved on by whatever had read it before, by an interrupt or by a
  late post, although `delegateCompleteAction` calls it terminal (`session-actions.ts:340`).
- The previous turn's pod, or the interrupt's own event, turns a parked session to
  running (`PodEmit`, `InterruptRecord`), although `appendEvents` says that it must stay
  queued.
- The writer gate takes no lock: a release has seen the slot free, a new session passes the
  gate, the release takes a waiter, and both run. The wiki mounts of a launch through the
  gate are those resolved before it (`Resolve`, `GateCheck`).
- A request interrupted between its turn and its parking may park when its session
  already runs the next turn; then even `ReleasesNeverOverlap` fails. The run therefore
  has one turn per session, the theorem a hypothesis.
- On the public path a `failed` session's `end` may precede events still to come; the
  Python client takes a cleanly closed stream for the end and has no watchdog.
- A delegation whose create answer is lost leaves a child whose id nobody has (the code
  says so, `runner.py:634`).

Runner and agent loop:

- `[note, prompt, prompt]`, too long, is what "drop oldest until the history fits"
  (`query.py:228`) gives back unchanged: the loop never ends (`Stuck`, excepted in
  `PodEnds`). The degraded drop can also drop the current prompt.
- A wrap-up query that fails still ends `idle` without an answer ("Guaranteed final
  answer", `runner.py:949`).
- A malformed MCP body kills the turn (`ServerBreaksQuery`) against "one broken upstream
  must not fail the whole session turn"; a salvage step whose own error event cannot be
  posted ends salvage against "one failing sync must not starve the others".
- A memory entry that another session replaced between launch and staging is purged
  already: staging 404s and the turn fails at boot (`StageFails`).

Gateway and operator:

- A sync that is lost (`gatewaysync.go:41`, no retry once the request was sent) leaves a
  deployment unrouted until the next; the model assumes that it arrives.
- The scaler's patch may un-sleep a draining deployment (`scaler.go:119`); a wake that
  fails inside the sweep loses its request until the client asks again (`WakeFail`,
  `Deadline`).
- The config map is patched before the annotation that rolls the replicas; if the second
  fails, the next sync sees nothing to change (`kubestore.ts:87`). Overlapping syncs may
  write a stale configuration last.
- A routing may bear a deployment's name. While that deployment is redeployed (there, but
  neither Ready nor Idle) the configuration has only the blackhole under the name, and
  calls reach it (`gateway-config.ts:85`, "unreachable except on a hook bug"): TLC shows it
  for `UnavailableIsTrue` when `Name` is one of `Local`. The run has no such name, and the
  theorem assumes none.
- Budget of a pool and creation of a deployment are check-then-create (`server.ts:307`);
  a provider key may be orphaned or left out of a concurrent sync (`server.ts:572`).

Catalog, files, workspaces, costs:

- The status route may overwrite `deleting`, or `deleted` (`agents-api.ts:177`,
  `SetStatus`); the properties of `drain` except it (`raced`). A drain that a late skill
  blocks waits for the next boot.
- Entries of one path share a key: an upload that overlaps a delete of the path's last row
  loses its object (`repo.ts:650`; `contested` in `RowsHaveContent`).
- A crash between the multipart upload and its row leaks an empty upload; a repeated
  completion on the local store differs from S3; retention lists files before a session
  attaches one.
- An agent's row without a version keeps its name (`InsertAgent`); a delete that overlaps a
  save leaves a version that names what is gone; overlapping refreshes leave a proxy
  stale, and an agent's delete leaves its hosts (`mixed` and the last line of
  `ProxyFollowsVersions`).
- Two concurrent saves of credentials with colliding names both pass (`agents-api.ts:535`).
- A deployment that slept is billed up to the cap when it wakes (`costs.ts:169`); a
  repeated status post settles again (`agents-api.ts:1073`), into minutes not yet run.

## Proofs

A component's proofs are in the module `...Proofs` that extends it. Each proves an
inductive invariant once (`Invariant`, from the initial states and one lemma for every
step that disturbs it) and derives the theorems below from it; they hold for all values
of the constants that satisfy the module's named assumption, where the runs take small
ones. Where the invariants are about a few variables only, a first lemma sorts the steps by
what they do to these (`StepKinds`, `StepOutside`), and the others need not look at the
actions again.

| Module | Theorem | States | Assumes |
|---|---|---|---|
| `SessionTurnsProofs` | `TypeCorrect`, `LaunchedOnce`, `ReplacedNeverCurrent`, `CheckpointForward`, `NothingLeaks`, `LedgerImplemented` | `TypeOK`, `LaunchOnce`, `ReplacedIsNotCurrent`, `CheckpointMovesForward`, `NoCheckpointLeaks`, `ImplementsLedger` | - |
| `WriterQueueProofs` | `OneRelease`, `OneThroughTheGate`, `OneTurn` | `ReleasesNeverOverlap`, `GateLetsOneIn` | `[]RowsAreCurrent`, or one turn per session |
| `EventLogProofs` | `ResultsLoggedOnce`, `FollowersSeeInOrder` | `LoggedOnce`, `SeenInOrder` | - |
| `RunnerPodProofs` | `SavedIsResumable`, `RequestsAccepted`, `OutputsPublishedOnce`, `SalvageWritesTouched` | `SavedIsValid`, `RequestsAreValid`, `PublishedOnce`, `UntouchedIsKept` | - |
| `OperatorProofs` | `SleepsOnlyIdle`, `ScalesDownToPeak`, `CacheOutlivesAll` | `SleepOnlyIdle`, `ScaleDownLandsOnPeak`, `CacheLostOnlyByMove` | - |
| `GatewayRoutingProofs` | `RevocationIsTimely`, `BudgetsStayHard`, `ExternalsAreRouted`, `RolloutsAreRetryable`, `UnavailableOnlyAway` | `RevokedIsRefused`, `BudgetHolds`, `ExternalIsRouted`, `RolloutIsRetryable`, `UnavailableIsTrue` | the last one: `Name \notin Local` |
| `WorkspaceDeletionProofs` | `DrainsAreAlone`, `TombstoneLeavesLateRows`, `DrainFailsOnlyLate` | `OneDrain`, `LeftRowsAreLate`, `FailsOnlyByLateRow` | - |
| `CostAccrualProofs` | `NoTimeBilledTwice`, `TicksBillRuntime` | `SpansNeverOverlap`, `TickBillsRuntime` | - |

**Session turns.** `LaunchOnce` needs that whoever may launch a turn may launch one that
was accepted (`RightsAccepted`): otherwise `MessageBegin` could create a right that
somebody already has. That a replaced checkpoint is not current needs more: a handler's
remembered checkpoint is not newer than the current one (`ReportsCarry`), the current one
is not newer than the latest turn, everything scheduled as replaced is strictly older
(`CheckpointIsNewest`), and the checkpoint of a pod is that of its own turn, which was
launched (`PodsAreLaunched`). Of the forty-odd actions only eight touch this; `StepKinds`
shows once that every other step is `Routine`. `NothingLeaks` adds that a post which will
be applied remembers exactly the current checkpoint or its own (`ReportsReadCurrent`).
`LedgerImplemented` maps `MessageBegin` to Accept, the two launches to Launch, an applied
post to Commit, and all else to a stutter.

**Writer queue.** A release looks and deletes in two statements, and in between a gate
may let another session in: what the advisory lock does keep is that nobody has got the
slot *through the queue* since the release looked (`LockInv`). With it and with the
launches that begin and park with their turns (`IInv`), neither the queue nor the gate
gives the slot twice. This fails when a row belongs to a turn that its session has left
behind (see "Disagreements"), which is the hypothesis `RowsAreCurrent`: a statement about
the behaviour, not the constants. TLC finds it violated with two turns, and behaviours
that keep it have every release, gate, sweep and restart in them; a run of two turns
under it as a constraint agreed before the proof. With one turn per session it follows
from `IInv`, so `OneTurn`, the instance of the run for any number of sessions, has no
hypothesis left.

**Event log.** `FollowInv`: the frames under way continue what was seen up to what the
stream has listed, without a hole (`WireContinues`); the stream lists no more than is
logged, and a closed connection has nothing under way (`StreamKeepsUp`). A reconnect from
the last seen event re-establishes both, which is what the mutant breaks.

**Runner pod.** `QueryHolds`: while the query runs, the transcript is valid but for tool
uses that wait for results; what is written to the disk is written where it is valid
(`SavedIsValid`). The lemmas say that each way to extend a transcript (`AppendAnswer`,
`AppendPair`) and to shorten one (`CutIsValid`, `DropKeepsValid`, `TextIsValid`) keeps it
so. `OutputsOfTurn` says that the output
directory holds this turn's files only, `TouchedInv` that what differs from the baseline
was touched.

**Operator.** The window of the scaler is a counter and a peak; `WindowIsRecent` ties them
to the last lower ticks themselves, a history of the last `DownTicks` decisions.
`BouncedByMove` follows a pool edit by its number: a bounce that is under way, in whatever
step a crash left it, began after an edit that the cache and every engine that may still
start date from before.

**Gateway.** Each cache has an entry of this shape in `CachesInv`: how long the cached
answer has been wrong plus how long the entry still lives is at most its time to live. So
a clock tick moves time from one side to the other, a refill starts with zero on the left,
and a call that reads the entry knows the bound (`CallOk`), which its verdict carries to
the end. `HolesInv` follows the blackhole through the configuration and its rollout.

**Workspaces.** `SkillsDrained` and `CountedEmpty` say what each step of the drain has
established, up to rows that came in since, unless a status was written over the deletion
(`raced`) or the last pass still found rows (`gaveUp`).

**Costs.** `Sound` says of an accrual that no entry it is about to write begins before
the ledger of its subject and kind ends, and that what a tick saw of a session ran until
then. The first is true when the watermarks are read, and stays true because nobody but
the head of the chain writes (`ChainInv`, `OthersWait`); the second because pods start,
end and are taken away, but never lose time that they ran (`RanStays`), and because the
later of watermark and anchor is not before the anchor (`Spans`).

**Only model-checked.** Liveness under fairness is out of the prover's reach:
`InFlightSettles`, `WaitersAreServed`, `RequestIsServed`, `ParkedIsReleased`,
`ViewCatchesUp`, `DelegationReturns`, `DeletionEnds`, `OrphansAreSwept`, `ClaimsFinish`,
`PodEnds`. Not proved so far are `RowsHaveContent`, `GcReclaims` and `PartsAreFound`
(`ObjectStore`), and `SingleWriter` and `ProxyFollowsVersions` (`AgentCatalog`).

## Not modelled

Tracing, metrics, usage charts, deployment files. Failures of single statements inside a
handler that then goes on, except where a module has an action for them; deletion of a
session while its handlers run, except for its files; parsing and validation of
configurations; pod templates; the prices of costs; the order in which several sessions
parked on one model are released; the fan-out caps of delegation.
