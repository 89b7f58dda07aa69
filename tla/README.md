# Verification of Tianshu (Rivet)

Tianshu is a coding agent: a terminal program (`rivet`) and a daemon, the
*sidecar*, that a desktop application talks to. This directory holds TLA+
modules of its concurrent and persistent parts, TLC configurations that check
them on small instances, and TLAPS proofs of the results that matter most for
every instance. Paths below are relative to the repository's `src/`.

## 1. Inventory

| Part | State it keeps | Operations | Talks to | What is hard |
|---|---|---|---|---|
| Task registry (`server/task-registry.ts`, `task-store.ts`) | task records on disk; maps of abort controllers, timeout timers, retry timers | create (deduplicated by key), cancel, transition, timeout, retry, recover, dispose | runtime pool, cron scheduler, task routes | three parties end a task (answer, timer, user); retries; records outlive the process |
| Runtime pool (`server/session-runtime-pool.ts`) | none of its own | acquire, execute | session manager | an aborted execution is told by an abort signal only |
| Cron scheduler (`server/cron-scheduler.ts`, `schedule-routes.ts`) | schedule table, `scheduled_tasks.json` | add, remove, pause, run-now, tick, persist | task registry | fire-then-persist; several sidecars on one file |
| Cron lock (`server/cron-lock.ts`, `cron-wiring.ts`) | `scheduled_tasks.lock`, `.reclaim` | acquire, recover, health check, release | the file system | read-then-unlink by several processes |
| Session manager (`server/session-manager.ts`) | sessions, their run, queue of steers, pending approvals, event list, status | create, run, steer, abort, approve, archive, delete, restore, watchdog continue | agent loop, persistence, SSE subscribers | a run's promises interleave with user requests |
| Session persistence (`server/session-persistence.ts`) | `index.json`, `events.jsonl`, write buffer | append, flush, load, remove | session manager | buffered writes against crash and reload |
| Agent loop (`agent/loop.ts`, `turn-orchestrator.ts`, `turn-step-producer.ts`) | messages, turn counters, abort controller | run, turn, stream, stop decision | API client, tool pipeline, compaction | abort at every await; steers and retries between turns |
| Tool pipeline (`agent/tool-pipeline.ts`, `tool-execution.ts`) | batch under execution, results | gate, approve, execute, collect | tools, approvals, hooks | partial failure of a batch, order of results |
| Compaction (`agent/compaction-controller.ts`, `compact/`) | thresholds, failure counters, epochs | decide, compact, fall back | loop, API client | hysteresis, repeated failure |
| Coordinator (`agent/coordinator.ts`, `work-queue.ts`, `work-order.ts`) | work orders, queue, worker sessions | submit, dispatch, settle, cancel, resume | worker sessions, merge queue, registry | dependency order, retries, timeouts |
| Circuit breaker (`agent/worker-circuit-breaker.ts`) | failures per profile | record, canDelegate | coordinator | half-open probing |
| Merge queue and locks (`agent/merge-queue.ts`, `merge-protocol.ts`, `repo-lock.ts`, `semantic-lock.ts`) | queue, lock files | enqueue, process, acquire, release | git | mutual exclusion between processes |
| Session registry (`agent/session-registry.ts`, `ownership-ledger.ts`) | SQLite rows: sessions, claims, heartbeats | register, claim, heartbeat, sweep | several processes | check-then-insert |
| Goal and plan tracking (`agent/goal-tracker.ts`, `plan-mode.ts`, `plan/`) | goal, budget, plan state | set, evaluate, continue, close | loop | budgets, approval of plans |
| API clients (`api/`) | retry counters, health | stream, retry, fall back | providers | retry after partial output |
| Prompt engine and cache (`prompt/`, `cache/`) | cached prefix | build, invalidate | loop | (text) |
| Context, claims, memory (`context/`, `memory/`, `constellation/`) | append-only stores | append, rank, promote | prompt engine | (scores) |
| Tools (`tools/`) | background jobs, grants | execute | operating system | process life cycle of jobs |
| MCP, LSP (`mcp/`, `lsp/`) | connections, pending requests | connect, call, restart | external servers | reconnection, late answers |
| CPU pool (`workers/`) | workers, queue | run | worker threads | worker crash, timeout |
| Heuristics (`agent/advisory-bus.ts`, `convergence-detector.ts`, `sensorium.ts`, hooks) | floating-point scores | observe, advise | prompt engine | none that is safety |
| Terminal interface (`tui/`) | view state | render, keys | loop | (presentation) |
| Search, repository index (`search/`, `repo/`) | SQLite indexes | index, query | tools | (parsing) |
| Skills, plugins, artifacts, workflows | files | load, show | tools | none |
| Configuration, authentication, start-up | settings | load, validate | everything | none |

`PROJECT.json` lists the same parts with their status, and every hazard at its
line.

### What makes each part correct

* Task registry: a task has one execution; what ends it first wins and stays;
  nothing runs on under a terminal record; a retry chain neither forks nor
  exceeds its policy; no record says "running" for ever.
* Cron: an accepted schedule is kept, its slots fire once, the unattended mode
  is only used when it was earned, one sidecar schedules, and a split heals.
* Session manager: one run at a time per session, each with one verdict; a
  stopped run's leftovers never reach the next one; approvals are answered once;
  the watchdog continues a stalled run only while the user leaves it alone.
* Event log: sequence numbers of a session are never reused, and a subscriber
  that reconnects with the last number it saw misses nothing that memory still
  holds (older events are evicted, older hook results trimmed).
* Coordinator, queue, breaker, locks: dependency order, at most one holder, no
  lost order, bounded probing.
* Agent loop and tool pipeline: a request is always one the provider accepts; an
  abort frees the session; git is asked for a checkpoint before the first write;
  what the user typed is neither lost nor given to another run.

## 2. How the models are cut

Node runs one callback at a time, and runs every promise continuation that
callback enqueues before it serves the next timer, request or I/O event. So a
step of a module is one such *run to completion*, unless something else can see
the state in the middle. Three things can: another process on the same files
(then every file-system call is a step), a crash (then the effects on disk are
steps of their own), and an `await` that really waits for the outside world
(then what comes before it and after it are two steps, and everything else may
come in between). `JsonTaskStore` and `SessionRuntimePool.acquire` return promises
but never wait; their awaits are no boundaries.

Data is reduced to what a property tells apart: prompts, results, error texts
and timestamps that are only displayed are left out; identifiers are model
values. Definitions keep the names of the source; mutants carry the name of the
definition they replace and the bug they stand for (`canTransition_Unranked`).

## 3. Task registry

`TaskRegistry.tla` is `server/task-registry.ts` over `task-store.ts` and a pool.
`status` and `info` are the record on disk; `controller`, `timerOf` and
`retries` are the maps `abortControllers`, `timeoutTimers` and `retryTimers`;
an *execution* is one call of `scheduleExecution`, with its `phase`, the task it
works `of`, and whether its signal is `aborted` and its timer still `armed` in
the event loop. The maps remember one execution per task, the event loop all of
them, and that difference is what the model is about.

| Action | Code |
|---|---|
| `createTaskNew`, `createTaskExisting` | `createTask` without and with a hit of `findActiveByIdempotencyKey` |
| `Start`, `Acquired`, `Resolve`, `Throw` | `scheduleExecution` up to `acquire`, its answer, and the two outcomes of `execute` |
| `Timeout` | the `setTimeout` callback |
| `cancel` | `cancel` |
| `RetryFire` | the timer of `maybeScheduleRetry` |
| `dispose`, `Crash`, `Restart`, `recoverStaleTask`, `Recovered` | shutdown, loss of memory, `recoverStaleTasks` |

`transition` is the whole of `transition()`: the reducer `canTransition`, the
cleanup of timers and the retry. `lost` is a history variable: the tasks whose
retry timer went with a `dispose` or a crash, which the code records nowhere.
A task may have no timeout (`timeoutMs` 0, `Timed`); it then sets no timer.

Runs:

* `task_life`: two tasks, three executions, forced and deduplicated calls, a
  pool that may wait, one crash. An execution that was aborted leaves its task
  timed out or cancelled for good (`AbortedIsDecided`); no record is left running
  without an execution (`RunningIsExecuting`); the execution of a task that no
  deduplicated call joined has been told to stop once the record is terminal
  (`TerminalIsStopping`); a failed attempt with attempts left, recovered records
  included, has its next one waiting or created, never two, and a chain keeps to
  its policy (`OneRetryFollows`): the one exception is a retry that waited when
  the process stopped, which is lost; a running task with a timeout ends although
  the runtime may never answer (`RunningEnds`); the registry implements
  `TaskLifecycle`.
* `task_cancel_dedup` (violation): a deduplicated call runs the record it found
  a second time; the first execution can then no longer be aborted by `cancel`.

Seen while modelling, without a run: a cancel during the backoff of a retry does
not stop the retry, although task-registry.ts:216 says "only genuine failures (not
user cancels) re-run". `OneRetryFollows` counts the attempts that follow a failed
one; it does not ask whether the task was cancelled meanwhile.

Bounds: three executions are enough for a duplicate next to an original and a
retry next to both; a policy of 2 has a first attempt that is retried and a
second that exhausts it (as an attempt without a policy does at once); one crash, since a second one meets the same states. Fairness:
started callbacks run on, set timers fire, a dead process is restarted, a
closing one exits. Nothing is assumed of the runtime.

`TaskLifecycle.tla` is what a client of the task API may rely on: a record is
pending, then running, then terminal, and a terminal status is only ever
replaced by a stronger one.

Proved (`TaskRegistryProofs.tla`), for all sets of tasks, executions, keys and
policies: `TypeCorrect`; `AbortedDecided` from `TypeOK` and the property itself;
`NoZombieRecord`, strengthened with "while recovering, no execution is alive";
`CancelReachesExecution`
for tasks scheduled once, from the invariant that the map of controllers names
the execution until its task ends (the violation run shows what happens to the
others); `LifecycleRefined`, step by step; and `RetriedOnceAtMost`. That one
needs what a retry timer stands for (`ChainInv`): it belongs to a terminal record
with attempts left, a record scheduled once has at most one, the timeout timer
of such a task is the one the registry can clear, a retry follows an attempt
that has ended and used up its timer, and a chain has each attempt once. It
assumes that the key a retry is created under is no key a client chooses
(`RetryKeyAssumption`): the code builds it from the id of the failed task. Only the
liveness property, `RunningEnds`, is left to TLC.

## 4. Cron scheduler and cron lock

`CronScheduler.tla` is the schedule table of `server/cron-scheduler.ts` in every
sidecar of one desktop directory: `table` per process, one `file`. A tick takes
the table to its new form, fires task by task, and persists at its end; these
are the steps `tick`, `fireTask` and `Finish`, between which only a crash comes
(`busy`). `runNow` and `add` persist first and fire afterwards. The variables
`added`, `removed`, `manual` and `fires` are history, read by properties only.

Runs: `cron_fires`, one process that may crash once: a slot fires once, and once
more per crash at most (`SlotFiresOncePerCrash`); unattended firings under
`first-runs` come after the attended ones (`TrustIsEarned`, again up to the one
manual run a crash may have counted without firing it); an accepted recurring
schedule stays in the file (`AcceptedIsKept`); a stored oneshot is fired in the
end (`DueIsFired`). `cron_shared` (violation): an idle sidecar, whose table was
never loaded, overwrites the owner's file when it accepts a schedule. Bounds: the
clock runs to 2, which gives an interval of 1 two slots, a cron of 2 one and a
oneshot a past and a future; two ids, one manual run each, one crash, a
threshold of 1. Fairness: time passes, timers fire, a stopped process is
started again.

`CronLock.tla` is `server/cron-lock.ts` with one step per file-system call of
each process (`pc`), because sidecars are separate processes. `lock` and
`reclaim` are the two files; `owners` the processes whose `isOwner()` is true.

Runs: `lock_elect`: until a process dies or closes (and unless a dead process
left the reclaim file), which the history variable `calm` records, contenders
for a free, dead or damaged lock elect exactly one (`OneWinner`, `SomeWinner`) and
delete no live lock (`LiveLockKept`); whatever happens, a split heals through the
health check (`SplitHeals`). Once not `calm`, a split
does happen: two contenders that both read a dead reclaim file both enter the
recovery, and own the lock together until a health check. A like gap:
`recoverLock` takes a missing lock file for a damaged one, so when an owner
releases between a contender's failed create and its read, the contender may
unlink the lock of a third process. Three processes are enough for a loser to
meet two contenders.

Proved (`CronLockProofs.tla`), for any set of processes: `TypeCorrect`,
`ElectionIsSafe` and `LiveLockSafe`. The inductive invariant says that, while
`calm`, the reclaim file names the one process inside the recovery, the lock
that process is about to unlink is still dead or damaged, an owner is the
content of the lock file, and the file is missing only before the first create
and while a recovery replaces it. `calm` is needed because of the split described above.
`ElectionElects` (`SomeWinner`) adds why nobody gives up for nothing (`Decided`): a
process gives way to a live lock or to a recovery under way, and as long as the
lock is a dead process's it is the one every contender saw, so that the one
which recovers finds it takeable.

Proved (`CronSchedulerProofs.tla`), for any schedules, ids, bounds and number of
crashes: `TypeCorrect` for any number of processes, and `SlotsFireOnce`,
`TrustEarned` and `SchedulesAreKept` under `OneProcess`. That hypothesis is what the
lock is for; the `cron_shared` run shows that the third fails without it, and
the other two speak of one table. The invariant `OneInv` says that outside a tick
the file is the table (`ProcInv`), that an entry is the schedule that was accepted
and counts no more firings than were made, lost or are still to come
(`EntryInv`), what is known of a firing resolved and not yet made (`PendingInv`), and
that an entry which does not remember the last firing is covered by a crash
that no repetition has used up (`SyncInv`). This is the hard part: `fireTask` runs
between the tick that resolved it and the persist, so each fact has to hold of
the table, of the file and of what is to fire, at once. Assumed of the data: the
policies are the three of the code, and "no entry" is no entry
(`ScheduleAssumption`, `AbsentAssumption`). `DueIsFired` and `SplitHeals` stay with TLC.

## 5. The event log of a session

`SessionEventLog` models one session's log in its three places and the stream
handlers that follow it. `log` holds the fields of `InternalSession`
(`events`, `seq`, `loaded`), `events.jsonl` (`disk`) and the write buffer of
`FileSessionPersistence`; `index` is `index.json`; `viewer` the state of
`GET /sessions/:id/stream` between its awaits; `load` the promise that several
viewers share. An event is its `seq`, its place `n` among all events ever made,
and its kind; the kinds are those that decide about flushing
(`CRITICAL_TYPES`), those that open and close a run in the timeline, and the
results of the user's hooks (`hook`), of which memory keeps the last `MaxHooks`
while the file keeps all (`trimHookResults`).

Operators on the log (`Put`, `Ensured`, `Adopt`, `Touched`, ...) are the
functions of the source, composed as the source calls them; the actions are the
handlers. `setDomain` stands for every handler that appends without
`ensureEvents` (domain, model, skills, plan mode, job events), `emit` for the
callbacks of a run, `emitHookResult` for a hook's report and the trim behind it, `Run`, `abort`, `settle` and `close` for what their names
say. The other sessions appear only through the cap on loaded logs: they evict
this log when it is idle (`evictLoadedBeyondCap`), or fill the cap so that it is
evicted by the very call that loaded it (`crowded`).

| Run | Shows |
|---|---|
| `log_follow` | memory is an ordered part of the log, has all a replay promises, and new seqs are ahead of all old ones (`LoadedIsTail`), a viewer gets everything promised after the seq it asked from, once and in order (`ViewerComplete`), a crash loses trailing chatter and hook results only (`CrashLosesChatter`), a finished or interrupted run is closed in the timeline (`RunIsClosed`), and every opened stream becomes live (`OpenIsServed`) |
| `log_seq` | finding: after a crash in a run the markers reuse seqs that are on disk |

Memory is not the end of the log: a trim leaves gaps where old hook results were
(`hook-result-events.test.ts` asserts it), and a stream that asks from an old seq
jumps over them. What a replay does promise is `Recent`: an event with fewer than
`MaxEvents` events behind it in the sorted log and, if it is a hook's result, fewer
than `MaxHooks` hook results behind it. `LoadedIsTail` says that memory has all of
these and nothing that is not on disk or in the write buffer; `ViewerComplete` that a
stream has got them.

`LoadedIsTail` and `ViewerComplete` have history variables in their premises.
`stale` is set when an asynchronous load adopts a log that lacks an event
appended meanwhile, `whole` is cleared when a viewer read such memory, or
memory that had been evicted by its own opening: these are the only two ways to
miss an event, and both happen. `RunIsClosed` excludes a
crash between the two synchronous writes of `run()` (`torn`).

Bounds: one viewer, which is enough because handlers share only the load and the
log; five events, so that a run (two), a crash and its markers (two) fit with
one more event; a ring and a write buffer of three, so that both overflow; one
hook result kept, so that the second is trimmed; one crash. Fairness: the event loop serves a finished file read and the
continuations of a handler; nothing is assumed of users, timers or runs.

Proved (`SessionEventLogProofs.tla`), for any viewers, ring, write buffer and
bounds: `TypeCorrect`, `MemoryIsTail`, `StreamsAreComplete`, `RunsAreClosed` and the
action property `CrashesLoseChatter`. They rest on one invariant, `LogInv`, which
TLC checked on the run's instance first:

* `Sound`, of the log by itself: `n` counts the events in the order they were
  made, the buffer holds chatter and hook results of this process, and a loaded memory
  is `InMemory` (ordered, below `seq` and, unless `stale`, a part of the log that
  covers what is `Owed`).
* `Parsed`, of a load: the text the parser works on is the start of the log, and
  what came after it was made by this process.
* `Served`, of each handler: what it got is ordered and below the log's `seq`; what
  it deferred climbs above `upTo`; and while it is `whole`, everything it is owed
  up to `upTo` was sent (`Replayed`), or everything was sent or deferred (`Followed`).
* `DownInv` and `RunInv`, of the process: a dead one has no memory, no handlers and
  an empty buffer; the index says "running" exactly when a run is under way, and
  when it does not, the timeline is closed.

`Replayed` is why an event's `n` and the sorting matter: after a crash seqs repeat
below `upTo`, and the argument needs that above `upTo` there are only events this
process made, whose seqs climb. The operations are related by `Grown(l, m)`: `m` has
the events of `l` and new ones with higher seqs behind them, and what `m` owes a
replay, `l` owed it or the operation appended. The lemmas below it say what the
operators compute for lists of any length: `BySeq` is the stable sort (`SortIs`),
`Select` the filter (`SelectIs`); the ring (`RingOwes`) and the trim (`TrimSound`)
drop nothing that is owed, because an event with k places behind it in an ordered
list has k events behind it in the log (`PlacesCount`). Sort and filter are written by counting predecessors, so these are
facts about finite sets with a strict order (`RanksAre`), and no recursion is
involved. `OpenIsServed` stays with TLC.

## 6. The runs of a session

`SessionRun` models what one session of `RuntimeSessionManager` does with its
runs. A run is the promise of `agent.run()`; the model's `current` is the run
whose promise has not settled (`session.running`), `owned` says whether it still
has the session's `lifecycleGeneration`, and `status`, `archived` and `deleted`
are the record. `request` is the map of pending approvals with what became of
it, `immediate` and `countdown` are the two callbacks of the watchdog's
auto-continuation, and `consecutive`, `sessionTotal` and `progress` are
`WatchdogRecoveryPolicy` (progress saturates at its threshold, beyond which it
is not read).

| Action | Code |
|---|---|
| `Run`, `autoContinue` | `run()`, from a prompt and from the countdown |
| `onAbort`, `recordTurnComplete`, `recordToolResult`, `requestApproval` | the callbacks of `buildCallbacks` |
| `Settle` | `then`, `catch` and `finally` of the run's promise, which no handler comes between |
| `answerIntervention`, `approvalTimeout` | the two answers to an approval |
| `abort`, `archiveSession`, `unarchiveSession`, `deleteSession` | the user's handlers |
| `decideContinue` | the `setImmediate` callback of `maybeWatchdogAutoContinue` |

`run_watchdog` checks that pending approvals belong to the run that owns the
session and each request is answered once (`ApprovalsBelongToRun`), that the
watchdog yields to whatever the user does between a stall and the end of the
countdown (`AutoContinueYields`) and stays within its limits
(`ContinuationsAreBounded`), and that the session implements `SerialRuns`: one
run at a time, one verdict each, however late a run settles that was aborted or
archived. An archived session takes prompts, and restoring or deleting it while
a run is under way takes the run's record away: such a run is "withdrawn".
`acted`, `continued`, `denseTotal`, `answers` and `outcome` are history.

Bounds: four runs, so that a prompt can follow a continuation that followed a
continuation; two requests, one before and one after an abort; limits of two in
a row and one for the session, so that each of them is reached while the other
is not. `denied` has no clock: a denial may count for the suppression of a
continuation or may be too old. The run asks for no liveness: nothing in this
code bounds the time an agent takes to let go.

Proved (`SessionRunProofs.tla`), for any runs, requests and limits: all five.
The inductive invariant adds what the record knows of the run under way
(`RecordFollowsRun`: it says "running" exactly while a run that owns the session
has no verdict), that callback and countdown never coexist (`WatchdogAlone`),
that one of them set means the user has not acted whenever the guard would pass
(`WatchdogYields`), and how the history counts relate to the counts of the
policy (`CountsAgree`). It is needed because the guards are read at the end of
the countdown and speak of the record only, while the promise is about what the
user did.

## 7. The delegation coordinator

`WorkOrderQueue` is `agent/work-queue.ts` as operators on a record (entries, in
flight, completed, failed). `Coordinator` is `DelegationCoordinator` with the
circuit breaker and the liveness clock it owns and the file claims it shares
with other processes. An order's `phase` is the await of `delegateOrder` it is
in, or the synchronous part it is about to run; `controllers`, `live` and `sweep`
are `orderControllers`, the ids under watch and the interval of the stall sweep;
`claim` is the exclusive row of a file in the session registry, `breaker` the
circuit of the one tier-locked profile, `signal` and `saved` are
`config.abortSignal` and the value a call restores. `strays` are the writers whose
worker the coordinator has stopped waiting for (`wrapAbort`): it has been handed the
signal and may still write until it notices. `thread` is set while a synchronous
part that takes several actions is running; only the other process moves then.

| Action | Code |
|---|---|
| `Open`, `ProcessNext`, `Close`, `Deliver` | `delegateBatch` and `delegate`: setting the signal, the chains of `processNext`, the orders left over, packing |
| `Dispatch`, `TurnAway`, `Launch` | `delegateOrder` up to the start of a worker: circuit, abort, controller, watch, claims |
| `Return`, `ReturnRetry`, `Fail`, `FailUpgrade`, `EndExpansion` | what a worker's promise does |
| `ThrowAndRetry`, `EndBackoff`, `CutBackoff` | the retry loop and its abortable sleep |
| `Abandons`, `StrayEnds` | `wrapAbort`: a killed worker is left to itself, and ends some time later |
| `Decide`, `Upgrade`, `ThrowInUpgrade`, `Keep`, `Settle` | after the last retry: the stronger model, or no runtime for it; the record, `markCompleted` or `markFailed` |
| `SweepTick`, `Kill`, `CallerAborts`, `Shutdown` | what stops workers |
| `OtherClaims`, `OtherReleases` | another session's process |
| `CoolDown` | the cooldown of an open circuit |

* `coord_batch`: a batch of two writers that share a file, a reader that depends
  on the first, and a duplicate of it; then a single order whose set-up may
  fail. The batch implements `OrderBatch` (`BatchSpec`): an order starts once and
  after the orders it depends on are completed, is answered once, and is given up
  only when nothing is under way. Nothing of an order stays behind in the
  coordinator (`NothingLeftBehind`); a writer's claims last until the coordinator
  stops waiting for its worker, and a worker that writes without its whole scope
  claimed has been told to stop (`HeldIsClaimed`); no order starts after its
  caller's abort (`NoStartAfterAbort`); and under fairness every call returns
  (`CallEnds`).
* `coord_dependents` (violation): `markCompleted` is called for every order
  whose `delegateOrder` returned, and it returns for workers that failed, were
  blocked or killed. Their dependents run, although work-queue.ts:116 says they
  must not.
* `coord_writers` (violation): claims belong to the session, so two calls that
  overlap are both granted a file, and the first to end deletes the other's
  claim.

In `coord_batch` the calls follow each other. When they overlap, a call finds and
restores the other's abort signal (coordinator.ts:986), which is why
`NoStartAfterAbort` and `HeldIsClaimed` are not asked of overlapping calls; the
comment at coordinator.ts:2024 expects the mix-up of signals. Bounds: two workers, four orders in a batch with one conflict, one dependency
and one duplicate, one retry (a second goes through the same loop once more) that
an upgrade may follow, one shutdown, and a threshold of one,
so that a single failure opens the circuit. The fairness is that of the event
loop: a worker that is waited for ends, or its budget timer aborts it and it is not
waited for any more; a synchronous part runs on, a chain goes on. Aborts, kills,
stalls, other processes and the workers nobody waits for are free.

Seen while modelling, without a run: a kill, a stall or an abort frees the files of a
worker that may still be writing, and the next order of the batch is given them,
although bootstrap.ts:1067 counts on claims and serialization to prevent that; a
retry that passed is run again by a stronger model, since `canUpgrade` does not
look at it, and when that fails the success is lost; `killWorker` finds no controller in the gap between a retry and an upgrade; an
order with the key of another is dropped without an answer of its own; shutdown
lets queued orders start; a half-open circuit admits every probe.

Left out: the choice of models and its telemetry, steering and resume of
workers, background handles, semantic locks (nothing constructs them).

Proved (`CoordinatorProofs.tla`), for any orders, calls, files, dependencies and
caps:

* `TypeCorrect`, with what the field `thread` means (`ThreadInv`): the starters are
  counted only while a call's chain runs.
* `LeavesNothingBehind`, from `CoreInv`: an order is in flight from its dispatch to
  its answer (`QueueInv`); a controller or a watched id names an order that is being
  worked on (`WatchInv`); a claim of ours is held by such an order (`ClaimInv`). No
  hypothesis: overlapping calls leave nothing behind either.
* `ClaimsAreKept` and `AbortIsFinal` under `Sequential` (of any two calls, one comes
  after the other), from `SeqInv`: orders in flight have no file in common, what is
  held is claimed, the signal in the configuration is that of the one call under
  way; and from `WorkInv`: a worker that is waited for has its whole scope claimed,
  and a stray's order was told to stop, for good. Nothing is proved of files a stray
  still writes: the code keeps nothing there. Overlapping calls break both, as said
  above: `coord_writers` shows it for the claims.
* `KeepsBatch`, the refinement of `OrderBatch`, under `DistinctIds` (the ids of the
  orders of one call differ), which is how delegate-batch.ts:212 numbers them;
  the coordinator itself does not check it. It needs that a chain of
  `processNext` only ends when nothing can run or somebody is still under way
  (`DrainInv`), and that an answered order is completed, failed, or was left in the
  queue (`DoneInv`).

The names of calls and orders are assumed to differ (`CoordinatorAssumption`), since
`thread` holds either. `CallEnds` stays with TLC.

## 8. The turns of an agent

`ToolHistory` is the message list of a session (`agent/context.ts`) and the
repair every request makes of it (`context/resume-preflight.ts`): operators on a
sequence of records, one each for the predicate `isToolAdjacencyCleanOai` and the
function `runResumePreflightOai`. `AgentTurn` is `TurnOrchestrator.execute` with
the batches it starts. A run of the loop and its batch are two activities: an
abort frees the loop at once, after the drain's grace period, and the batch of
an aborted run may go on into a later run. So `batch` is kept for each run,
`phase` and `turn` belong to the current one. `history` is `state.oaiMessages`,
`sent` the list of the last request, `guidance` the steer buffer. History variables
are `asked`, how often a run called `createCheckpoint`; `stopped`, the runs that an
abort or an error ended; and `abandoned`, the runs that ended before their batch.
What git answered to the checkpoint is not kept: the pipeline does not look at it.

| Action | Code |
|---|---|
| `StartRun`, `Steer`, `Abort` | `AgentLoop.run`, `SessionManager.steer`, `SessionManager.abort` |
| `AddPrompt` | `initializeRun`, which is not raced against the signal |
| `Request` | `buildOaiRequest` with the repair and its write-back |
| `RuleFires` | a stream rule: a reminder once, the cap |
| `Reply`, `HandOver` | the path without tools, with a message or an empty reply: the thinking retry, then guidance, a continuation, or the end; `Reminded` is `appendSystemReminder`, which makes the text part of a user message on top |
| `StreamFails`, `Stop`, `Exhaust` | the other ends of a run, with the roll-back of the prompt |
| `CallTools`, `Continue` | the start of a batch, what the loop does with its result |
| `StopWaiting`, `Drained`, `DrainExpires` | `rejectOnAbort` and the drain of `TOOL_ABORT_DRAIN_MS` |
| `BeginGroup`, `Decide`, `EndCheckpoint`, `Answer` | `executeBatch` between two groups; `executeToolUse` from await to await; git may fail, and the call goes on |
| `AddToolResults`, `EndBatch` | guidance, backfill and results; the hooks after them |

`turn_abort` checks two runs, of one and two turns, with a tool that reads and one that
writes after an approval. Every request is one a provider accepts, and tells the
model about a call what it was told before (`RequestsAgree`), with results that
come late, twice, or behind the next prompt; a mutating tool is called only after
git was asked for the run's checkpoint, which happens once, and alone
(`WritesAreCovered`); the prompt of a run that is aborted or fails without a
response is taken back, except where something lies on top of it
(`PromptsAreTakenBack`); and guidance goes to the run it was typed in, through a
result or a message (`GuidanceArrives`). A run that ends by itself after nothing
but empty replies keeps its prompt, so the property speaks of stopped runs only:
the code rolls back "when the turn is aborted or fails" and nowhere else.

An abort frees the session although nothing is assumed of tools, approvals, git, hooks and model (`AbortFreesSession`: fair are the loop's
own steps and its timer, which wait for none of them; `initializeRun` and the end
of a run are taken to terminate).

Bounds: the second run meets what the first abandoned, and its second turn what
its first request repaired; `MaxTurns` is a limit for each run, as
`execute` reads it when it begins, so that the first run needs one turn only. One retry of the stream rule: reminded, then
disabled. A batch of two reads and an edit has a parallel group, a group of
one, and calls that never begin; a prompt may be followed by as many aborts and
as much guidance as the user likes.

The exceptions stated in the properties are divergences from what the code says
of itself, seen without a run of their own:

* tool-pipeline.ts:1134-1136 wants the baseline before the first side effect;
  `createCheckpoint` returns null when git fails (checkpoint.ts:265-267), and the
  pipeline sets its flag and calls the tool. The run's later writes do not try
  again.
* turn-orchestrator.ts:367-370 promises to take an unanswered prompt back. After
  a stream rule has fired, `removeLastMessage` takes the reminder instead. With a
  late result on top it throws, out of the catch block too: `onAbort` is not
  called and the run's promise rejects.
* Guidance drained after a reply without tools becomes a message only after
  `completeTurn`; an abort in between loses it. Guidance typed after the last
  drain is dropped by the next run (session-manager.ts:1404). After an empty reply
  it becomes part of the prompt, and is rolled back with it.
* A late result whose call was already answered synthetically is dropped by the
  next repair: the model never learns that the edit did take place.
* A tool is called although the signal fired while its approval or checkpoint
  was awaited; it is up to the tool to look at its signal.
* `hash_edit` and `ast_edit` write files and are not in `MUTATING_TOOLS`: a run that
  begins with them asks for no checkpoint.
* `deliver_task` takes any movement of HEAD during an abort for its own commit
  (tool-pipeline.ts, catch block); another session's commit passes for it.
* A checkpoint whose git call outlives its run overwrites the one file of the
  session, and with it the next run's baseline.

Left out: compaction between turns (`userMessageConsumed`), images, convergence
and sensing, budgets and trims of results, the traces and hooks around a tool.
The gates of `executeToolUse` are one choice, since they run before its first
await.

Proved (`ToolHistoryProofs.tla`), for any list of messages: `RepairedIsClean`, that
`runResumePreflightOai` makes any list one a provider accepts; and as lemmas, that
it keeps what is not a result, keeps the last message on top, and answers each
call with its first answer. They are inductions over the list, see section 10.

Proved (`AgentTurnProofs.tla`), for any tools, batches and bounds:

* `WritesCovered`. The inductive invariant adds that a mutating call under way has
  no other beside it (`OneAtATime`), that a call which waits for its checkpoint
  was admitted without the flag and a mutating one that runs has it
  (`FlagIsKept`), and that the flag counts how often git was asked (`FlagCounts`).
  It is needed because the flag is read when a call is admitted and set when git
  has answered, with an await in between. That there is a baseline is not claimed:
  there may be none, as said above. The proof rests on no tool being
  both safe and mutating, which `AgentTurnAssumption` states and which holds of the
  tools in `MUTATING_TOOLS`.
* `TypeCorrect`, with where a batch leaves its loop (`StageInv`): a batch that is not
  over belongs to the current run and turn, or its run abandoned it.
* `RequestsStayTrue`. `CallInv`: a call is announced once, in a turn that is past,
  and so is the call of every result in the list, whether or not its assistant
  message is there. `SentInv`: what the last request said of a call is the first
  answer the list has for it, which a later result never changes. `OpenInv`: the
  calls of the current batch are announced and unanswered, so its results answer
  them first.
* `GuidanceIsKept`, from the same: guidance goes out with a result whose call had no
  answer yet, so the repair keeps it.
* `PromptsTakenBack`. Until the run has a response, its prompt is the last message
  (`OnTopInv`) unless a rule's reminder or an abandoned batch has covered it: what
  follows an empty reply becomes part of the prompt. It is not in the list before
  it is added (`FreshInv`), so a stopped run takes it away once and for all. The
  runs that end by themselves are outside the statement.

`AbortFreesSession` stays with TLC.

## 9. Plan

Order of work, the most important behaviour first; 1 to 6 are done.

1. Task registry against its abstract life cycle, with proofs.
2. Cron scheduler and cron lock, with proofs.
3. Event log of a session: memory, disk and viewers, with proofs.
4. Runs of a session against `SerialRuns`, with proofs.
5. `WorkOrderQueue` and `Coordinator` against `OrderBatch`, with proofs.
6. `ToolHistory` and `AgentTurn`: turns, batches, aborts, the message list, with
   proofs.
7. `RepoLock` and `SessionRegistry` (`repo-lock.ts`, `session-registry.ts`,
   `ownership-ledger.ts`): claims and locks of several processes, stale owners;
   abstract specification: at most one live holder. `MergeQueue` on top.
8. Compaction controller, goal tracker, retry and fallback of the API clients,
   job store, MCP and LSP connection life cycles, CPU pool.
9. `CronWiring`: the scheduler, the lock and the registry composed, each through
   its abstract specification (one ticking process; a fired task is created once).

Runs: one per component for its safety and liveness, bounded to two or three
actors and one failure, and one violation run for a disagreement with what the
repository says of itself.

Theorems: every invariant, action property and refinement that a passing run
checks is proved. Still to prove: that `TaskLifecycle`, `SerialRuns` and `OrderBatch`
have the consequences a client relies on, stated over them alone (a lower verdict
never replaces a higher one, an answered order was started), so that the modules
which compose components can rest on the abstract ones; and the same results for
what items 7 to 9 add. Liveness stays with TLC.

## 10. Not modelled

The components with status `not_modelled` in `PROJECT.json`, each with its
reason. Within the modelled components: the texts of prompts and results, task
event files, the parsing of cron expressions (a cron schedule is a sequence of
equidistant slots), several hosts on one lock file, reuse of a pid.

## 11. What is proved, and how

| Module | Theorems | Hypotheses beyond the named assumptions |
|---|---|---|
| `TaskRegistryProofs` | types, four invariants, refinement of `TaskLifecycle` | none (the properties speak of tasks scheduled once) |
| `CronLockProofs` | types, two invariants, one action property | none (the properties speak of `calm`) |
| `CronSchedulerProofs` | types, three invariants | `OneProcess` for the invariants |
| `SessionEventLogProofs` | types, three invariants, one action property | none |
| `SessionRunProofs` | types, two invariants, one action property, refinement of `SerialRuns` | none |
| `CoordinatorProofs` | types, two invariants, one action property, refinement of `OrderBatch` | `Sequential` for `HeldIsClaimed` and `NoStartAfterAbort`, `DistinctIds` for the refinement |
| `ToolHistoryProofs` | the repair of a message list | none |
| `AgentTurnProofs` | types, two invariants, two action properties | none |

Each hypothesis holds of the instance TLC checks, and each is there because the
property fails without it or because the code establishes it elsewhere; the
sections above say which.

Liveness under fairness and `ENABLED` are beyond TLAPS: `RunningEnds`, `DueIsFired`,
`SplitHeals`, `OpenIsServed`, `CallEnds` and `AbortFreesSession` are model-checked
only. The library's induction theorems take an operator, which the provers cannot
instantiate; where a list of any length has to be reasoned about,
`ToolHistoryProofs` derives an induction that takes a set instead
(`NumberInduction`, `ListInduction`) from the well-foundedness of strict inclusion
on finite sets, and the event log writes its sort and filter by counting. No
module uses a RECURSIVE operator.

## 12. Running it

`tlc -config MCTaskRegistry_life.cfg MCTaskRegistry` and so on, one
configuration per run of `PROJECT.json`; `tlapm TaskRegistryProofs.tla` and the
other `*Proofs` modules for the proofs.
