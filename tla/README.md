# TLA+ models of Agently's orchestration core

Agently is an asyncio framework for agent applications. Most of its hard behaviour is in `core/orchestration`
(TriggerFlow executions: graphs of handlers that wake each other with signals, wait for people, share a
concurrency limit, and are drained, frozen and released by a close that other coroutines race with; TaskDAGs that run
on them), in `core/operation` (shared resources, and the exchange that lets hosts answer an execution that waits) and in
`utils` (the slots and the streams of model requests). This project models these, checks them with TLC and
proves parts of them with TLAPS. Paths below are relative to `src/agently/` unless they begin with `docs/`.

## 1. The system

| Component | State it keeps | Operations | What makes it correct | Module |
|---|---|---|---|---|
| TriggerFlow execution (`TriggerFlow/Execution.py`) | lifecycle, status, data, managed tasks and their failures, the close lock, the auto-close monitor | emit, start, seal, unseal, close, drain | a close waits for the work it owns, freezes once, reports failures, can be retried; an idle execution ends | `TriggerFlowLifecycle` |
| Interrupts (`ExecutionInterrupts.py`) | one entry per interrupt id: status, generation, claim, ledger of resume requests | `pause_for`, `continue_with`, resume by event, cancel by close | a wait is resumed once; a claim is respected and ends; retries are safe | `TriggerFlowInterrupts`, `PauseContract` |
| Concurrency limit (`Execution.py`, `process/`) | a semaphore, a context variable per task | acquire, yield around a nested dispatch, take again, release | the limit is kept, permits come back, nested handlers do not wait for ever | `TriggerFlowPermits` |
| Execution resources (`core/operation/ExecutionResource`) | handles by id and by reuse key, reference counts | ensure, health check, release, release a scope | the key names its latest handle; holders are counted; nothing is left | `ExecutionResources` |
| Execution exchange (`core/operation/ExecutionExchange`, `TriggerFlowActionFlow.py`) | live waits under two keys, hooks, the scope of a run | hot wait, pause, respond, abandon | every open wait can be answered; the last answer closes and cleans up | `ExecutionExchange` |
| TaskDAG (`TaskDAG/TaskDAGRuntime.py`) | results, statuses, failures of tasks in the state of an execution | kickoff, run, retry, skip, approve, finalize | a task runs after its dependencies; the graph ends | `TaskDAGRuntime` |
| Request scheduler (`utils/RequestScheduler.py`) | a semaphore and a token bucket per provider and loop | configure, slot | the configured limits hold | `RequestScheduler` |
| Shared generators (`utils/GeneratorConsumer.py`) | a history, a consuming task, queues of readers | read, wait for the result, close | everyone gets the same output, or hears of the error | `GeneratorConsumer` |
| Model requests (`core/model`, `ResponseParser`) | a response stream with a slot | request, retry, cancel | slots come back, callers are answered | `ModelRequests` |
| Interventions, sub-flows, persistence, TaskBoard, agents, storage, ... | | | | none; section 7 |

How they interact. A handler is a task of the execution. It emits signals (and awaits their dispatch, or not),
pauses, and changes the state. A dispatch that a handler awaits gives the handler's permit back meanwhile. `pause_for` and
`continue_with` write the interrupts, which the close reads twice (before and after its drain) and the monitor reads
before it closes. A TaskDAG is a graph of handlers on one execution; its approvals are pauses, and the answer of an approval dispatches the
signal of the paused task again. An action loop runs on an execution too: it waits for answers through the exchange, whose hosts call
`continue_with` and `close` from other tasks. A start and an action call ensure resources, which the close or the end of the call releases. A
model request is a generator that several callers share and that holds a slot of its provider while it runs.

What is hard: everything is asyncio, so that the code between two awaits is atomic and every await is a place where any
other coroutine may run, where the await may raise, and where the task may be cancelled. Locals that were read before
an await are written back after it; locks and semaphores are taken again in `finally`; the close cancels tasks that
are in the middle of all this. `PROJECT.json` lists these hazards at their lines ("hazards").

## 2. Modules

In every module an action is the code from one await to the next. The place of a coroutine
(`hpc`, `cpc`, `pc`, `phase`, `slot`, `task`, `at`) names the await it is suspended in. Constants named `Max...` and `May...` are bounds or
switches of the model; each is commented where it is declared. Every definition that models code is listed with its
lines in `PROJECT.json` ("map"). `MC...` modules are instances for TLC, `...Proofs` modules hold theorems:
one per module of the code, except that `ModelRequestsProofs` has those of the scheduler and the streams too, and `PauseContractProofs`
has what compares the interrupts with their contract.
Definitions commented "Mutant of ..." are variants with a plausible mistake, which show that a property can fail; no
specification uses them.

### TriggerFlowInterrupts and PauseContract

`store` is the interrupts map of the execution's system data, with the fields that decide something: `status`,
the generation `gen` (`created_at`; a clock that ticks with each `pause_for`), `claim`, the ledger `reqs`, the state
of the external request `wait`, and the budget of self-resumes `count`. `hl` and `cl` are the locals of `pause_for` and
`continue_with`; the model keeps them because the code writes copies back after its awaits (`interrupt`, `previous_interrupt`).

- `pause_for` takes the boundary lock of its id, plans (a new clock value), stores the entry over whatever was there, persists
  (an await that may raise: the entry before is put back if the boundary is still its own), announces, publishes to a
  provider (which may raise, or be answered before it returns) and marks the wait exposed.
- `continue_with` waits for a `pause_for` under way, claims the entry without an await, announces and stores its
  copy twice, resumes, dispatches, and then completes the request or reopens the wait if the dispatch failed.
- An event resumes every unclaimed wait that targets it. A close cancels the unclaimed waits or refuses, before and after
  its drain (`CloseCall`, `CloseLook`); then it awaits the expiry of the interventions (`settled`) and freezes without looking again (`CloseFreeze`). `closer`
  remembers for the properties how many pauses the drain had seen, and which waits were written back after the second look.
- `ResumeTo` says for each interrupt whether it resumes to an event, to the next chunk, or to the chunk itself,
  which then pauses again.

`PauseContract` has five states per wait and no awaits: a generation opens over a settled one, may be claimed, is resumed
once, is delivered once, and only a failed delivery reopens it. `KeepsContract` says the detailed module implements it
under the mapping `waitState`: the claim is a state, and a generation is delivered when its resume is in `dispatched`.

Abstracted: payloads, leases, sub-flow frames, the stream. An execution is not loaded from a snapshot.

### TriggerFlowPermits

`permits` is the semaphore's value, `pc` the handler tasks, `branch` the dispatches that a handler awaits: `YieldPermit`
releases, `Regain` takes again in the `finally`. A fan-out (`batch`, `for_each`) has several branches, each in a task
whose context is a copy of the handler's: each sees `_concurrency_permit_held` set and gives the permit back. Failures
cancel the sibling branches (`gather_cancel_on_error`), and a drain that ran out of time cancels every task. Any
handler not used yet may be the one a dispatch runs, so the graph itself needs no model.

### TriggerFlowLifecycle

`phase` is where the dispatch of each signal is, `via` how it was emitted, `by` who awaits it. The tasks that the
execution adopts are those of `emit_nowait` and the handlers (`Pending`); a dispatch awaited by an outside
coroutine counts for `Idle` but not for the drain, until it is at its handler. So a drain ends with some dispatches unseen (`Unseen`), and `late` remembers them and what they lead to.
An answer is two steps, the claim and resume (`Answer`) and, after its announcement, the dispatch (`Resume`). `cpc` is where each `async_close` is: waiting for the lock,
announcing what it cancels or its seal, draining, drained, settled, frozen, closed; or announcing why it will raise (`refusing`) and that it unseals (`unsealing`). `Fail` and `Leave` are its `except` and its end:
between them the lock is held. The monitor calls the same close (`Monitor \in AllClosers`), and its task is done only when that close has left, which is what `_ensure_auto_close_monitor` asks: an activity
starts a monitor only when `monitor = "off"`. `terminal` is the state as the snapshot of the close has it, and `data` counts the
changes made to the state, so that comparing the two says whether the snapshot is current.

Abstracted, each for a reason:
- time: the idle timeout and the deadline of the drain may run out at any moment;
- a signal reaches one handler or none: several handlers of a signal are several tasks under one gather, which
  `TriggerFlowPermits` and `TaskDAGRuntime` model;
- interrupts are only the set of handlers whose pause is pending; the rest is `TriggerFlowInterrupts`;
- a cancelled task that awaits another cancelled task needs more than one turn of the loop to end (`Slow`): the drain lets the loop run
  once, so that a deadline met by an `emit_nowait` task whose handler runs always ends in `TimeoutError`;
- `skip_exceptions` has its default, and the closing coroutine itself is not cancelled;
- a close from inside a handler, and state changes from outside handlers, are left out.

### RequestScheduler, GeneratorConsumer, ModelRequests

`RequestScheduler` is one provider on one event loop. `configure` drops the cached semaphore and bucket, but whoever waits for one or
holds it keeps its own reference; so a semaphore and a bucket are named after the request that made them (`semaphore`, `bucket` are the
cached ones, `mySemaphore`, `myBucket` those of a request). A request reads the limit (`seen`), passes the bucket, sleeping with its
lock, and only then finds or makes the semaphore. `PerRequest` says where the limit comes from: set once by
`configure()`, or from the settings, in which case each request configures the provider first.

`GeneratorConsumer` numbers the messages of a stream. A reader's queue is the history when it subscribes, followed by what is broadcast, with the sentinel and the
error as `End` and `Error`. A waiter or a reader that is cancelled closes the stream, as `AgentlyResponseParser` does, for everybody (`WaitCancelled`, `ReadCancelled`).

`ModelRequests` composes them: the generator of a stream asks for a slot when its consuming task begins, sends messages while it
holds it, and gives it back in its `finally` (`Finish`), cancelled or not; a caller that is not content waits for a second stream (`retry_get_data`).
`Requests = Streams` joins the two.

### ExecutionResources

`table` and `reuse` are the manager's two maps, `up` says whether the provider's resource exists, `refs` is `ref_count`. `async_ensure` looks a handle
up, checks its health (an await after which the handle may be gone), drops it by force if it is bad, or has the provider make a new one; `async_release`
counts down or releases; nothing holds a lock over an await. The users are action calls (which release what they ensured, also when they fail),
starts of executions (whose handles their close releases, whenever it comes) and `release_scope`. A handle has the scope of whoever made it (`scopeOf`), which decides who releases it: the end of an action call releases
what it ensured if it was made for an action call, and passes over the rest (`Finish`; `kept` remembers those). `excused` remembers the handles that the
code itself takes from their holders: dropped by force, at the end of their scope, or handed out although their release had begun. The properties say
that these are the only ways.

### ExecutionExchange

One action loop (`Driver`) and hosts. Both keys of a live wait name the same entry, so `live` has one entry per wait, with a number to tell an entry
from the one registered later under its key, and a flag for the hooks that finalize the execution. The wait mode of the loop decides: `connected` and `handover` wait hot, then deny or end paused;
`disconnected` ends paused at once. A host's `async_respond` looks its entry up on its own side, calls `continue_with`, whose dispatch runs the rest of the loop, then the
hook, which registers what that run opened or closes the execution, and at last unregisters by key. `continue_with` and `async_close` have here only the steps that the live waits can
tell apart. A run stores its next wait and then publishes the request (`publishing`); when that raises, the answer
that ran it fails and is open again, beside the new wait (`RunFails`), so that several waits may be open at once. `history` records two things that the exchange's promises do not survive, both reachable: a second answer was *ignored* while
the one it lost to could still fail (the duplicate also removes the entry), and the loop stopped waiting while a host was just answering one of its waits (*overtaken*). The two properties are stated for what remains.

### TaskDAGRuntime

A compiled graph: `Roots` begin from `kickoff`, a done event runs dependents inside the emit of the task that finished, a join waits for all its events (`gate`).
A task may run again, because an answered approval dispatches the signal of the paused task again, to *all* handlers of that signal; so a run is a pair of a task
and a number. Joins with the same dependencies have one `when` signal and one `gate`, and hear each other's dispatches (`Hearers`). A task also fails when an input names a result that is not there,
outside the `try` that would record it (`Begin`). `caller` is who awaits a run: another run, `kickoff`, or the `continue_with` of an approval; the answers of an approval are numbered, since one that failed may be given again. A dispatch whose handler raises cancels the others with all they await
(`CancelOthers`), which lets go of `result_lock`. `_record_task_success` reads, extends and writes the shared results between awaits (`RecordReads`, `RecordWrites`).
Retries of a handler are one step (the last attempt decides); statuses and failure records, which nothing reads to decide, are left out.

The siblings of a resumed task also see `is_resume`: a sibling whose own approval still waits would run without it (`Begin`), although
`docs/en/triggerflow/pause-and-resume.md:50` speaks of "the same chunk". The module has this behaviour; its instance has one approval behind each signal, so no run depends on it.

## 3. Runs

| Run | Question | Instance |
|---|---|---|
| `interrupts_contract` | do the stored entries keep the contract, is a claim left to its claimant, do calls and claims end? | two generations of a chunk that resumes itself with a budget of one, two callers, fair |
| `interrupts_early_answer` | is a wait resumed once and its ledger kept when answers race its publication, events and closes? | one wait with a generated id, two callers, two request ids, two values, awaits that raise, closes of both policies |
| `interrupts_replay` | does a redelivered request id dispatch once? (violated) | two generations, one request id |
| `permits` | do chains keep the limit, do permits come back, do handlers end? | one permit, fan-outs, failures, one timed-out drain, fair |
| `permits_fan_out` | is the limit kept? (violated by a fan-out) | one permit, branches |
| `lifecycle` | freeze, drain, failures and failed closes; do closes end, does an idle execution close unless its close was refused? | two signals, one start, one user close and the monitor, one seal, one raised await, pauses, fair |
| `lifecycle_live` | does an idle execution close after the last answer? (violated) | three signals, the monitor alone, pauses, fair |
| `model_requests` | are permits, tokens and histories right, is everyone answered? | two requests of one provider with both limits, one of which yields up to two messages, one reader, one waiter, one `configure`, fair |
| `model_requests_settings` | is the limit kept when it comes from the settings? (violated) | two requests, limit one |
| `resources` | are counts, reuse and releases right, and is anything left? | two action calls, a start, a close and a `release_scope` over two keys, three handles (one key used by an action and the start), one fault, one cancellation |
| `exchange` | can every open wait be answered, does the last answer close? | two approvals, two hosts, two calls, all wait modes, fair |
| `taskdag` | does every task begin with its results, does the graph end, do callers return? | two roots, two joins with the same dependencies, an approval of a task and one of a join, each answered up to twice, one task that may fail or be skipped, fair |

The bounds. Two racers are what every hazard listed needs (a claimant and a competitor; a winner and a
loser of a lock; an ensure and a release), plus one third party where the code treats it differently: the close that releases another task's handles,
the reader that joins a stream late. A second generation is the one that may reuse the budget and the ledger of the first.
Two signals are enough for a handler to emit one, with or without waiting, for a start to race an emission, and for a task to be born during a drain.
One raised await, one bad provider, one cancellation, one `configure` per behaviour are enough for every property below, none of which
counts them. Three handles are one to be replaced, its replacement, and one of the other key. In the graph `MaxRuns = 3` is never exhausted: with four runs the
instance has the same states. (In general an approval whose task has no run left stays unanswered, so the graph does not come to rest.) The clock of the scheduler goes on whenever someone sleeps, beyond `MaxTime`.
Some runs have state constraints, each on what nothing makes happen, so that no liveness is owed to what is cut. `interrupts_contract`: the callers, which are alike, call in one order (`InOrder`: every behaviour is one of those, up to their names),
only a close seals (`SealedByClose`), and only the chunks of its callers outlast a drain (`DrainedInTime`); `interrupts_early_answer` has the seals of hosts and the late chunks. `lifecycle`: a seal or unseal by the user is not combined
with a start or a raised await (`SealsAlone`). `model_requests`: one of the two streams yields no messages (`OneTalks`); no step of a slot depends on them.
The properties are over all interleavings of those. Deadlock is not checked (`CHECK_DEADLOCK FALSE`): every system here may come to
rest when all its bounded inputs are used; that waiting coroutines do not rest is what the liveness properties say.

Fairness. Weak fairness of a coroutine's next step: the event loop runs what is ready; in `TaskDAGRuntime` weak fairness of the loop as a whole is enough.
Strong fairness for taking a lock or a permit: asyncio's `Lock` and `Semaphore` serve their waiters in order, so one for whom it is free again
and again gets it. Handlers are assumed to return and a provider to answer or fail (the requester has a timeout); nothing is assumed of users,
who need not call, answer, emit or close, nor of awaits, which need not raise, nor of deadlines, which need not pass.

What the passing runs show:
- *Interrupts.* No generation of a wait has two standing resumes (`ResumedAtMostOnce`); between claim and resume nobody else touches the wait
  (`ClaimHeld`); a request of a wait with a generated id keeps its value and its record (`RequestKeepsValue`, `LedgerKept`;
  a chosen id that is paused again is a new wait with a new ledger, over which a late end of the older resume writes, `ExecutionInterrupts.py:1206`, `1264`); the self-resume budget survives
  re-pauses and retries (`WithinBudget`); a default close freezes over no wait of a pause that its drain has seen, unless a failed resume put it back after the second look (`DefaultCloseSettled`); calls
  and claims end (`CallsEnd`, `ClaimsSettle`; in that run no await of the claimant raises, because then the code has
  no handler and the claim stays).
- *Permits.* Chains keep the limit (`ChainsWithinLimit`), permits come back (`PermitsComeBack`), waiting handlers end (`ChainsEnd`).
- *Lifecycle.* What a close froze stays the state until the execution is closed (`SnapshotCurrent`); what still runs after a freeze without a timeout comes from a dispatch that had not reached its handler
  when the drain ended, never from an `emit_nowait` or from what a drained handler emitted (`OnlyLateWorkLeft`); failures show (`FailureReported`); a failed close reopens (`FailedCloseReopens`);
  closes end (`ClosesEnd`) and idle executions in which nothing failed close themselves, if the monitor's close was never refused (`AutoClosesUnrefused`).
- *Model requests.* Permits and their holders add up through cancellations and reconfigurations (`PermitsAddUp`); tokens of a bucket are an interval apart
  (`TokensSpaced`); after a `configure` the semaphore has the new limit unless a request was overtaken at the bucket (`RebuiltLimit`); a reader has the whole history in
  order (`ReadersReplay`); what ends without an error is whole, or was closed (`EndsHonestly`); everyone is answered (`EveryoneAnswered`).
- *Resources.* The reuse table names the latest ready handle of its key (`ReuseCurrent`); a ready handle counts its users (`CountsHolders`) and is not released
  under them (`HeldIsReady`); what is left when all calls are over is what `NothingLeft` lists.
- *Exchange.* After a run has ended paused no open wait is unreachable (`Answerable`), and the last answer closes the execution and releases its scope (`LastAnswerCloses`).
- *TaskDAG.* `DependenciesFirst`, `GraphEnds` (at rest and without an error, all results are there and the end was emitted, once unless a task finished twice), `CallersReturn`.

## 4. Where code and documentation differ

1. **A redelivered resume request is dispatched again** (`interrupts_replay`). `pause_for` on an id that was resolved stores a
   fresh entry without its ledger; `docs/en/triggerflow/persistence-and-blueprint.md:113` promises replay without a second dispatch.
2. **Fan-outs exceed the concurrency limit** (`permits_fan_out`). Each branch releases the one permit its handler holds;
   `docs/en/triggerflow/patterns.md:94` promises a global limit, including nested dispatch.
3. **Limits from the settings bound nothing** (`model_requests_settings`). `_scheduler_slot` configures the provider before every request, and `configure()` drops the
   semaphore and the bucket, so that each request makes its own; `docs/en/requests/model-response.md:490` promises bounded dispatch. `LimitHolds` (section 5) is the
   other half: with one `configure()` before the requests the limit is kept.
4. **An answered execution may stay open for ever** (`lifecycle_live`). When a pause is stored just before the monitor closes, the close of the monitor is refused, and the monitor's task is not done until the refusal is announced.
   An answer that comes and ends meanwhile starts no other monitor (`Execution.py:1041`); then the error ends this one. `docs/en/triggerflow/pause-and-resume.md:174` promises that the timer restarts. If the monitor's close
   is never refused the execution is closed (`AutoClosesUnrefused`).

`PROJECT.json` ("findings") gives the lines. More observations were made with the models and are not the subject of a run; where a property sets a case aside, it is one of these:
- A cancellation while a permit is taken again releases a permit that is not held (`TriggerFlowPermits`, `plain`).
- A failed `emit_nowait` ends the auto-close monitor by the error its own close raises, so that the idle execution stays open (`Execution.py:1068`; `NoTrouble` excludes failures).
- A drain that ran out of time does not look again for tasks created since its last look (`Execution.py:1000`; `OnlyLateWorkLeft` excludes timeouts).
- A signal accepted before a close (START, an emit of a host, an answer) whose handler has not begun when the drain ends runs after the state is frozen, and may emit (`late`), although `docs/en/triggerflow/lifecycle.md:24` and
  `:109` have the close drain accepted work. Its changes of the state are refused until the execution is closed (`SnapshotCurrent`).
- Such a handler may pause after the close's second look, or a resume that fails may put its wait back: the default close then freezes over a pending wait (`Execution.py:1183`), although
  `docs/en/triggerflow/pause-and-resume.md:178` has it refuse. `DefaultCloseSettled` says that these are the only ways.
- The end of an action call passes over a shared handle that an execution made (`ActionDispatcher.py:593`), and never takes back its count, so that the handle is left after the close of the execution, too (`kept` in `NothingLeft`).
- The failed publication of a later approval leaves two open waits (`ExecutionInterrupts.py:664`); both are registered when the hook of the answer or the end of the run comes to it, and `Answerable` holds.
- A hot wait that ends while a host answers leaves later waits without hooks (`overtaken`), and a duplicate answer removes the entry of the wait it repeats (`ignored`).

## 5. Proofs

| Theorem | Says | Rests on |
|---|---|---|
| `TypesHold`, `PermitTypes`, `LifecycleTypes`, `RequestTypes`, `ResourceTypes`, `ExchangeTypes`, `DAGTypes` | type correctness of seven modules | one lemma per action or group of actions |
| `NoDoubleResume` | `ResumedAtMostOnce` | `Inv` of `TriggerFlowInterruptsProofs` |
| `ResumesWithinBudget` | `WithinBudget` | `BudgetInv` |
| `DefaultClosesSettle` | `DefaultCloseSettled` | `SettledInv` |
| `ClaimsAreHeld`, `ContractKept` | `ClaimHeld`, `KeepsContract`, if no chosen id is paused while in use | `PauseInv` of `PauseContractProofs` |
| `RequestsKeepValues`, `LedgersAreKept` | `RequestKeepsValue`, `LedgerKept`, with the same premise | `PauseInv` and `LedgerInv` |
| `ChainsStayWithinLimit` | `ChainsWithinLimit` | `PlainInv` |
| `PermitsAreReturned` | `PermitsComeBack` | `BInv` |
| `SnapshotStays`, `FailureStays` | `SnapshotCurrent`, `FailureReported` | `SnapshotInv`, `FailureInv` |
| `FailedCloseUnseals` | `FailedCloseReopens` | `LockInv` |
| `OnlyLateWorkRuns` | `OnlyLateWorkLeft` | `DrainInv` |
| `PermitsBalance` | `PermitsAddUp` | `SlotInv` of `ModelRequestsProofs` |
| `LimitHolds` | `LimitKept`, if the limit does not come from the settings | `OneLimit` |
| `TokensApart` | `TokensSpaced` | `TokenInv` |
| `LimitIsRebuilt` | `RebuiltLimit` | `FreshLimit` |
| `ReadersGetAll`, `OutputsAreHonest` | `ReadersReplay`, `EndsHonestly` | `StreamsInv` |
| `StreamsKeepToScheduler` | the streams implement `SchedulerSpec` | `ComposedStep` |
| `ReuseStaysCurrent` | `ReuseCurrent` | `IInv` of `ExecutionResourcesProofs` |
| `CountCoversHolders`, `HeldStaysReady` | `CountsHolders`, `HeldIsReady` | `HInv` |
| `NothingLeaks` | `NothingLeft` | `LInv` |
| `PausedRunsAnswerable` | `Answerable` | `IInv` of `ExecutionExchangeProofs` |
| `OneAnswerAtATime`, `OneCloseAtATime` | a wait is claimed for and answered by one task at a time; the close has one holder | the same `IInv` |
| `TasksInOrder`, `ResultsStay` | `DependenciesFirst`; no recorded result is ever lost | `IInv` of `TaskDAGRuntimeProofs` |
| `GraphsEnd` | `GraphEnds` | `EInv` |

They hold for any numbers of interrupts, handlers, callers, requests, permits, signals, closers, handles, hosts, tasks and faults and for any graph without a cycle, from
the named assumptions on the constants (`InterruptsAssumption`, `PermitsAssumption`, `LifecycleAssumption`, `SchedulerAssumption`, `ConsumerAssumption`, `OneSlotPerStream`,
`ResourcesAssumption`, `ExchangeAssumption`, `NoneAssumption`, `GraphAssumption`), which TLC evaluates in every run of their modules.

*No double resume.* Two dispatches of one generation would need two coroutines that may still dispatch it. The invariant says
that an open wait (waiting, unclaimed) is *free*: its generation is not dispatched and no caller owes its resume. To keep that true
when a rollback puts an old entry back, the entry a `pause_for` saved must be free too, if it was open, and not be the stored one
(`PreviousIsFree`); to keep it true when a new entry is stored, a planned generation must be newer than all (`PlanIsNew`, from
`ClockAhead`); both need that only one `pause_for` of an id is past its boundary (`OneInBoundary`).

*Claims, contract and ledger.* Here it matters what a coroutine that is suspended may still rely on: a `pause_for` on the id it is about to store not being in use
(`AloneBeforeStore`), a rollback on the entry it saved being settled and its own not being claimed before the envelope is out (`PreviousIsSettled`), a caller on the stored entry
being the one of its copy, or one that has replaced it after its resume. All of it fails when a chosen id is paused again while it is being answered, hence the premise `OneUseAtATime`:
ids that `pause_for` generates are used once, and a chosen one is the chunk's to keep apart: with `OverlappingPauses` off no chunk pauses an id that waits or is being answered, save the chunk that its resume runs. With it each step of the four operations is one step of
`PauseContract`, or none. The ledger is for generated ids alone: a copy is written back by the one caller that serves a generation (`OneServes`), and has all
its records (`CopyKeepsLedger`), since a request is only recorded by the write that claims, rejects or completes.

*Budget.* The count of resumes a chunk had in a row is never above the count stored with its wait, which the resume signal, the handler it starts and the entry it plans all
carry (`Budgeted`, `ChildCarries`, `PlanIsCovered`). *Default close.* A drain that ends in time has seen every `pause_for` of its
time return, so whatever is still pausing was planned later (`DrainSawAll`). Between the second look and the freeze a wait can therefore be pending only if it is of a later generation or was written
back meanwhile (`OnlyLaterWaits`); the rollback of a failed `pause_for` keeps this, because the entry that it would restore was stored under the boundary of its id (`OneInBoundary`).

*Chains within the limit.* A permit is in the semaphore or with a holder, where a holder is a running handler or one that
awaits a branch that has not yielded yet or has regained (`Conserved`, by cardinality). It needs that a handler has one branch at a time and that
nobody was cancelled, hence the premise `plain`.

*Permits come back.* Without the premise a branch may yield a permit that its handler no longer has; so the permits and those at work add up to the limit and the branches that
owe one: those inside a yield, about to take one again, or cancelled in that acquire (`Balanced`). When nobody is at work and no branch is of the last two kinds, none is owed.

*Snapshot.* Inductive with the type of `data`: the state changes only while no snapshot is kept, or after the close.
*Failures.* A status may be written over `failed` only by answering or cancelling a pause, so the invariant adds that a
pause that is pending or being resumed was made (`PausesRecorded`).

*Failed closes.* `_close_lock` has one holder, a monitor that closes is in its close, an execution that is sealed without a prepared end was sealed by the holder or by the user, and a close that announces its
unseal has given its seal back (`LockInv`). *Drain.* While the lock is held past the seal or the end prepared, the lifecycle is not open, so only a handler at work or what was accepted before can lead to more (`Guarded`). A handler is awaited
by an `emit_nowait` task or is itself a managed task, and a resumed pause is of a handler that has ended (`Settled`); so when a round finds no managed task alive, all work that is left
is what it cannot see, a dispatch that is not at its handler yet (`RoundSeesTheRest`). It is recorded as late, and what late work leads to is late (`Quieted`).

*Model requests.* Every step of the streams is a step of the scheduler or leaves it alone (`ComposedStep`), so the arguments are the scheduler's. A semaphore
is named after a request that has it (`Owned`), so a new one has no holder yet, and only requests past the bucket have one (`Places`): the sums then
change by one on each side or not at all (by cardinality). The limit holds because everyone shares one semaphore (`OneLimit`), which fails with `PerRequest` at the first step. A token is
given when the sleeper with the lock wakes, not before the time the bucket had when it took the lock, which nobody else can have moved (`TokenInv`).

*Response streams.* What a reader's queue holds is what its output still lacks of the history, followed by the end if the stream is done (`Queued`). A stream is done
exactly when its generator is no longer live, so nothing is sent after an end; a reader that reads has a started consumer, so a close before the start has no
reader to wake. What a caller is told when it ends therefore follows from how its own stream's generator ended.

*Resources.* The task that drops, checks or announces a handle has one that was made (`Pointers`), and a made handle has a key (`Keyed`); a release only clears the key
if it still names its own handle, and a new handle is the latest of its key.

What is counted: a handle's users are those it was given to or is just being given to, each once, and a ready handle that was not taken by force counts no fewer (`Counted`); who may be given it is still known
(`FewClaims`). For what is left at the end the count must also not be too high, for handles that no session made, in runs without a cancellation, and that no action passed over because an execution made them (`Exact`, over `Clean` handles), and a handle that is up is in the table, or in the hands of the task that
is releasing it (`Tracked`).

*Exchange.* A claim has one claimant, and an answer is dispatched by one task, for whose time the wait stays resumed (`Claimed`). Until the run pauses, the only
entry in the registry is that of its own hot wait, without hooks (`BeforePause`). When it pauses it registers all that is pending, and with an empty `history` nobody is answering any of it then (`Pausing`). From then on
every entry has hooks, and whoever responds either has decided its wait for good or came through an entry whose key is still there, since only the end of an answer removes a key, and only of a decided wait.
So a dispatch that fails reopens a wait that is registered; and a wait that a run stored, whether or not its publication raised, is pending beside a registered one or beside an answer whose hook will register all that is pending
(`AfterPause`, `Reachable`, `Registering`). That nothing but the close's holder changes the lifecycle is `Locked`.

*TaskDAG.* A result that a run read under the lock is what is stored when it writes (`Recording`, from `LockHeld`), so results only grow. A join's gate holds recorded
results only (`GateRecorded`), a task that waits for an answer had its dependencies (`WaitersFound`), and hence every run that a join, an event or a resume starts finds them.

*Graphs at rest.* Whoever has returned without an error has only runs below it that are done or paused (`Settled`), and a run that awaits another is of a task it depends on (`Calling`): the least
task with a failed run was therefore run by kickoff or by an answer, which has heard of it. Every event that a join needs and that was emitted is in its gate until the join begins (`Reached`), joins that share a gate begin together (`Together`), and a paused task
waits for an answer or was run again by one (`Answered`); so the least task without a result would have been started and would have recorded one. "Least" is `Acyclic`, which is what
`validate_task_dag` checks with its sort: no induction is needed. While nothing has failed the results are those of the runs that wrote, the last of which found all the others; of two writers one found the other, since
they take turns at the lock, so two ends of the graph take a task that finished twice (`Written`, `Ending`). One approval does that to the tasks beside it, which is why the end is emitted *once* only under that condition.

Only model-checked: the liveness properties (`CallsEnd`, `ClaimsSettle`, `ChainsEnd`, `ClosesEnd`, `AutoClosesUnrefused`, `EveryoneAnswered`, `LastAnswerCloses`, `CallersReturn`), since fairness and ENABLED are out of the prover's
reach. Every safety property of the passing runs is the statement of a theorem.

## 6. Plan

Proofs: what a new module adds.

Models: persistence (save and load between the steps of `continue_with`: a claim in a snapshot has no caller after the load); the
TaskBoard's frontier (collect lock, dispatch of newly runnable cards); interventions; sub-flow frames.

## 7. Not modelled

- *Persistence and recovery* (`ExecutionPersistence.py`, `SignalNet.py`): needs each module's state split into what a snapshot holds and what a process holds. The hazard
  it would answer is listed without a property.
- *TaskBoard* and the *agent tasks* (`core/application/AgentTask`, forty thousand lines): policies over revisions of a board. What moves them is what models
  answer, and nearly all of their code is validation and the shaping of prompts and records; their concurrency is TriggerFlow's.
- *Interventions*: versioned records under one lock. *Sub-flows*: two levels of the interrupt model, whose product is too large for TLC. *Terminal
  retention*: what the close prepares with its snapshot, without an await (`ExecutionRetention.py:91`), is that snapshot in
  `TriggerFlowLifecycle`; what is pruned is not modelled. *Runtime stream*: the pattern of `GeneratorConsumer`.
- *Policy approval, actions, sessions, contexts, storage, workspaces, plugins, settings, integrations*: sequential code, data conversion, or I/O
  whose atomicity is the file system's or SQLite's.

Of the modelled components these are left out, each known to matter under conditions the models do not have: `set_concurrency` while handlers hold
permits (`Execution.py:3024`), two `async_start` at once (`Execution.py:3504`), an announcement of the seal that raises (`Execution.py:1174`), a
start that is tried again after it failed, the thread bridge of `GeneratorConsumer` (`GeneratorConsumer.py:162`), the time limit of a whole action loop (`TriggerFlowActionFlow.py:1103`), leases of
interrupts, several event loops per scheduler. `PROJECT.json` says for every component what is and what is not modelled.
