# A verification project for cdp-client-tool

TLA+ modules, TLC configurations and machine-checked proofs for
[cdp-client-tool](../src/readme.md): a device runs scripts against its browser, and
gateways send it scripts, read its files and watch its script queue over Socket.IO.

## 1. The system

| Component | Source | State | Operations | Hard part |
|---|---|---|---|---|
| Script worker | `src/core/ScriptWorker.ts`, `reportResult` in `src/utils.ts` | thread, timeout timer, `settled`, `failureReported` | `run`, `terminate`, timeout, `error`, `exit`, `message` | four callbacks and a thread race; `terminate()` only asks |
| Runner | `src/core/Runner.ts` | `queue`, `worker`, `draining`, `last_finished_at` | `execJob`, `interruptJob`, `drainQueue`, snapshot | state checked before and used after awaits; lost wake-ups; order; interval |
| Protocol handlers | `src/core/WsHandler.ts`, `Handler.decorator.ts` | one socket per gateway | `exec_*`, `interrupt_script`, `undo_script`, `script_queue`, file events | thin; the ids and acknowledgements they send |
| Awaited actions | `cct-actions.service.ts`, NestJS gateway `emitWithAck` | `pending`, `earlyReports`, timers | dispatch, acknowledgement, report, timeouts, shutdown | report before waiter; lossy connection; shutdown in the middle |
| Device registry | `registerDevice` / `unregisterDevice` in both gateways | two maps | connect, disconnect | a device reconnects before its old connection closes |
| Queue cache | `device-queue-cache.service.ts`, `examples/express/main.ts` | cache, `refreshing` | periodic refresh, HTTP query | answers of different age, silent devices |
| HTTP file interface | `cct-explorer.controller.ts`, `path-utils.ts`, `main.ts`, `resolveAndValidate` in `common.ts` | none | read, list, write, delete | an answer that says more than the device did; paths that climb out of their folder |
| Browser page | `browser-src/`; `browser.html` is an older page | device list, device, path, entries, `loading`, `lastPathRef` | select, open, delete, poll | answers out of order, failing, or after the user has moved on |
| Set-up, logging, helpers | `Client.ts`, `logger.ts`, `index.ts`, `launchBrowser` | none | wiring and I/O | none |

How they interact: a gateway's `exec_*` event becomes a job (`WsHandler`), `Runner.execJob`
queues it and acknowledges with `executing`, `queued` or `overflow`; one `drainQueue` loop at a
time makes a `ScriptWorker` per job; the worker's thread posts messages, which go to the
gateway as `report_result`, and so does a failure. On the gateway a `CctActionsService` action awaits
first the acknowledgement and then a report. Independently the gateway polls every device's
queue and shows a cached copy to the page.

What makes each part correct, in words: the worker settles once, reports a failure once and
leaves no timer of its own armed; the runner loses and repeats nothing, starts in order, one at a time, with
the interval between, never falls asleep with work to do, and finishes every job; an action is always settled, with the
newest report handled, and never waits for something that has already come; the registry
has exactly the open connections; a cache entry does not claim to be younger than it is,
and every connected device's entry is renewed and in the end its own; an acknowledged write is seen by later reads, a read returns what
no request wrote only if a write overlaps it or another write, writes fail only where one path is another's folder, no path reaches a file outside the allowed directories; the page's table is that of the path it shows, its spinner ends and its list of devices converges. The hazards behind these, each at its line, are in
`PROJECT.json`.

## 2. Modules

| Module | Models | Lines of thought |
|---|---|---|
| `ScriptWorker` | one instance per job of `ScriptWorker.ts` | `Run`, `Terminate` are called by the runner; `TimeoutFires`, `ErrorEvent`, `ExitEvent`, `MessageEvent` are the callbacks `run()` installs; `PostMessage`, `ScriptEnds`, `ThreadStops` are the script's thread, which is not under `src/` and is external |
| `Runner` (extends `ScriptWorker`) | `Runner.ts` with the requests of `WsHandler` as inputs | `ExecWire`, `ExecInline`, `SaveDone`, `SaveFails` are `execJob` cut at its await; `DrainTakes`, `SleepDone`, `RunSettled`, `DrainEnds` are `drainQueue` cut at its two; `InterruptQueued`, `InterruptRunning` are `interruptJob` |
| `ScriptQueue` | what the queue promises, without timers, threads, awaits | five actions: accept, start, fail to start, finish, cancel |
| `DeviceProtocol` | what a gateway may expect of a device that it asks for a script | an answer, reports of an accepted job, one final report at most; `Actions` relies on it, `Runner` implements it |
| `RunnerRefinement` | `Runner` implements `ScriptQueue` and `DeviceProtocol` | the job held during the sleep still waits, in front; a job is active until its promise is settled. For a gateway a job is open until it has a failure report (`"stopped"`) or has ended without (`"ended"`) |
| `Actions` | `CctActionsService`, with the gateway's `emitWithAck` below it, and as environment the device of `DeviceProtocol` behind a lossy connection | one action per stretch between awaits, timer and callback |
| `DeviceQueues` | registry and queue cache of both gateways | `QueryWritesCache` is the one difference of the two: Express stores what an HTTP query fetched |
| `FileRequests` | `read_dir`, `read_file`, `rm`, `write_file` from HTTP to the device's file system and back | `Ask`, `AckArrives`, `AckTimeout` are the gateway; one action per stretch of a device handler between its awaits |
| `Paths` | `parseVirtualPath`, `resolveAndValidate` | pure operators on sequences of segments, used by `FileRequests` |
| `BrowserPage` | `AppContext`, `App`, `DeviceList`, `FileBrowser`, `useFileBrowser`, `FileTable` | a step is an event (a click, the interval, an answer) with the renders and effects that follow it |
| `MCRunner`, `MCActions`, `MCDeviceQueues`, `MCFileRequests`, `MCBrowserPage` | for TLC | the `.cfg` files give the bounds; `MCFileRequests` also has the reference definition of `Resolve` |
| `ScriptWorkerProofs`, `RunnerProofs`, `RunnerRefinementProofs`, `ActionsProofs`, `DeviceQueuesProofs`, `PathsProofs`, `FileRequestsProofs`, `BrowserPageProofs` | theorems | section 5 |

### State and code

`Runner`'s `drain` says where the asynchronous `drainQueue` is: `"off"` (`draining` is false),
`"loop"` (in a synchronous stretch), `"sleep"` (in `await sleep`), `"running"` (in
`await this.worker.run()`). `jobToRun` is the local of that name, `worker` is `this.worker`.
Jobs are numbered by the order in which `queue.push` saw them, so first-in-first-out is a comparison of numbers; the
random ids of `WsHandler` are taken to be distinct. `idleFor` is
`Date.now() - last_finished_at`, which matters up to `MinInterval` only; no reading of it is unbounded.
`undone`, `ack`, `failureReports`, `scriptReports` record what callers and gateways were told.
A request that changes nothing (overflow, job not found, a snapshot) is a stuttering step.

**The event loop.** Handlers run one at a time. Where an await has already been resolved, its
continuation runs before the next callback: `HostIdle` guards every callback and is false during
`drain = "loop"` and while the running promise is settled but not continued. Script threads have no
such guard: they interleave with everything. In `Actions`, `LoopIsFree` plays that part, with one exception the
library makes: the packets of one read are dispatched back to back, so a report can be handled
between an acknowledgement and the continuation of `await dispatch()`. That exception is what `earlyReports` is for.

**Threads.** `worker.terminate()` moves a running thread to `"stopping"`, in which its script may
still post; it ends later with a nonzero code. An uncaught exception is the `error` event and then `exit`
with a nonzero code, and messages posted before the end are delivered before `exit`. A terminate()
that races the script's own end is the choice of `ScriptEnds` to come first. `new Worker(filename)` throws for a name
that is neither absolute nor starts with `./` or `../`, which is what `execJob` makes for
`{type: 'local', script}` jobs (`inline`); such jobs can come through the public `client.runner` only,
since `WsHandler` always gives a resolved path or a remote script.

**Connections.** In `Actions`, the device's packets stay in order and any of them can be lost, the request
too; a device may also end a job without a report (undone in the queue; a script that exits silently). A thread that is being
stopped (`job = "stopped"`) can still report after its failure report, as in `ScriptWorker`. In
`DeviceQueues`, `socket.disconnect(true)` runs the old socket's `disconnect` handler before it returns,
as Socket.IO's server does; a closed connection answers nothing more. `cache[d].socket` is
there for the properties: it says whose request an entry answers.

**Files.** In `FileRequests` a lost request is one the device never handles, a lost answer one that never arrives; both are
left to the interleaving. A path is the sequence of its segments: the gateway parses it (`Parsed`, empty for the 400), the
device resolves and validates what is left (`Target`, empty for the error), and two paths that resolve to one sequence name one file.
The conversion of `\\` to `/`, URL decoding, drive letters, absolute paths and symbolic links are left out.

The file system is POSIX's. `node` says what a path names: nothing, a folder or a file. A file is apart from its name (`data`) and lives on without it while
a write or a read has it open (`handle`). Any path below an allowed directory can be written, the directory itself too: `write_file` of
`local_scripts` makes a regular file of that name when nothing has it yet, and a write of `a.js/b` makes a folder of `a.js`.
`ensureDir` is two steps, `stat` (`WriteFile`) and `mkdir` (`MakeDir`), and `mkdir` makes one folder of the path at a time. A write is two steps
more, open with truncation (`OpenFile`) and the end (`Store`); the pieces of the data in between are all alike `"partial"`, and two writes that have the file open together may leave
`"mixed"`. A read is two steps too: `OpenRead`, and `ReadDone` at the end of the pieces that `fs/promises` reads with awaits in between. `seen` collects every content the file has
had since the read opened it: if that is one whole content the caller gets it, otherwise any whole one among them or `"torn"`, which stands for what is cut off or put
together of several. So one write is enough for a torn read. A file's whole content is the request that stored it, or `"private"` outside the allowed directories.

`rm`'s look and removal are one step, `readdir` is one step. The device never removes a folder, and neither do these requests; what
scripts do to the files themselves is not modelled. Only the flag `w` is, and no file system error but the ones a path causes. `before` records which requests had been answered
when a request was sent: that is what the properties mean by earlier and later.

**The page.** In `BrowserPage` a table's entries are the place they were read from. `Shown` is what the page says it shows: `currentDevice` and `currentPath`, `Root` for
null. `LoadDir` and `ShowRoot` are the two branches of the effect of `useFileBrowser`; `OpenDir` of the directory shown is no step,
because the state does not change and no effect runs (the page's refresh button does this). `loads`, `deletes` and `polls` are the requests under way, counted by what the
page will do with the answer: `deletes` by what was shown at the click, because `onRefresh` is the function of that render.
React runs an effect shortly after the render that causes it; that gap is not modelled, and neither is `StrictMode`. `outcome` records for the properties how
the load that `lastPath` stands for ended.

**Mistakes.** A definition called `Bad...` is what its neighbour would be with a plausible mistake in
the code. No specification uses it. `PROJECT.json` pairs each checked property with a mistake that breaks it.

## 3. Checks

| Run | Module, cfg | Asks | Size |
|---|---|---|---|
| `runner_safety` | `MCRunner` | `TypeOK`, `JobsAreConserved`, `NoStrandedQueue`, `OneUnstoppedThread`, `QueueIsBounded`, `FailuresReportedOnce`, `NoStaleTimer`, `AwaitedRunCanEnd`, `StartsInOrder`, `MinIntervalIsKept`, `AckTellsThePosition`, `ImplementsScriptQueue` | 230,000 states |
| `runner_live` | `MCRunnerLive.cfg` | `EveryJobEnds`, `ImplementsFairScriptQueue`, `ImplementsDeviceProtocol` | 133,000 states |
| `actions` | `MCActions` | `TypeOK`, `NoMissedReport`, `WaitersAreReachable`, `EarlyReportsHaveNoWaiter`, `ResolvesWithNewestReport`, `EveryActionSettles` | 222,000 states |
| `queues_nest` | `DeviceQueuesNest.cfg` | `RegistryIsExact`, `AgeIsHonest`, `CacheNeverGoesBack`, `EveryDeviceIsPolled` | 194,000 states |
| `queues_express` | `DeviceQueuesExpress.cfg` | `TypeOK`, `AgeIsHonest`, `RefreshFlagIsExact`, `EveryDeviceIsPolled` | 24,000 states |
| `files` | `FileRequests.cfg` | `TypeOK`, `NoStaleReads`, `TornReadsNeedAWriter`, `WritesFailInConflictOnly`, `OnlyAllowedDirectories` | 2,054,000 states |
| `browser_page` | `BrowserPage.cfg` | `TypeOK`, `TableMatchesPath`, `SpinnerHasALoad`, `SpinnerEnds`, `DeviceListConverges` | 186,000 states |
| `interrupt_missed` | `RunnerInterrupt.cfg` | `InterruptFindsEveryOpenJob` is violated | 7 steps |
| `scripts_overlap` | `RunnerOverlap.cfg` | `ScriptsRunSequentially` is violated | 9 steps |
| `inline_silent` | `RunnerInline.cfg` | `InlineFailureIsReported` is violated | 4 steps |
| `progress_resolves` | `ActionsFinal.cfg` | `ResolvesWithFinalReport` is violated | 7 steps |
| `set_file_ignored` | `FileRequestsSetFile.cfg` | `SetFileIsHandled` is violated | a lasso |

### Bounds

- Runner, safety: four jobs, so that one can run, one wait, one be in `saveScriptFile` and one be refused
  or push the queue over its capacity of 1; `MinInterval = 2`, so that a sleep can be
  short or long; no messages, which none of these properties mentions. Runner, liveness and the device protocol: three jobs with a message each, which can
  be posted before or after its thread is told to stop and arrive after the failure report.
- Actions: two actions, so that one can be disturbed by the other and by the shutdown; two progress reports
  and a final one, so that a report can come early, be replaced and come late.
- Device queues, NestJS: two names and three connections (one name can be taken over, then left, while the other is
  silent). `FreshFor = 1`, `AckTimeout = 2` keep the order of the code's 2 s and 15 s. Express: one name, two connections, one query waiting
  at a time.
- File requests: three, as many as a stale read takes (an old write, a newer write or removal, a read) and a mixture takes (two writes, a read). Requests are a symmetry set.
  Six virtual paths: a file written in two ways (one climbs out of `screenshots` and back), a file below that file, their folder `local_scripts`, a file outside, another device's file.
  Each of the three nested names can become a file or (but for the innermost) a folder, so every conflict of the two can happen. `Resolve`
  is compared with a definition by positions (`ResolveAgrees`) on every sequence of up to six segments of a name, an allowed directory, `..` and `.`:
  enough for every order of three ups and three downs. What holds of `Resolve` for every length is proved (section 5).
- Browser page: two devices, three directories (two of one device), two polls and two loads or deletes under way. Two of each are what it takes for answers
  to come in another order than their requests; three directories let the page leave one for another of the same device and of another.
- `MaxJobs`, `ActionIds`, `Requests` and `Sockets` bound histories, not the system: when they are used up the runner, the actions and the file requests come to
  rest, which is why their runs switch the deadlock check off. `DeviceQueues` never rests and is checked for deadlock.

### Fairness

Weak fairness of what the platform runs by itself: continuations that are due, armed timers, the
clock, thread events, the end of a thread that was told to stop, the interval of the queue refresh.
For the page: the poll interval, the end of every poll and load (the gateway's answers have a time limit),
and, strongly fair, an answer among the polls: they do not fail for ever.
Nothing is assumed of the user, of scripts, file writes, devices, connections, requests: a script may hang for ever and a
device may never answer, and the liveness properties hold all the same, because of the code's timeouts.
A script posts a bounded number of messages, so nothing is claimed of one that posts without end. `ReliableSpec` of
`FileRequests` assumes more, a network without loss and a file system that answers, to show that `set_file` is unanswered even then.

### What the violated runs show

1. **An interrupt can miss a job** (`Runner.ts:80`). The readme says a queued job is removed and a running one
   terminated. During the minimum interval `drainQueue` holds the job in a local variable: `interruptJob`
   answers "job not found" and the job runs afterwards. The queue snapshot does not show it either.
2. **Scripts can overlap** (`ScriptWorker.ts:99`). The timeout does not await `terminate()`, so with `minInterval`
   passed, or 0, the next script starts while the last thread is still there. `OneUnstoppedThread` says what does hold: the other thread has been told to stop.
3. **An inline job fails silently** (`Runner.ts:92`). `new Worker("job-...")` throws, and no report is sent.
4. **A progress report ends an action** (`cct-actions.service.ts:144`). The readme lets a script report progress and
   then the final result; the action resolves with the first report that finds it waiting.
5. **`set_file` has no handler** (`WsHandler.ts:109`). The readme lists `set_file` as a device event and sends HTTP writes through
   it; the device listens to `write_file`. A write from the page ends in the 15 s timeout, always.

`Told` shows another thing no document denies: DELETE answers `deleted` whatever the device's `rm` answered, for a folder or a refused path
too, and a write is answered `saved` whatever the device said, a failure included. And a write of `local_scripts` itself, or below a script, changes what is a folder and what a file, and other writes fail
from then on: `WritesFailInConflictOnly` says that nothing else makes a write of an allowed path fail. And a request that timed out may still take effect, after what its caller did next, which is why `NoStaleReads` speaks of acknowledged requests.

`BrowserPage` shows some more that no document denies, and its properties are stated around them. The refresh after a delete loads the directory of the click,
wherever the page has gone since, so the directory shown may be without a load until the user opens another. A load that fails leaves the entries of the directory before in the table, and a
row's path is then made of the new directory and the old name. Leaving for the root while a directory loads does not end the spinner.
A device that has left stays selected while others are listed.

In both servers an answer, or a timeout, of a closed connection's call is stored under its name, whoever has the name by then. `RegistryIsExact` does not
see it; `EveryDeviceIsPolled` says that it does not last: a connection that stays has its own entry in the end, and no older than a time limit again and again.

In the Express server an answer to an HTTP query that arrives during a refresh can be replaced by the
refresh's older entry, and an entry can claim to be younger than its snapshot by up to the acknowledgement
timeout. No document promises otherwise; `AgeIsHonest` states the bound that holds, and `CacheNeverGoesBack` is
checked for the NestJS cache alone.

## 4. Assumptions on the constants

`WorkerAssumption`, `RunnerAssumption`, `ActionsAssumption`, `DeviceQueuesAssumption`: bounds, capacity and intervals are
natural numbers (an acknowledgement timeout is positive). `FileRequestsAssumption`: requests are none of the words an answer can be, no allowed path lies below
a file outside, and what a virtual path resolves to is one of the paths of the model or refused. `BrowserPageAssumption`: places are directories of devices, and the marks for none and for the root are neither. TLC evaluates them in every run; the proofs use no other.

## 5. Proofs

Each theorem holds for every value of the constants that the assumptions of section 4 allow.

| Module | Theorem | Statement |
|---|---|---|
| `RunnerProofs` | `TypeCorrect` | `Spec => []TypeOK` |
| | `JobConservation` | `Spec => []JobsAreConserved` |
| | `NoLostWakeUp` | `Spec => []NoStrandedQueue` |
| | `ThreadControl` | `Spec => []OneUnstoppedThread` |
| | `QueueBound` | `Spec => []QueueIsBounded` |
| | `SingleFailureReport` | `Spec => []FailuresReportedOnce` |
| | `TimerControl` | `Spec => []NoStaleTimer` |
| | `RunsCanEnd` | `Spec => []AwaitedRunCanEnd` |
| | `WireQueueBound` | `Spec => [](Len(queue) <= Capacity)` where `MaxSaving = 0` |
| | `StartOrder`, `IntervalKept`, `AckIsExact` | `Spec =>` `StartsInOrder`, `MinIntervalIsKept`, `AckTellsThePosition` |
| `RunnerRefinementProofs` | `RunnerImplementsScriptQueue` | `Spec => ImplementsScriptQueue` |
| | `RunnerImplementsDeviceProtocol` | `Spec => ImplementsDeviceProtocol` |
| `ActionsProofs` | `ActionsTypeOK`, `ActionsMissNoReport`, `ActionsWaitersAreReachable`, `ActionsEarlyReports` | `Spec => []` `TypeOK`, `NoMissedReport`, `WaitersAreReachable`, `EarlyReportsHaveNoWaiter` |
| | `ActionsResolveWithNewest` | `Spec => ResolvesWithNewestReport` |
| `DeviceQueuesProofs` | `DeviceQueuesTypeOK`, `DeviceQueuesRegistry`, `DeviceQueuesAges` | `Spec => []` `TypeOK`, `RegistryIsExact`, `AgeIsHonest` |
| | `DeviceQueuesRefreshFlag` | `Spec => []RefreshFlagIsExact`, for both caches |
| | `NestCacheNeverGoesBack` | `Spec => CacheNeverGoesBack` where `QueryWritesCache = FALSE` |
| `FileRequestsProofs` | `FileRequestsTypeOK`, `FilesOutsideArePrivate`, `FileWritesFailInConflict` | `Spec => []` `TypeOK`, `OnlyAllowedDirectories`, `WritesFailInConflictOnly` |
| | `FilesHaveNoStaleReads`, `TornFileReadsNeedAWriter` | `Spec => []` `NoStaleReads`, `TornReadsNeedAWriter` |
| `PathsProofs` | `ResolvedPathsAreNames` | a resolved path has no dots left in it |
| | `PlainPathsStay`, `PlainPathsAreFound` | a path without dots resolves to itself below `cwd`; if it starts with an allowed directory, the device accepts it as that |
| | `AcceptedPathsAreBelow` | what the device accepts is `cwd`, an allowed directory, and names below it, however it was written |
| | `ResolveInParts`, `ClimbingCancels` | a path can be resolved in parts; entering a folder and leaving it again changes nothing |
| `BrowserPageProofs` | `BrowserPageTypeOK`, `PageTableMatchesPath`, `PageSpinnerHasALoad` | `Spec => []` `TypeOK`, `TableMatchesPath`, `SpinnerHasALoad` |

**The runner.** None of its invariants is inductive. `JobsAreConserved`, for one, says nothing of the order of
the queue, so a step from a queue `<<3, 2>>` could start 3 before 2, and `NoStrandedQueue` says nothing of `drain = "loop"`, from which the
loop could end with a job running. `IInv` adds what is missing, in named parts: `DrainInv` (what each value of `drain`
says of `worker`, `jobToRun` and the sleep), `OrderInv` (the queue is sorted, and the job in hand precedes it), `PlaceInv` (which jobs are open, and where),
`ThreadInv` (`WorkerInv` for each job, and what a job's place says of its thread), `BoundInv` (capacity and suspended saves).
`ScriptWorkerProofs` shows per job that a step of a worker preserves `WorkerInv` and leaves the other jobs
alone, and that whatever happens late to a job that is no longer the runner's (`LateStep`) only winds its thread down. `AwaitedRunCanEnd` is the
safety half of `EveryJobEnds`: an interrupt clears the timer without settling anything, so `WorkerInv` has to say that only a thread that was
told to stop, or has ended, can be without one, and that a thread is never gone with its promise pending. `RunnerProofs` first proves
what the sequence operators do (`RemoveAtProperties`, `AppendSorted`, `TailSorted`, `RemoveAtSorted`), then one lemma per action or per
group of actions that touch the same parts, then `NextIInv`, `Invariance` and the theorems.

**The refinement.** `RunnerRefinementProofs` maps every step: a push accepts, the end of a sleep or an immediate start starts (or fails to start, for an inline
job), a settled promise finishes, a removal cancels, everything else stutters (`UnseenStep`). The mapping puts the held job in front of the queue, so
the lemmas `InFront`, `AppendInFront`, `RemoveInFront`, `HeadInFront` say what the abstract queue does with one more element. `IInv` is not enough: a job that was
undone must stay cancelled, which needs that it never gets a thread (`UndoneInv`).

**The protocol.** What `Actions` takes the device to do is `DeviceProtocol`, the same module that the runner is shown to implement, so the environment of the one
model is not a guess but the other's abstraction. A push accepts; a message of the script reports; of the timeout, `error` and `exit`, the one that reports the failure is the
final report; an undone job, an inline job that throws and a script that exits with code 0 end silently; everything else stutters
(`UnseenByProtocol`). The steps of workers need `ReportInv`: an undone job has no thread that could report (`UndoneInv`), and messages are on their way only until
`exit` (`MessageInv`), without which a job that has ended silently could still be heard of. `OneJobMoves` reduces each step to the one job that changes.
Lost requests and packets, and the refusal (a stuttering step of the runner), are the connection's and the protocol's part in `Actions`.

**The actions.** The three invariants are inductive together with `EarlyReportIsTheLast`: as long as the service is
subscribed and the action not resolved, what `earlyReports` holds of it is what it last heard. Without this a
report could have been heard, dropped, and then waited for.

**Registry and cache.** `QueuesInv` is `TypeOK`, `RegistryIsExact`, `AgeIsHonest`, `RefreshFlagIsExact` and `CallsAreTyped` (a snapshot is no older than the call it answers).
`RefreshFlagIsExact` is the safety half of the renewal in `EveryDeviceIsPolled`: the flag that keeps a second refresh from starting is never left up. That the cache never goes back needs the order of
refreshes, `RefreshOrder`, besides: the calls of a refresh all began at once, and no entry is younger.
It is false where queries write the cache, hence the assumption.

**The paths.** `Resolve` is a recursive function, and the recursion has as many steps as the path has segments, so what it computes needs induction. `SetInduction`
gives it without an operator parameter: a set of numbers that contains 0 and the successor of each of its elements is all of `Nat`, because `<` on `Nat` is well-founded and the
set of gaps would have a first one. `Walk` is the table of such a recursion up to a number of segments; `WalkGoesOn` continues it by one, so
every path has one (`ResolveWalks`), and two walks from one place over the same segments agree (`WalksAgree`). With that each theorem is one step of `Enter` (`EnterSteps`,
`EnterNames`). A name is any value that is not in `Dots`; a folder called `local_scripts_old` is therefore not below `local_scripts`, as `startsWith(root + sep)` has it.

**The files.** `Life` says of one request what its stage means for its operation, its reply and what its caller was told, and `StepKinds` divides
the steps into those that leave the file system alone (`Quiet`) and those of one request that do not (`Loud`). Two inductive invariants stand on it.

`NamesInv` is about the tree. None of its two goals is inductive. That no file outside changes needs `NodesInv`: only a write of a path puts a file under that path's name, and who has a file
open opened it by its name; the paths enter by one fact, that what `ResolveAndValidate` returns is inside or empty (`TargetsAreAllowed`). That a failed write has another in conflict with it
(`ConflictInv`) needs, also in `NodesInv`, that a folder stands above some write's path and a file is some write's own. That write was sent when the failing one had no answer yet,
so the failing one is not among those acknowledged before it (`Life`: `before` holds answered requests only).

`ReadsInv` adds what a content tells of the requests: `OldIsGone` (a write that has opened the file, or a removal that is done, has
hidden what was acknowledged before it), `MissingIsRemoved`, `PartialIsOpen` (a half-written file that has a name is being written), `FullIsShared` and
`MixedIsShared` (a full file under an open write, or a mixed one, had two overlapping writes). `SeenInv` carries this over to what a read has seen so far: nothing old, and one whole content
unless a write overlaps the read or another write. Its hard case is a write that puts something into the file while a read has it open: neither of the two
was answered when the other was sent, so they overlap. `RepliesInv` is the same of the reply, from which `NoStaleReads` and `TornReadsNeedAWriter` follow.
What is left of a removed file does not matter, but a read that has it open goes on reading it, which is why `SeenInv` speaks of the open file and `OldIsGone` of the name.

**The page.** `PageInv`, the types and both invariants, is inductive as it stands. `TableStep` says what the steps can do to the table, so that the
proof has one case per kind of change and not one per action.

**Only model-checked**: liveness (`EveryJobEnds`, `ImplementsFairScriptQueue`, `EveryActionSettles`, `EveryDeviceIsPolled`,
`SpinnerEnds`, `DeviceListConverges`), which needs fairness and `ENABLED`, out of the prover's reach; that `Resolve` computes what the definition
by positions in `MCFileRequests` says, which counts ups and downs (`ResolveAgrees`, up to six segments).

## 6. Not modelled

- Log lines, payloads, script contents, the wording of errors; the `description` of jobs.
- Which of several gateways a report goes to (`WsHandler` and `ScriptWorker.emitReportToGateway` choose the socket by name), and the
  `position` an acknowledgement carries, read from the queue after `execJob` has returned.
- The content types of files, the entries of a listing, the flags of a write; `is_file_exist`, which the device does not handle.
  Errors of the file system that no path causes (a full disk, permissions).
- The device and its gateway in one model: `Actions` and `Runner` meet in `DeviceProtocol` instead. That `WsHandler` sends the answer before the reports of its job is part of the
  protocol (`Accept` comes first) and not derived from `Runner`: it holds because the continuation of `await execJob` runs before the event
  loop can take a worker's message.
- Early reports of actions that have ended stay in `earlyReports` until the module is destroyed, because nobody will wait for them. The model
  has it (`KeepEarly`), with one entry per action; the growth over many actions is not a property of a bounded model.
- Of the page: the script queue panel, which shows its copy of the polled list and sends `interrupt_script` and `undo_script` for what it shows (the device answers such
  requests whatever the job has become, `InterruptQueued`, `InterruptRunning`); previews and downloads; React's StrictMode and the gap before an effect; `browser.html`, the Express example's page without React.
- `launchBrowser`, `Client`, `logger`: I/O and wiring.

## 7. Plan

Written in this order, the core first: `ScriptWorker`, `Runner`, `ScriptQueue` with its refinement, the proofs of the runner,
`Actions`, `DeviceQueues`, `FileRequests`; then `Paths` under `FileRequests`, `BrowserPage`, and the proofs of all of them and of
the refinement; then `DeviceProtocol` between `Runner` and `Actions`, and the proofs about paths. What is left:

1. Several gateways, two of one name among them: which of them a job's reports go to.
2. `browser.html`, which loads and polls like the page of `BrowserPage` but without `lastPathRef`.
3. The growth of `earlyReports`: a bound that holds needs a change of the code.
