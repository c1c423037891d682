------------------------------- MODULE Runner -------------------------------
(***************************************************************************)
(* Runner (src/core/Runner.ts): the device's script queue.  Requests push  *)
(* jobs; one drainQueue loop takes them off and runs them one by one, with *)
(* a minimum interval between the end of a job and the start of the next.  *)
(*                                                                         *)
(* Everything here runs on one event loop.  drainQueue is an async         *)
(* function: `drain` says where it is between two of its awaits.  The      *)
(* loop's synchronous stretch ("loop") and the continuation of             *)
(* `await this.worker.run()` once the promise is settled run before any    *)
(* other callback (HostIdle); script threads interleave with everything.   *)
(* A job's number is its position in the order in which queue.push saw it. *)
(***************************************************************************)
EXTENDS ScriptWorker, SequencesExt

CONSTANTS Capacity,     \* options.capacity
          MinInterval,  \* options.minInterval, in clock ticks
          MaxSaving     \* bound: execJob calls inside saveScriptFile at once

ASSUME RunnerAssumption ==
  Capacity \in Nat /\ MinInterval \in Nat /\ MaxSaving \in Nat

VARIABLES
  queue,      \* this.queue
  drain,      \* where drainQueue is; this.draining is drain # "off"
  jobToRun,   \* the loop's local of that name, 0 when it has none
  worker,     \* the job of this.worker, 0 when undefined
  idleFor,    \* Date.now() - this.last_finished_at, up to MinInterval
  sleepLeft,  \* what is left of `await sleep(...)`
  saving,     \* calls of execJob suspended in saveScriptFile
  accepted,   \* jobs pushed so far
  inline,     \* accepted jobs that came as {type: 'local', script}
  undone,     \* jobs interruptJob removed from the queue
  ack         \* what execJob returned for an accepted job

runnerVars == << queue, drain, jobToRun, worker, idleFor, sleepLeft, saving,
                 accepted, inline, undone, ack >>
vars == << runnerVars, workerVars >>

DrainStates == {"off", "loop", "sleep", "running"}

TypeOK ==
  /\ WorkerTypeOK
  /\ queue \in Seq(Jobs)
  /\ drain \in DrainStates
  /\ jobToRun \in Jobs \cup {0}
  /\ worker \in Jobs \cup {0}
  /\ idleFor \in 0..MinInterval
  /\ sleepLeft \in 0..MinInterval
  /\ saving \in 0..MaxSaving
  /\ accepted \in 0..MaxJobs
  /\ inline \in SUBSET Jobs
  /\ undone \in SUBSET Jobs
  /\ ack \in [Jobs -> {"none", "executing", "queued"}]

Init ==
  /\ WorkerInit
  /\ queue = << >>
  /\ drain = "off"
  /\ jobToRun = 0
  /\ worker = 0
  /\ idleFor = MinInterval  \* last_finished_at is undefined
  /\ sleepLeft = 0
  /\ saving = 0
  /\ accepted = 0
  /\ inline = {}
  /\ undone = {}
  /\ ack = [j \in Jobs |-> "none"]

\* run()'s promise is settled and the loop's continuation has not run yet.
RunIsSettled == drain = "running" /\ settled[worker] # "pending"

\* No microtask is pending: the event loop may start another callback.
HostIdle == drain # "loop" /\ ~RunIsSettled

-----------------------------------------------------------------------------
(* execJob.  Definitions called Bad... are as in ScriptWorker.             *)

\* shouldStartNow without !this.draining.
BadShouldStartNow == worker = 0

ShouldStartNow == worker = 0 /\ drain = "off"

\* queue.unshift.
BadPush(j) ==
  /\ queue' = << j >> \o queue
  /\ accepted' = j
  /\ ack' = [ack EXCEPT ![j] = IF ShouldStartNow THEN "executing" ELSE "queued"]
  /\ drain' = IF drain = "off" THEN "loop" ELSE drain

\* From queue.push to the return.  drainQueue() returns at once when it is
\* already draining; otherwise its synchronous part follows ("loop").
Push(j) ==
  /\ queue' = Append(queue, j)
  /\ accepted' = j
  /\ ack' = [ack EXCEPT ![j] = IF ShouldStartNow THEN "executing" ELSE "queued"]
  /\ drain' = IF drain = "off" THEN "loop" ELSE drain

\* The bound on jobs.
RoomForJob == accepted + saving < MaxJobs

\* QUEUE_FULL only above the capacity.
BadQueueHasRoom == Len(queue) <= Capacity

QueueHasRoom == Len(queue) < Capacity

\* A request from the wire: its job is remote, or local with a filename.
ExecWire ==
  /\ HostIdle /\ RoomForJob
  /\ QueueHasRoom
  /\ Push(accepted + 1)
  /\ UNCHANGED << jobToRun, worker, idleFor, sleepLeft, saving, inline,
                  undone, workerVars >>

\* A local job without a filename: the capacity check, then the script is
\* saved to a file, which awaits.
ExecInline ==
  /\ HostIdle /\ RoomForJob
  /\ QueueHasRoom
  /\ saving < MaxSaving
  /\ saving' = saving + 1
  /\ UNCHANGED << queue, drain, jobToRun, worker, idleFor, sleepLeft,
                  accepted, inline, undone, ack, workerVars >>

\* ... the file is written: push, without looking at the queue again.
SaveDone ==
  /\ HostIdle
  /\ saving > 0
  /\ saving' = saving - 1
  /\ Push(accepted + 1)
  /\ inline' = inline \cup {accepted + 1}
  /\ UNCHANGED << jobToRun, worker, idleFor, sleepLeft, undone, workerVars >>

\* ... or cannot be written: FILE_SAVE_FAILED.
SaveFails ==
  /\ HostIdle
  /\ saving > 0
  /\ saving' = saving - 1
  /\ UNCHANGED << queue, drain, jobToRun, worker, idleFor, sleepLeft,
                  accepted, inline, undone, ack, workerVars >>

-----------------------------------------------------------------------------
(* interruptJob (interrupt_script and undo_script).  An id that is neither *)
(* queued nor the running worker's is answered "job not found".            *)

\* queue.splice(idx), which removes the rest too.
BadInterruptQueued(i) ==
  /\ HostIdle
  /\ i \in 1..Len(queue)
  /\ queue' = SubSeq(queue, 1, i - 1)
  /\ undone' = undone \cup {queue[i]}
  /\ UNCHANGED << drain, jobToRun, worker, idleFor, sleepLeft, saving,
                  accepted, inline, ack, workerVars >>

InterruptQueued(i) ==
  /\ HostIdle
  /\ i \in 1..Len(queue)
  /\ queue' = RemoveAt(queue, i)
  /\ undone' = undone \cup {queue[i]}
  /\ UNCHANGED << drain, jobToRun, worker, idleFor, sleepLeft, saving,
                  accepted, inline, ack, workerVars >>

InterruptRunning ==
  /\ HostIdle
  /\ worker # 0
  /\ Terminate(worker)
  /\ UNCHANGED runnerVars

-----------------------------------------------------------------------------
(* drainQueue.                                                             *)

\* new ScriptWorker and `await this.worker.run()`.  The file name of an
\* inline job is a bare "job-...", so run() throws at once and the finally
\* block runs; every other job gets a thread.
StartJob(j) ==
  \/ /\ j \notin inline
     /\ Run(j)
     /\ drain' = "running"
     /\ jobToRun' = j
     /\ worker' = j
     /\ UNCHANGED idleFor
  \/ /\ j \in inline
     /\ RunThrows(j)
     /\ drain' = "loop"
     /\ jobToRun' = 0
     /\ worker' = 0
     /\ idleFor' = 0

\* How long the sleep is, with the elapsed and the remaining time confused,
\* and with the operands of the subtraction confused.
BadSleepTime == idleFor
BadSleepSign == idleFor - MinInterval

SleepTime == MinInterval - idleFor

\* One turn of the while loop, up to the await or the next turn.
DrainTakes ==
  /\ drain = "loop"
  /\ worker = 0
  /\ queue # << >>
  /\ queue' = Tail(queue)
  /\ \/ /\ idleFor < MinInterval
        /\ drain' = "sleep"
        /\ jobToRun' = Head(queue)
        /\ sleepLeft' = SleepTime
        /\ UNCHANGED << worker, idleFor, workerVars >>
     \/ /\ idleFor >= MinInterval
        /\ StartJob(Head(queue))
        /\ UNCHANGED sleepLeft
  /\ UNCHANGED << saving, accepted, inline, undone, ack >>

\* The loop ends; the outer finally calls drainQueue again when jobs wait.
DrainEnds ==
  /\ drain = "loop"
  /\ worker # 0 \/ queue = << >>
  /\ drain' = IF worker = 0 /\ queue # << >> THEN "loop" ELSE "off"
  /\ UNCHANGED << queue, jobToRun, worker, idleFor, sleepLeft, saving,
                  accepted, inline, undone, ack, workerVars >>

\* `await sleep(...)` is over: the job in hand starts.
SleepDone ==
  /\ drain = "sleep"
  /\ sleepLeft = 0
  /\ StartJob(jobToRun)
  /\ UNCHANGED << queue, sleepLeft, saving, accepted, inline, undone, ack >>

\* drainQueue returns after a job instead of looping.
BadRunSettled ==
  /\ RunIsSettled
  /\ drain' = "off"
  /\ jobToRun' = 0
  /\ worker' = 0
  /\ idleFor' = 0
  /\ UNCHANGED << queue, sleepLeft, saving, accepted, inline, undone, ack,
                  workerVars >>

\* The continuation of `await this.worker.run()`: the inner finally.
RunSettled ==
  /\ RunIsSettled
  /\ drain' = "loop"
  /\ jobToRun' = 0
  /\ worker' = 0
  /\ idleFor' = 0
  /\ UNCHANGED << queue, sleepLeft, saving, accepted, inline, undone, ack,
                  workerVars >>

-----------------------------------------------------------------------------
(* The rest of the process.                                                *)

HandleWorkerEvent(j) ==
  /\ HostIdle
  /\ WorkerEvent(j)
  /\ UNCHANGED runnerVars

ScriptThread(j) ==
  /\ ThreadStep(j)
  /\ UNCHANGED runnerVars

\* The clock.  Its readings matter only up to MinInterval.
Tick ==
  /\ HostIdle
  /\ idleFor < MinInterval \/ sleepLeft > 0
  /\ idleFor' = IF idleFor < MinInterval THEN idleFor + 1 ELSE idleFor
  /\ sleepLeft' = IF sleepLeft > 0 THEN sleepLeft - 1 ELSE 0
  /\ UNCHANGED << queue, drain, jobToRun, worker, saving, accepted, inline,
                  undone, ack, workerVars >>

Next ==
  \/ ExecWire \/ ExecInline \/ SaveDone \/ SaveFails
  \/ \E i \in 1..Len(queue) : InterruptQueued(i)
  \/ InterruptRunning
  \/ DrainTakes \/ DrainEnds \/ SleepDone \/ RunSettled
  \/ \E j \in Jobs : HandleWorkerEvent(j) \/ ScriptThread(j)
  \/ Tick

Spec == Init /\ [][Next]_vars

\* What the platform owes the code: the event loop runs what is due, clocks
\* advance, armed timers fire, and a terminated thread ends.  Nothing is
\* assumed of requests, of file writes or of scripts: a script may run or
\* stay silent for ever.
Fairness ==
  /\ WF_vars(DrainTakes) /\ WF_vars(DrainEnds)
  /\ WF_vars(SleepDone) /\ WF_vars(RunSettled)
  /\ WF_vars(Tick)
  /\ \A j \in Jobs :
       /\ WF_vars(HandleWorkerEvent(j))
       /\ WF_vars(ThreadStops(j) /\ UNCHANGED runnerVars)

FairSpec == Spec /\ Fairness

-----------------------------------------------------------------------------
(* Properties.                                                             *)

Accepted == 1..accepted

\* Neither undone nor settled yet.
Open(j) == j \in Accepted /\ j \notin undone /\ settled[j] = "pending"

\* Where an open job can be.  A job is held while drainQueue, having shifted
\* it, waits for the minimum interval; the code keeps it in a local variable.
Queued(j) == Contains(queue, j)
Held(j) == drain = "sleep" /\ jobToRun = j
Running(j) == worker = j

\* No job is lost or run twice, whatever requests, interrupts, timeouts and
\* thread events interleave: an accepted job is open exactly while it sits
\* in one place, once (execJob, interruptJob, drainQueue).
JobsAreConserved ==
  /\ \A i, k \in 1..Len(queue) : queue[i] = queue[k] => i = k
  /\ \A j \in Jobs :
       /\ Open(j) => Queued(j) \/ Held(j) \/ Running(j)
       /\ Queued(j) => Open(j) /\ thread[j] = "none" /\ ~Held(j) /\ ~Running(j)
       /\ Held(j) => Open(j) /\ thread[j] = "none" /\ ~Running(j)
       /\ Running(j) => drain = "running" /\ j \in Accepted \ undone

\* No lost wake-up: when drainQueue is not running there is nothing to run,
\* although execJob leaves the work to a loop that may be about to end.
NoStrandedQueue ==
  drain = "off" => queue = << >> /\ worker = 0 /\ ~\E j \in Jobs : Open(j)

\* Only the job of this.worker may run freely.  Threads of earlier jobs can
\* outlive their job (a timeout settles it first), but they were terminated.
OneUnstoppedThread ==
  \A j \in Jobs : thread[j] = "running" => Running(j) /\ settled[j] = "pending"

\* The capacity check of execJob precedes an await on the inline path, so the
\* queue may exceed the capacity by the number of calls suspended there, and
\* by no more; requests from the wire alone (MaxSaving = 0) never exceed it.
QueueIsBounded == Len(queue) + saving <= Capacity + MaxSaving

\* See FailureReportMatches: one report for each failed thread, none otherwise.
FailuresReportedOnce == \A j \in Jobs : FailureReportMatches(j)

\* See TimerOnlyWhilePending: whichever event settles a job clears its timeout,
\* and a job that is no longer this.worker has none left.
NoStaleTimer ==
  \A j \in Jobs : timer[j] => TimerOnlyWhilePending(j) /\ Running(j)

\* What drainQueue waits for can still come, also after an interrupt, which
\* clears the timeout and settles nothing: a script that runs freely has its
\* timeout armed, and a thread that was told to stop or has ended has its
\* 'exit' event before it.  (The safety half of EveryJobEnds.)
AwaitedRunCanEnd ==
  drain = "running" /\ settled[worker] = "pending" =>
    /\ thread[worker] \notin {"none", "gone"}
    /\ thread[worker] = "running" => timer[worker]

\* A job starts, or fails to start, only after everything accepted before it
\* has ended or been undone: first in, first out, one at a time (drainQueue).
StartsInOrder ==
  [][\A j \in Jobs : NotStarted(j) /\ ~NotStarted(j)' =>
        \A k \in 1..(j - 1) : ~Open(k)]_vars

\* From the moment this.worker is dropped to the next `new ScriptWorker`
\* there are at least MinInterval ticks, also when the next job was accepted
\* long before, came in between, or is not the one that was next (drainQueue).
MinIntervalIsKept ==
  [][/\ worker # 0 /\ worker' = 0 => idleFor' = 0
     /\ worker = 0 /\ worker' # 0 => idleFor >= MinInterval]_vars

\* "executing" is answered only to a caller whose job has no other in front
\* of it, and "queued" only when some job is (execJob, shouldStartNow).
AckTellsThePosition ==
  [][\A j \in Jobs : j \in Accepted' \ Accepted =>
        (ack'[j] = "executing" <=> ~\E k \in Jobs : Open(k))]_vars

\* Every accepted job ends or is undone, although its script may run for
\* ever or be terminated: the timeout and the loop see to it.
EveryJobEnds == \A j \in Jobs : j \in Accepted ~> ~Open(j)

-----------------------------------------------------------------------------
(* What the documentation says, and the code does not do.                  *)

\* readme.md on interrupt_script: a queued job is removed, a running one is
\* terminated.  interruptJob knows the queue and this.worker, so this says
\* that every open job is one or the other whenever a request can arrive.
InterruptFindsEveryOpenJob ==
  HostIdle => \A j \in Jobs : Open(j) => Queued(j) \/ Running(j)

\* readme.md: scripts are executed sequentially.
ScriptsRunSequentially ==
  \A j, k \in Jobs : thread[j] \in Alive /\ thread[k] \in Alive => j = k

\* The comment in drainQueue's catch: when a job fails, report_result or the
\* worker's error path has already told the outcome.
InlineFailureIsReported ==
  \A j \in Jobs : settled[j] = "rejected" => failureReports[j] > 0

=============================================================================
