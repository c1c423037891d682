----------------------------- MODULE ScriptWorker -----------------------------
(***************************************************************************)
(* ScriptWorker (src/core/ScriptWorker.ts): one instance per job runs the  *)
(* job's script in a worker thread and turns the thread's events into one  *)
(* settlement of the promise run() returned and into report_result events. *)
(*                                                                         *)
(* Two kinds of steps touch this state.  The handlers (timer, 'error',     *)
(* 'exit', 'message', and terminate() when somebody calls it) run on the   *)
(* host's event loop, one at a time.  The script runs on its own thread    *)
(* and interleaves with the handlers at will: what it can do to the host   *)
(* is to post messages and to end, and what the host can do to it is to    *)
(* ask it to stop, which is not immediate.                                 *)
(***************************************************************************)
EXTENDS Naturals

CONSTANTS MaxJobs,      \* bound: jobs are numbered 1..MaxJobs
          MaxMessages   \* bound: messages one script posts

ASSUME WorkerAssumption == MaxJobs \in Nat /\ MaxMessages \in Nat

Jobs == 1..MaxJobs

ThreadStates ==
  { "none",      \* no Worker was created
    "running",
    "stopping",  \* worker.terminate() was called, the thread still exists
    "threw",     \* ended by an uncaught exception, 'error' not yet emitted
    "zero",      \* ended with code 0, 'exit' not yet emitted
    "nonzero",   \* ended with another code, 'exit' not yet emitted
    "gone" }     \* 'exit' was emitted

\* The thread has not ended: its script may still act on the browser.
Alive == {"running", "stopping"}

Outcomes == {"pending", "resolved", "rejected"}

VARIABLES
  thread,           \* the thread behind this.worker
  inflight,         \* messages posted by the script, 'message' not yet emitted
  timer,            \* this.timeoutTimer is set
  settled,          \* the promise of run()
  failureReported,  \* the closure's failureReported flag
  failureReports,   \* report_result events sent by reportFailureOnce
  scriptReports     \* report_result events that forward a script's message

workerVars == << thread, inflight, timer, settled, failureReported,
                 failureReports, scriptReports >>

WorkerTypeOK ==
  /\ thread \in [Jobs -> ThreadStates]
  /\ inflight \in [Jobs -> Nat]
  /\ timer \in [Jobs -> BOOLEAN]
  /\ settled \in [Jobs -> Outcomes]
  /\ failureReported \in [Jobs -> BOOLEAN]
  /\ failureReports \in [Jobs -> Nat]
  /\ scriptReports \in [Jobs -> Nat]

WorkerInit ==
  /\ thread = [j \in Jobs |-> "none"]
  /\ inflight = [j \in Jobs |-> 0]
  /\ timer = [j \in Jobs |-> FALSE]
  /\ settled = [j \in Jobs |-> "pending"]
  /\ failureReported = [j \in Jobs |-> FALSE]
  /\ failureReports = [j \in Jobs |-> 0]
  /\ scriptReports = [j \in Jobs |-> 0]

-------------------------------------------------------------------------------
(* Shared pieces of the handlers.  A definition called Bad... is what its   *)
(* neighbour would be with a plausible mistake in the code; no             *)
(* specification uses it.                                                  *)

\* Without the failureReported check.
BadReportFailureOnce(j) ==
  /\ failureReported' = [failureReported EXCEPT ![j] = TRUE]
  /\ failureReports' = [failureReports EXCEPT ![j] = @ + 1]

ReportFailureOnce(j) ==
  /\ failureReported' = [failureReported EXCEPT ![j] = TRUE]
  /\ failureReports' = [failureReports EXCEPT
                          ![j] = IF failureReported[j] THEN @ ELSE @ + 1]

\* Without the settled check.
BadSettle(j, outcome) == settled' = [settled EXCEPT ![j] = outcome]

Settle(j, outcome) ==
  settled' = [settled EXCEPT ![j] = IF @ = "pending" THEN outcome ELSE @]

\* Without clearTimeout.
BadClearTimer(j) == UNCHANGED timer

ClearTimer(j) == timer' = [timer EXCEPT ![j] = FALSE]

\* Without worker.terminate().
BadStopThread(j) == UNCHANGED thread

\* worker.terminate() only asks: a thread that has ended keeps its exit code.
StopThread(j) ==
  thread' = [thread EXCEPT ![j] = IF @ = "running" THEN "stopping" ELSE @]

-------------------------------------------------------------------------------
(* Calls from the runner.                                                  *)

\* Without the timeout.
BadRun(j) ==
  /\ thread[j] = "none"
  /\ thread' = [thread EXCEPT ![j] = "running"]
  /\ UNCHANGED << inflight, timer, settled, failureReported, failureReports,
                  scriptReports >>

\* run(): create the thread, arm the timeout, subscribe to the thread.
Run(j) ==
  /\ thread[j] = "none"
  /\ thread' = [thread EXCEPT ![j] = "running"]
  /\ timer' = [timer EXCEPT ![j] = TRUE]
  /\ UNCHANGED << inflight, settled, failureReported, failureReports,
                  scriptReports >>

\* run() throws in `new Worker(filename)`, before there is a promise: Node
\* refuses a path that is neither absolute nor relative to "./" or "../".
RunThrows(j) ==
  /\ Settle(j, "rejected")
  /\ UNCHANGED << thread, inflight, timer, failureReported, failureReports,
                  scriptReports >>

Terminate(j) ==
  /\ ClearTimer(j)
  /\ StopThread(j)
  /\ UNCHANGED << inflight, settled, failureReported, failureReports,
                  scriptReports >>

-------------------------------------------------------------------------------
(* Handlers on the event loop.                                             *)

TimeoutFires(j) ==
  /\ timer[j]
  /\ ClearTimer(j)
  /\ ReportFailureOnce(j)
  /\ StopThread(j)
  /\ Settle(j, "rejected")
  /\ UNCHANGED << inflight, scriptReports >>

\* 'error'; the 'exit' event that follows carries a nonzero code.
ErrorEvent(j) ==
  /\ thread[j] = "threw"
  /\ thread' = [thread EXCEPT ![j] = "nonzero"]
  /\ ClearTimer(j)
  /\ ReportFailureOnce(j)
  /\ Settle(j, "rejected")
  /\ UNCHANGED << inflight, scriptReports >>

\* 'exit'; Node delivers what the script had posted first.
ExitEvent(j) ==
  /\ inflight[j] = 0
  /\ ClearTimer(j)
  /\ thread' = [thread EXCEPT ![j] = "gone"]
  /\ \/ /\ thread[j] = "zero"
        /\ Settle(j, "resolved")
        /\ UNCHANGED << failureReported, failureReports >>
     \/ /\ thread[j] = "nonzero"
        /\ ReportFailureOnce(j)
        /\ Settle(j, "rejected")
  /\ UNCHANGED << inflight, scriptReports >>

\* 'message': forwarded whatever became of the promise meanwhile.
MessageEvent(j) ==
  /\ inflight[j] > 0
  /\ inflight' = [inflight EXCEPT ![j] = @ - 1]
  /\ scriptReports' = [scriptReports EXCEPT ![j] = @ + 1]
  /\ UNCHANGED << thread, timer, settled, failureReported, failureReports >>

WorkerEvent(j) ==
  TimeoutFires(j) \/ ErrorEvent(j) \/ ExitEvent(j) \/ MessageEvent(j)

-------------------------------------------------------------------------------
(* The script's thread (not under src/): reportResult() posts a message,   *)
(* and the script ends by returning, by throwing or by process.exit(n).    *)

PostMessage(j) ==
  /\ thread[j] \in Alive
  /\ inflight[j] + scriptReports[j] < MaxMessages
  /\ inflight' = [inflight EXCEPT ![j] = @ + 1]
  /\ UNCHANGED << thread, timer, settled, failureReported, failureReports,
                  scriptReports >>

ScriptEnds(j) ==
  /\ thread[j] = "running"
  /\ \E end \in {"zero", "threw", "nonzero"} :
        thread' = [thread EXCEPT ![j] = end]
  /\ UNCHANGED << inflight, timer, settled, failureReported, failureReports,
                  scriptReports >>

\* A terminated thread ends with code 1.
ThreadStops(j) ==
  /\ thread[j] = "stopping"
  /\ thread' = [thread EXCEPT ![j] = "nonzero"]
  /\ UNCHANGED << inflight, timer, settled, failureReported, failureReports,
                  scriptReports >>

ThreadStep(j) == PostMessage(j) \/ ScriptEnds(j) \/ ThreadStops(j)

-------------------------------------------------------------------------------
(* What the code promises about one job.                                   *)

\* run() has not been called for the job.
NotStarted(j) == thread[j] = "none" /\ settled[j] = "pending"

\* Of the timeout, the 'error' event and the 'exit' event, which can all
\* happen to one job and in several orders, exactly one reports the failure,
\* and a job that ends well is never also reported as failed.  Jobs whose
\* run() threw are the exception: see Runner's InlineFailureIsReported.
FailureReportMatches(j) ==
  failureReports[j] = IF settled[j] = "rejected" /\ thread[j] # "none"
                      THEN 1 ELSE 0

\* The timeout of a job is armed only while the job is undecided and has its
\* thread: every handler that settles the promise clears it.
TimerOnlyWhilePending(j) ==
  timer[j] => settled[j] = "pending" /\ thread[j] \notin {"none", "gone"}

===============================================================================
