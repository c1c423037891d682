-------------------------- MODULE ScriptWorkerProofs --------------------------
(***************************************************************************)
(* What the steps of one ScriptWorker preserve, whoever composes it: the   *)
(* lemmas about src/core/ScriptWorker.ts that RunnerProofs rests on.       *)
(***************************************************************************)
EXTENDS ScriptWorker, TLAPS

\* The steps of a worker after run(): handlers, thread, terminate().
LateStep(j) == Terminate(j) \/ WorkerEvent(j) \/ ThreadStep(j)
WorkerStep(j) == Run(j) \/ RunThrows(j) \/ LateStep(j)

\* Every step of a worker keeps the types of its state.
LEMMA WorkerTypeStep ==
  ASSUME WorkerTypeOK, NEW j \in Jobs, WorkerStep(j)
  PROVE  WorkerTypeOK'
<1> USE DEF WorkerTypeOK, ThreadStates, Outcomes
<1>1. CASE Run(j)
  BY <1>1 DEF Run
<1>2. CASE RunThrows(j)
  BY <1>2 DEF RunThrows, Settle
<1>3. CASE Terminate(j)
  BY <1>3 DEF Terminate, ClearTimer, StopThread
<1>4. CASE TimeoutFires(j)
  BY <1>4 DEF TimeoutFires, ClearTimer, ReportFailureOnce, StopThread, Settle
<1>5. CASE ErrorEvent(j)
  BY <1>5 DEF ErrorEvent, ClearTimer, ReportFailureOnce, Settle
<1>6. CASE ExitEvent(j)
  <2>1. CASE thread[j] = "zero"
    <3>1. UNCHANGED << failureReported, failureReports, inflight, scriptReports >>
      BY <1>6, <2>1 DEF ExitEvent
    <3>2. Settle(j, "resolved") /\ ClearTimer(j)
          /\ thread' = [thread EXCEPT ![j] = "gone"]
      BY <1>6, <2>1 DEF ExitEvent
    <3> QED
      BY <3>1, <3>2 DEF ClearTimer, Settle
  <2>2. CASE thread[j] = "nonzero"
    <3>1. UNCHANGED << inflight, scriptReports >>
      BY <1>6 DEF ExitEvent
    <3>2. ReportFailureOnce(j) /\ Settle(j, "rejected") /\ ClearTimer(j)
          /\ thread' = [thread EXCEPT ![j] = "gone"]
      BY <1>6, <2>2 DEF ExitEvent
    <3> QED
      BY <3>1, <3>2 DEF ClearTimer, ReportFailureOnce, Settle
  <2> QED
    BY <1>6, <2>1, <2>2 DEF ExitEvent
<1>7. CASE MessageEvent(j)
  BY <1>7 DEF MessageEvent
<1>8. CASE PostMessage(j)
  BY <1>8 DEF PostMessage
<1>9. CASE ScriptEnds(j)
  BY <1>9 DEF ScriptEnds
<1>10. CASE ThreadStops(j)
  BY <1>10 DEF ThreadStops
<1> QED
  BY <1>1, <1>2, <1>3, <1>4, <1>5, <1>6, <1>7, <1>8, <1>9, <1>10
  DEF WorkerStep, LateStep, WorkerEvent, ThreadStep

\* A step of one worker leaves every other worker alone.
LEMMA WorkerFrame ==
  ASSUME WorkerTypeOK, NEW j \in Jobs, WorkerStep(j),
         NEW k \in Jobs, k # j
  PROVE  /\ thread'[k] = thread[k]
         /\ timer'[k] = timer[k]
         /\ settled'[k] = settled[k]
         /\ failureReported'[k] = failureReported[k]
         /\ failureReports'[k] = failureReports[k]
         /\ inflight'[k] = inflight[k] /\ scriptReports'[k] = scriptReports[k]
<1> USE DEF WorkerTypeOK
<1>1. CASE Run(j) \/ RunThrows(j)
  BY <1>1 DEF Run, RunThrows, Settle
<1>2. CASE Terminate(j)
  BY <1>2 DEF Terminate, ClearTimer, StopThread
<1>3. CASE TimeoutFires(j)
  BY <1>3 DEF TimeoutFires, ClearTimer, ReportFailureOnce, StopThread, Settle
<1>4. CASE ErrorEvent(j)
  BY <1>4 DEF ErrorEvent, ClearTimer, ReportFailureOnce, Settle
<1>5. CASE ExitEvent(j)
  BY <1>5 DEF ExitEvent, ClearTimer, ReportFailureOnce, Settle
<1>6. CASE MessageEvent(j) \/ ThreadStep(j)
  BY <1>6 DEF MessageEvent, ThreadStep, PostMessage, ScriptEnds, ThreadStops
<1> QED
  BY <1>1, <1>2, <1>3, <1>4, <1>5, <1>6 DEF WorkerStep, LateStep, WorkerEvent

\* How the promise, the timer, the thread and the failure report of one job
\* fit together.
WorkerInv(j) ==
  /\ settled[j] = "resolved" => thread[j] = "gone"
  /\ thread[j] = "running" => settled[j] = "pending" /\ timer[j]
  /\ thread[j] = "gone" => settled[j] # "pending"
  /\ timer[j] => settled[j] = "pending" /\ thread[j] \notin {"none", "gone"}
  /\ failureReports[j] = IF failureReported[j] THEN 1 ELSE 0
  /\ failureReported[j] <=> settled[j] = "rejected" /\ thread[j] # "none"

\* WorkerInv survives every step, if run() is called once, on a new job.
LEMMA WorkerInvStep ==
  ASSUME WorkerTypeOK, NEW j \in Jobs,
         LateStep(j) \/ (NotStarted(j) /\ (Run(j) \/ RunThrows(j))),
         NEW k \in Jobs, WorkerInv(k)
  PROVE  WorkerInv(k)'
<1>1. CASE k # j
  BY <1>1, WorkerFrame DEF WorkerInv, WorkerStep
<1>2. CASE k = j
  <2> USE <1>2 DEF WorkerTypeOK, WorkerInv, NotStarted, ThreadStates, Outcomes
  <2>1. CASE NotStarted(j) /\ Run(j)
    BY <2>1 DEF Run
  <2>2. CASE NotStarted(j) /\ RunThrows(j)
    BY <2>2 DEF RunThrows, Settle
  <2>3. CASE Terminate(j)
    BY <2>3 DEF Terminate, ClearTimer, StopThread
  <2>4. CASE TimeoutFires(j)
    BY <2>4 DEF TimeoutFires, ClearTimer, ReportFailureOnce, StopThread, Settle
  <2>5. CASE ErrorEvent(j)
    BY <2>5 DEF ErrorEvent, ClearTimer, ReportFailureOnce, Settle
  <2>6. CASE ExitEvent(j) /\ thread[j] = "zero"
    BY <2>6 DEF ExitEvent, ClearTimer, Settle
  <2>7. CASE ExitEvent(j) /\ thread[j] = "nonzero"
    BY <2>7 DEF ExitEvent, ClearTimer, ReportFailureOnce, Settle
  <2>8. CASE MessageEvent(j)
    BY <2>8 DEF MessageEvent
  <2>9. CASE ThreadStep(j)
    BY <2>9 DEF ThreadStep, PostMessage, ScriptEnds, ThreadStops
  <2> QED
    BY <2>1, <2>2, <2>3, <2>4, <2>5, <2>6, <2>7, <2>8, <2>9
    DEF LateStep, WorkerEvent, ExitEvent
<1> QED
  BY <1>1, <1>2

\* After run() a worker only winds down: nothing starts a thread, restarts a
\* thread that was told to stop, arms a timer or takes a settlement back.
LEMMA LateStepWindsDown ==
  ASSUME WorkerTypeOK, NEW j \in Jobs, LateStep(j), WorkerInv(j),
         NEW k \in Jobs
  PROVE  /\ thread'[k] = "none" <=> thread[k] = "none"
         /\ thread'[k] = "running" => thread[k] = "running"
         /\ timer'[k] => timer[k]
         /\ settled'[k] = "pending" => settled[k] = "pending"
         /\ thread[k] = "none" => settled'[k] = settled[k]
<1>1. CASE k # j
  BY <1>1, WorkerFrame DEF WorkerStep
<1>2. CASE k = j
  <2> USE <1>2 DEF WorkerTypeOK, WorkerInv, ThreadStates, Outcomes
  <2>1. CASE Terminate(j)
    BY <2>1 DEF Terminate, ClearTimer, StopThread
  <2>2. CASE TimeoutFires(j)
    BY <2>2 DEF TimeoutFires, ClearTimer, StopThread, Settle
  <2>3. CASE ErrorEvent(j)
    BY <2>3 DEF ErrorEvent, ClearTimer, Settle
  <2>4. CASE ExitEvent(j)
    BY <2>4 DEF ExitEvent, ClearTimer, Settle
  <2>5. CASE MessageEvent(j) \/ ThreadStep(j)
    BY <2>5 DEF MessageEvent, ThreadStep, PostMessage, ScriptEnds, ThreadStops
  <2> QED
    BY <2>1, <2>2, <2>3, <2>4, <2>5 DEF LateStep, WorkerEvent
<1> QED
  BY <1>1, <1>2

\* A script has messages on their way only while its thread has not exited,
\* and posts no more than MaxMessages.
MessageInv(j) ==
  /\ thread[j] \in {"none", "gone"} => inflight[j] = 0
  /\ inflight[j] + scriptReports[j] <= MaxMessages

LEMMA MessageInvStep ==
  ASSUME WorkerTypeOK, NEW j \in Jobs, WorkerStep(j), NEW k \in Jobs, MessageInv(k)
  PROVE  MessageInv(k)'
<1>1. CASE k # j
  BY <1>1, WorkerFrame DEF MessageInv
<1>2. CASE k = j
  <2> USE <1>2 DEF WorkerTypeOK, MessageInv, ThreadStates
  <2>0. MaxMessages \in Nat
    BY WorkerAssumption
  <2>1. CASE Run(j) \/ RunThrows(j)
    BY <2>1 DEF Run, RunThrows
  <2>2. CASE Terminate(j) \/ TimeoutFires(j)
    BY <2>2 DEF Terminate, TimeoutFires, StopThread
  <2>3. CASE ErrorEvent(j) \/ ExitEvent(j)
    BY <2>3 DEF ErrorEvent, ExitEvent
  <2>4. CASE MessageEvent(j)
    BY <2>0, <2>4 DEF MessageEvent
  <2>5. CASE ThreadStep(j)
    BY <2>0, <2>5 DEF ThreadStep, PostMessage, ScriptEnds, ThreadStops, Alive
  <2> QED
    BY <2>1, <2>2, <2>3, <2>4, <2>5 DEF WorkerStep, LateStep, WorkerEvent
<1> QED
  BY <1>1, <1>2

\* The two promises of ScriptWorker about a job follow from WorkerInv.
LEMMA WorkerInvImplies ==
  ASSUME WorkerTypeOK, NEW j \in Jobs, WorkerInv(j)
  PROVE  FailureReportMatches(j) /\ TimerOnlyWhilePending(j)
BY DEF WorkerInv, FailureReportMatches, TimerOnlyWhilePending, WorkerTypeOK

===============================================================================
