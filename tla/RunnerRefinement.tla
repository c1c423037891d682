--------------------------- MODULE RunnerRefinement ---------------------------
(***************************************************************************)
(* Runner implements ScriptQueue.  The job that drainQueue holds during    *)
(* `await sleep(...)` still waits, in front of the others; the running job *)
(* is active until its promise is settled, whatever its thread does then.  *)
(***************************************************************************)
EXTENDS Runner

waitingBar == IF drain = "sleep" THEN << jobToRun >> \o queue ELSE queue

activeBar ==
  IF drain = "running" /\ ~RunIsSettled THEN worker ELSE 0

outcomeBar ==
  [j \in Jobs |-> CASE j \in undone -> "cancelled"
                    [] j \notin undone /\ settled[j] = "resolved" -> "done"
                    [] j \notin undone /\ settled[j] = "rejected" -> "failed"
                    [] OTHER -> "open"]

Abstract == INSTANCE ScriptQueue
              WITH waiting <- waitingBar, active <- activeBar,
                   outcome <- outcomeBar,
                   Bound <- Capacity + MaxSaving + 1

\* The runner is a script queue in which, besides `capacity` waiting jobs,
\* one more can be held and one more per suspended saveScriptFile can enter.
ImplementsScriptQueue == Abstract!Spec

\* The platform's fairness carries over: the queue keeps moving.
ImplementsFairScriptQueue == Abstract!FairSpec

-------------------------------------------------------------------------------
(* Runner implements DeviceProtocol.  A message of a script is a report; a *)
(* failure report is final.  A job that is not open and has none, because  *)
(* it was undone, its script exited or run() threw, has ended silently.    *)

JobState(j) ==
  CASE j \notin Accepted -> "requested"
    [] j \in Accepted /\ failureReports[j] = 1 -> "stopped"
    [] j \in Accepted /\ failureReports[j] = 0 -> IF Open(j) THEN "open" ELSE "ended"
    [] OTHER -> "reported twice"

jobBar == [j \in Jobs |-> JobState(j)]

Protocol == INSTANCE DeviceProtocol
              WITH Scripts <- Jobs, MaxReports <- MaxMessages,
                   job <- jobBar, reports <- scriptReports

\* What Actions relies on: reports are made of accepted jobs only, a failure is
\* reported once and of an open job, and nothing is said of a job that ended
\* without a report, although timers, handlers and threads interleave.
ImplementsDeviceProtocol == Protocol!Spec

===============================================================================
