---------------------------- MODULE DeviceProtocol ----------------------------
(***************************************************************************)
(* What a gateway may expect of a device that it asks to run a script: one *)
(* answer, then the reports of an accepted job, of which the final one is  *)
(* made at most once.  Actions relies on this, with a connection that can  *)
(* lose any of it; Runner implements it (RunnerRefinement).                *)
(***************************************************************************)
EXTENDS Naturals

CONSTANTS Scripts,     \* requests to run a script
          MaxReports   \* bound: progress reports of one script

VARIABLES
  job,      \* the device's side of each request
  reports   \* progress reports the script has made

vars == << job, reports >>

JobStates ==
  { "none",       \* not asked for
    "requested",
    "open",       \* accepted
    "stopped",    \* its thread was stopped: a report may still be on its way
    "ended" }     \* nothing more will be said

Init ==
  /\ job \in [Scripts -> {"none", "requested"}]
  /\ reports = [s \in Scripts |-> 0]

Becomes(s, state) == job' = [job EXCEPT ![s] = state]

\* "executing" or "queued"; the answer precedes every report.
Accept(s) == job[s] = "requested" /\ Becomes(s, "open") /\ UNCHANGED reports

\* "overflow".
Refuse(s) == job[s] = "requested" /\ Becomes(s, "ended") /\ UNCHANGED reports

\* The script calls reportResult while it runs, or has called it before its
\* thread was stopped: such a report follows the failure report.
Report(s) ==
  /\ job[s] \in {"open", "stopped"}
  /\ reports[s] < MaxReports
  /\ reports' = [reports EXCEPT ![s] = @ + 1]
  /\ UNCHANGED job

\* The job ends with its result, or with the failure report of its thread.
ReportFinal(s) ==
  /\ job[s] = "open"
  /\ Becomes(s, "ended") \/ Becomes(s, "stopped")
  /\ UNCHANGED reports

\* It ends without: undone in the queue, or its script exited silently.
EndSilently(s) == job[s] = "open" /\ Becomes(s, "ended") /\ UNCHANGED reports

Next ==
  \E s \in Scripts :
    Accept(s) \/ Refuse(s) \/ Report(s) \/ ReportFinal(s) \/ EndSilently(s)

Spec == Init /\ [][Next]_vars
===============================================================================
