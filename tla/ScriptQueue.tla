----------------------------- MODULE ScriptQueue -----------------------------
(***************************************************************************)
(* What the device's script queue promises to a gateway, without timers,   *)
(* threads, awaits or event loop: jobs wait in the order in which they     *)
(* were accepted, at most Bound at a time; at most one is active; each     *)
(* leaves exactly once, as done, failed or cancelled, and only a waiting   *)
(* job can be cancelled.  Runner implements this (RunnerRefinement).       *)
(***************************************************************************)
EXTENDS SequencesExt

CONSTANTS MaxJobs,  \* bound: jobs are numbered 1..MaxJobs as accepted
          Bound     \* jobs that can wait

Jobs == 1..MaxJobs

VARIABLES waiting,   \* accepted, not started
          active,    \* the job that runs, 0 if none
          outcome,   \* how a job left
          accepted   \* jobs accepted so far

vars == << waiting, active, outcome, accepted >>

Init ==
  /\ waiting = << >>
  /\ active = 0
  /\ outcome = [j \in Jobs |-> "open"]
  /\ accepted = 0

Accept ==
  /\ accepted < MaxJobs
  /\ Len(waiting) < Bound
  /\ accepted' = accepted + 1
  /\ waiting' = Append(waiting, accepted + 1)
  /\ UNCHANGED << active, outcome >>

Start ==
  /\ active = 0
  /\ waiting # << >>
  /\ active' = Head(waiting)
  /\ waiting' = Tail(waiting)
  /\ UNCHANGED << outcome, accepted >>

\* The first waiting job is given up instead of started.
FailToStart ==
  /\ active = 0
  /\ waiting # << >>
  /\ outcome' = [outcome EXCEPT ![Head(waiting)] = "failed"]
  /\ waiting' = Tail(waiting)
  /\ UNCHANGED << active, accepted >>

Finish ==
  /\ active # 0
  /\ \E end \in {"done", "failed"} :
        outcome' = [outcome EXCEPT ![active] = end]
  /\ active' = 0
  /\ UNCHANGED << waiting, accepted >>

Cancel(i) ==
  /\ i \in 1..Len(waiting)
  /\ outcome' = [outcome EXCEPT ![waiting[i]] = "cancelled"]
  /\ waiting' = RemoveAt(waiting, i)
  /\ UNCHANGED << active, accepted >>

Next ==
  \/ Accept \/ Start \/ FailToStart \/ Finish
  \/ \E i \in 1..Len(waiting) : Cancel(i)

Spec == Init /\ [][Next]_vars

\* Jobs keep moving: one that can start does, one that runs ends.
FairSpec == Spec /\ WF_vars(Start \/ FailToStart) /\ WF_vars(Finish)

===============================================================================
