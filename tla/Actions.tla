------------------------------- MODULE Actions -------------------------------
(***************************************************************************)
(* CctActionsService (examples/nestjs_cct_explorer_module) on top of the   *)
(* Socket.IO gateway (examples/nestjs): an action dispatches a script to a *)
(* device, gets an acknowledgement, and waits for a report_result.         *)
(*                                                                         *)
(* The device answers and then reports on one connection, in order, so     *)
(* `wire[a]` is a queue; a broken connection can lose any part of it.  On  *)
(* the gateway, the packets of one read are handled back to back before    *)
(* the promise continuations they cause: a report can be handled between   *)
(* the acknowledgement of its action and the continuation of               *)
(* `await dispatch()`.  Everything else waits for pending continuations.   *)
(* An action has a key of its own, `${device}:${jobId}`, so maps keyed by  *)
(* it are functions of the action here.                                    *)
(***************************************************************************)
EXTENDS SequencesExt

CONSTANTS ActionIds,   \* calls of runLocalScriptAction / runRemoteScriptAction
          MaxReports   \* bound: progress reports of one job

ASSUME ActionsAssumption == MaxReports \in Nat

Phases ==
  { "idle",
    "dispatched",  \* in `await dispatch()`, the acknowledgement timer armed
    "acked",       \* the acknowledgement came, the continuation is due
    "waiting",     \* the promise for the report exists
    "resolved", "failed" }

Reports == {"progress", "final"}
ReportOrNone == Reports \cup {"none"}

VARIABLES
  phase,         \* where each action's async function is
  pending,       \* keys of this.pending
  timer,         \* actions whose action timeout is armed
  earlyReports,  \* this.earlyReports
  result,        \* what a resolved action returned
  heard,         \* last report of the action's job that handleReport saw
  subscribed,    \* FALSE after onModuleDestroy
  job,           \* the device's side of the action
  reports,       \* progress reports the script has made
  wire           \* packets from the device, oldest first

gatewayVars == << phase, pending, timer, earlyReports, result, heard, subscribed >>
deviceVars == << job, reports >>
vars == << gatewayVars, deviceVars, wire >>

\* What the device does, apart from the connection.
Device == INSTANCE DeviceProtocol WITH Scripts <- ActionIds

TypeOK ==
  /\ phase \in [ActionIds -> Phases]
  /\ pending \in SUBSET ActionIds
  /\ timer \in SUBSET ActionIds
  /\ earlyReports \in [ActionIds -> ReportOrNone]
  /\ result \in [ActionIds -> ReportOrNone]
  /\ heard \in [ActionIds -> ReportOrNone]
  /\ subscribed \in BOOLEAN
  /\ job \in [ActionIds -> Device!JobStates]
  /\ reports \in [ActionIds -> 0..MaxReports]
  /\ wire \in [ActionIds -> Seq(Reports \cup {"accepted", "overflow"})]

Init ==
  /\ phase = [a \in ActionIds |-> "idle"]
  /\ pending = {}
  /\ timer = {}
  /\ earlyReports = [a \in ActionIds |-> "none"]
  /\ result = [a \in ActionIds |-> "none"]
  /\ heard = [a \in ActionIds |-> "none"]
  /\ subscribed = TRUE
  /\ job = [a \in ActionIds |-> "none"]
  /\ reports = [a \in ActionIds |-> 0]
  /\ wire = [a \in ActionIds |-> << >>]

Settled(a) == phase[a] \in {"resolved", "failed"}

\* No continuation is due: the event loop may start another callback.
LoopIsFree == \A a \in ActionIds : phase[a] # "acked"

-------------------------------------------------------------------------------
(* The device.                                                             *)

Send(a, packet) == wire' = [wire EXCEPT ![a] = Append(@, packet)]

\* Whatever the device says goes on the wire.
DeviceSays(a) ==
  /\ \/ Device!Accept(a) /\ Send(a, "accepted")
     \/ Device!Refuse(a) /\ Send(a, "overflow")
     \/ Device!Report(a) /\ Send(a, "progress")
     \/ Device!ReportFinal(a) /\ Send(a, "final")
  /\ UNCHANGED gatewayVars

DeviceIsSilent(a) == Device!EndSilently(a) /\ UNCHANGED << gatewayVars, wire >>

\* The connection loses the request, or a packet of the device.
RequestLost(a) ==
  /\ job[a] = "requested"
  /\ job' = [job EXCEPT ![a] = "ended"]
  /\ UNCHANGED << gatewayVars, reports, wire >>

PacketLost(a) ==
  /\ \E i \in 1..Len(wire[a]) : wire' = [wire EXCEPT ![a] = RemoveAt(@, i)]
  /\ UNCHANGED << gatewayVars, deviceVars >>

-------------------------------------------------------------------------------
(* The gateway.                                                            *)

\* dispatchAndWait up to `await dispatch()`: emitWithAck arms its timer and
\* emits.  A device that is not connected fails the action at once.
Dispatch(a) ==
  /\ LoopIsFree
  /\ phase[a] = "idle"
  /\ \/ /\ phase' = [phase EXCEPT ![a] = "dispatched"]
        /\ job' = [job EXCEPT ![a] = "requested"]
     \/ /\ phase' = [phase EXCEPT ![a] = "failed"]
        /\ UNCHANGED job
  /\ UNCHANGED << pending, timer, earlyReports, result, heard, subscribed,
                  reports, wire >>

\* Definitions called Bad... are what their neighbours would be with a
\* plausible mistake in the code; no specification uses them.

\* Any packet taken for the one expected.
BadReceive(a, packets) ==
  /\ wire[a] # << >>
  /\ wire' = [wire EXCEPT ![a] = Tail(@)]

Receive(a, packets) ==
  /\ wire[a] # << >>
  /\ Head(wire[a]) \in packets
  /\ wire' = [wire EXCEPT ![a] = Tail(@)]

\* emitWithAck's callback; once the timer has rejected, it changes nothing.
\* An overflow throws in dispatchAndWait.
AckArrives(a) ==
  /\ Receive(a, {"accepted", "overflow"})
  /\ phase' = [phase EXCEPT
                 ![a] = CASE @ # "dispatched" -> @
                          [] @ = "dispatched" /\ Head(wire[a]) = "accepted" -> "acked"
                          [] OTHER -> "failed"]
  /\ UNCHANGED << pending, timer, earlyReports, result, heard, subscribed,
                  deviceVars >>

\* emitWithAck's timer.  The device is not told: its job goes on.
AckTimeout(a) ==
  /\ LoopIsFree
  /\ phase[a] = "dispatched"
  /\ phase' = [phase EXCEPT ![a] = "failed"]
  /\ UNCHANGED << pending, timer, earlyReports, result, heard, subscribed,
                  deviceVars, wire >>

\* dispatchAndWait after the acknowledgement.
ConsumeEarlyReport(a) ==
  /\ phase[a] = "acked"
  /\ a \notin pending
  /\ earlyReports[a] # "none"
  /\ earlyReports' = [earlyReports EXCEPT ![a] = "none"]
  /\ result' = [result EXCEPT ![a] = earlyReports[a]]
  /\ phase' = [phase EXCEPT ![a] = "resolved"]
  /\ UNCHANGED << pending, timer, heard, subscribed, deviceVars, wire >>

\* Without a look at earlyReports.
BadWaitForReport(a) ==
  /\ phase[a] = "acked"
  /\ a \notin pending
  /\ pending' = pending \cup {a}
  /\ timer' = timer \cup {a}
  /\ phase' = [phase EXCEPT ![a] = "waiting"]
  /\ UNCHANGED << earlyReports, result, heard, subscribed, deviceVars, wire >>

WaitForReport(a) ==
  /\ phase[a] = "acked"
  /\ a \notin pending
  /\ earlyReports[a] = "none"
  /\ pending' = pending \cup {a}
  /\ timer' = timer \cup {a}
  /\ phase' = [phase EXCEPT ![a] = "waiting"]
  /\ UNCHANGED << earlyReports, result, heard, subscribed, deviceVars, wire >>

\* The first report kept instead of the newest.
BadKeepEarly(a, report) ==
  earlyReports' = [earlyReports EXCEPT ![a] = IF @ = "none" THEN report ELSE @]

KeepEarly(a, report) == earlyReports' = [earlyReports EXCEPT ![a] = report]

\* Without clearTimeout.
BadForget(a) == pending' = pending \ {a} /\ UNCHANGED timer

\* An action's map entry goes together with its timer.
Forget(a) == pending' = pending \ {a} /\ timer' = timer \ {a}

\* handleReport, when the service is still subscribed.  A report nobody
\* waits for is kept, in the place of an earlier one.
ReportArrives(a) ==
  /\ subscribed
  /\ Receive(a, Reports)
  /\ heard' = [heard EXCEPT ![a] = Head(wire[a])]
  /\ \/ /\ a \notin pending
        /\ KeepEarly(a, Head(wire[a]))
        /\ UNCHANGED << phase, pending, timer, result >>
     \/ /\ a \in pending
        /\ Forget(a)
        /\ result' = [result EXCEPT ![a] = Head(wire[a])]
        /\ phase' = [phase EXCEPT ![a] = "resolved"]
        /\ UNCHANGED earlyReports
  /\ UNCHANGED << subscribed, deviceVars >>

ReportUnheard(a) ==
  /\ ~subscribed
  /\ Receive(a, Reports)
  /\ UNCHANGED << gatewayVars, deviceVars >>

ActionTimeout(a) ==
  /\ LoopIsFree
  /\ a \in timer
  /\ Forget(a)
  /\ phase' = [phase EXCEPT ![a] = "failed"]
  /\ UNCHANGED << earlyReports, result, heard, subscribed, deviceVars, wire >>

\* Without earlyReports.clear().
BadDestroy ==
  /\ subscribed
  /\ subscribed' = FALSE
  /\ timer' = timer \ pending
  /\ phase' = [a \in ActionIds |-> IF a \in pending THEN "failed" ELSE phase[a]]
  /\ pending' = {}
  /\ UNCHANGED << earlyReports, result, heard, deviceVars, wire >>

\* Without pending.reject().
BadDestroySilent ==
  /\ subscribed
  /\ subscribed' = FALSE
  /\ timer' = timer \ pending
  /\ pending' = {}
  /\ earlyReports' = [a \in ActionIds |-> "none"]
  /\ UNCHANGED << phase, result, heard, deviceVars, wire >>

\* onModuleDestroy.  Nest awaits its hooks, so this may come between an
\* acknowledgement and its continuation; the continuation still runs.
Destroy ==
  /\ subscribed
  /\ subscribed' = FALSE
  /\ timer' = timer \ pending
  /\ phase' = [a \in ActionIds |-> IF a \in pending THEN "failed" ELSE phase[a]]
  /\ pending' = {}
  /\ earlyReports' = [a \in ActionIds |-> "none"]
  /\ UNCHANGED << result, heard, deviceVars, wire >>

DeviceStep(a) ==
  DeviceSays(a) \/ DeviceIsSilent(a) \/ RequestLost(a) \/ PacketLost(a)

GatewayStep(a) ==
  \/ Dispatch(a) \/ AckArrives(a) \/ AckTimeout(a)
  \/ ConsumeEarlyReport(a) \/ WaitForReport(a)
  \/ ReportArrives(a) \/ ReportUnheard(a) \/ ActionTimeout(a)

Next == Destroy \/ \E a \in ActionIds : DeviceStep(a) \/ GatewayStep(a)

Spec == Init /\ [][Next]_vars

\* Due continuations run and armed timers fire.  The device and the
\* connection owe nothing.
Fairness ==
  \A a \in ActionIds :
    /\ WF_vars(ConsumeEarlyReport(a) \/ WaitForReport(a))
    /\ WF_vars(AckTimeout(a))
    /\ WF_vars(ActionTimeout(a))

FairSpec == Spec /\ Fairness

-------------------------------------------------------------------------------
(* Properties.                                                             *)

\* An action never starts to wait for a report that has already been
\* handled: dispatchAndWait and handleReport see each other's map entries
\* whichever comes first.  After onModuleDestroy no report will come anyway.
NoMissedReport == subscribed => \A a \in pending : heard[a] = "none"

\* What an action awaits can still be settled: by a report through its map
\* entry, or by its timer.  Neither outlives the action.
WaitersAreReachable ==
  \A a \in ActionIds :
    /\ phase[a] = "waiting" <=> a \in pending
    /\ phase[a] = "waiting" <=> a \in timer

\* A kept report is never one that a registered action waits for, and a
\* destroyed service keeps none.
EarlyReportsHaveNoWaiter ==
  \A a \in ActionIds :
    earlyReports[a] # "none" =>
      subscribed /\ a \notin pending /\ earlyReports[a] = heard[a]

\* An action resolves with the newest report that has been handled, also
\* when several arrived before it could wait.
ResolvesWithNewestReport ==
  [][\A a \in ActionIds : phase[a] # "resolved" /\ phase'[a] = "resolved" =>
        result'[a] = heard'[a] /\ heard'[a] # "none"]_vars

\* Every dispatched action is settled in the end, although the device may be
\* silent, the connection lossy and the service destroyed in the middle.
EveryActionSettles == \A a \in ActionIds : phase[a] = "dispatched" ~> Settled(a)

\* readme.md on report_result: the dispatch is answered first and the final
\* result follows asynchronously, and settles the action.
ResolvesWithFinalReport ==
  \A a \in ActionIds : phase[a] = "resolved" => result[a] = "final"

===============================================================================
