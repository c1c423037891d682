----------------------------- MODULE ActionsProofs -----------------------------
(***************************************************************************)
(* The invariants of Actions, for any set of actions and any number of     *)
(* progress reports.                                                       *)
(***************************************************************************)
EXTENDS Actions, SequenceTheorems, TLAPS

Packets == Reports \cup {"accepted", "overflow"}

\* A packet is appended, taken from the front, or lost from the middle: what is
\* left is a sequence of packets.
LEMMA WireSeq ==
  ASSUME NEW s \in Seq(Packets)
  PROVE  /\ \A p \in Packets : Append(s, p) \in Seq(Packets)
         /\ s # << >> => Tail(s) \in Seq(Packets) /\ Head(s) \in Packets
         /\ \A i \in 1..Len(s) : RemoveAt(s, i) \in Seq(Packets)
<1>1. ASSUME NEW i \in 1..Len(s) PROVE RemoveAt(s, i) \in Seq(Packets)
  <2>1. i - 1 \in Int /\ i + 1 \in Int /\ i - 1 <= Len(s) /\ 1 <= i + 1 /\ 1 \in Int
        /\ Len(s) \in Int /\ 1 <= i
    OBVIOUS
  <2>2. SubSeq(s, 1, i - 1) \in Seq(Packets)
    BY <2>1, SubSeqProperties
  <2>3. SubSeq(s, i + 1, Len(s)) \in Seq(Packets)
    BY <2>1, SubSeqProperties
  <2> QED BY <2>2, <2>3, ConcatProperties DEF RemoveAt
<1> QED BY <1>1

\* The wire after any of the steps that touch it.
LEMMA WireStep ==
  ASSUME wire \in [ActionIds -> Seq(Packets)], NEW a \in ActionIds
  PROVE  /\ \A p \in Packets : Send(a, p) => wire' \in [ActionIds -> Seq(Packets)]
         /\ \A ps : Receive(a, ps) => /\ wire' \in [ActionIds -> Seq(Packets)]
                                      /\ Head(wire[a]) \in Packets \cap ps
         /\ PacketLost(a) => wire' \in [ActionIds -> Seq(Packets)]
<1>1. wire[a] \in Seq(Packets)
  OBVIOUS
<1>2. ASSUME NEW p \in Packets, Send(a, p) PROVE wire' \in [ActionIds -> Seq(Packets)]
  BY <1>1, <1>2, WireSeq DEF Send
<1>3. ASSUME NEW ps, Receive(a, ps)
      PROVE  wire' \in [ActionIds -> Seq(Packets)] /\ Head(wire[a]) \in Packets \cap ps
  BY <1>1, <1>3, WireSeq DEF Receive
<1>4. ASSUME PacketLost(a) PROVE wire' \in [ActionIds -> Seq(Packets)]
  <2>1. PICK i \in 1..Len(wire[a]) : wire' = [wire EXCEPT ![a] = RemoveAt(@, i)]
    BY <1>4 DEF PacketLost
  <2>2. RemoveAt(wire[a], i) \in Seq(Packets)
    BY <1>1, WireSeq
  <2> QED BY <2>1, <2>2
<1> QED BY <1>2, <1>3, <1>4

\* What the device does to its job and its reports.
LEMMA DeviceTypeStep ==
  ASSUME job \in [ActionIds -> Device!JobStates], reports \in [ActionIds -> 0..MaxReports],
         MaxReports \in Nat, NEW a \in ActionIds,
         \/ Device!Accept(a) \/ Device!Refuse(a) \/ Device!Report(a)
         \/ Device!ReportFinal(a) \/ Device!EndSilently(a)
  PROVE  job' \in [ActionIds -> Device!JobStates] /\ reports' \in [ActionIds -> 0..MaxReports]
BY DEF Device!Accept, Device!Refuse, Device!Report, Device!ReportFinal, Device!EndSilently,
       Device!Becomes, Device!JobStates

-------------------------------------------------------------------------------

\* Every step keeps the types.
LEMMA TypeStep == TypeOK /\ [Next]_vars => TypeOK'
<1> SUFFICES ASSUME TypeOK, [Next]_vars PROVE TypeOK'
  OBVIOUS
<1> USE DEF TypeOK, gatewayVars, deviceVars
<1>0. wire \in [ActionIds -> Seq(Packets)] /\ MaxReports \in Nat
  BY ActionsAssumption DEF Packets
<1>1. CASE Destroy
  BY <1>1 DEF Destroy, Phases, ReportOrNone
<1>2. ASSUME NEW a \in ActionIds, DeviceSays(a) PROVE TypeOK'
  <2>1. wire' \in [ActionIds -> Seq(Packets)]
    BY <1>0, <1>2, WireStep DEF DeviceSays, Packets, Reports
  <2>2. job' \in [ActionIds -> Device!JobStates] /\ reports' \in [ActionIds -> 0..MaxReports]
    BY <1>0, <1>2, DeviceTypeStep DEF DeviceSays
  <2> QED BY <1>2, <2>1, <2>2 DEF DeviceSays, Packets
<1>3. ASSUME NEW a \in ActionIds, DeviceIsSilent(a) PROVE TypeOK'
  <2>1. job' \in [ActionIds -> Device!JobStates] /\ reports' \in [ActionIds -> 0..MaxReports]
    BY <1>0, <1>3, DeviceTypeStep DEF DeviceIsSilent
  <2> QED BY <1>3, <2>1 DEF DeviceIsSilent
<1>5. ASSUME NEW a \in ActionIds, RequestLost(a) PROVE TypeOK'
  BY <1>5 DEF RequestLost, Device!JobStates
<1>6. ASSUME NEW a \in ActionIds, PacketLost(a) PROVE TypeOK'
  <2>1. wire' \in [ActionIds -> Seq(Packets)]
    BY <1>0, <1>6, WireStep
  <2> QED BY <1>6, <2>1 DEF PacketLost, Packets
<1>7. ASSUME NEW a \in ActionIds, Dispatch(a) PROVE TypeOK'
  BY <1>7 DEF Dispatch, Phases, Device!JobStates
<1>8. ASSUME NEW a \in ActionIds, AckArrives(a) PROVE TypeOK'
  <2>1. wire' \in [ActionIds -> Seq(Packets)]
    BY <1>0, <1>8, WireStep DEF AckArrives
  <2>2. phase' \in [ActionIds -> Phases]
    BY <1>8 DEF AckArrives, Phases
  <2> QED BY <1>8, <2>1, <2>2 DEF AckArrives, Packets
<1>9. ASSUME NEW a \in ActionIds, AckTimeout(a) PROVE TypeOK'
  BY <1>9 DEF AckTimeout, Phases
<1>10. ASSUME NEW a \in ActionIds, ConsumeEarlyReport(a) PROVE TypeOK'
  BY <1>10 DEF ConsumeEarlyReport, Phases, ReportOrNone
<1>11. ASSUME NEW a \in ActionIds, WaitForReport(a) PROVE TypeOK'
  BY <1>11 DEF WaitForReport, Phases
<1>12. ASSUME NEW a \in ActionIds, ReportArrives(a) PROVE TypeOK'
  <2>1. wire' \in [ActionIds -> Seq(Packets)] /\ Head(wire[a]) \in ReportOrNone
    BY <1>0, <1>12, WireStep DEF ReportArrives, ReportOrNone
  <2>2. phase' \in [ActionIds -> Phases] /\ pending' \in SUBSET ActionIds
        /\ timer' \in SUBSET ActionIds
    BY <1>12 DEF ReportArrives, Phases, Forget
  <2>3. earlyReports' \in [ActionIds -> ReportOrNone]
        /\ result' \in [ActionIds -> ReportOrNone] /\ heard' \in [ActionIds -> ReportOrNone]
    BY <1>12, <2>1 DEF ReportArrives, KeepEarly
  <2> QED BY <1>12, <2>1, <2>2, <2>3 DEF ReportArrives, Packets
<1>13. ASSUME NEW a \in ActionIds, ReportUnheard(a) PROVE TypeOK'
  <2>1. wire' \in [ActionIds -> Seq(Packets)]
    BY <1>0, <1>13, WireStep DEF ReportUnheard
  <2> QED BY <1>13, <2>1 DEF ReportUnheard, Packets
<1>14. ASSUME NEW a \in ActionIds, ActionTimeout(a) PROVE TypeOK'
  BY <1>14 DEF ActionTimeout, Forget, Phases
<1>15. CASE UNCHANGED vars
  BY <1>15 DEF vars
<1> QED BY <1>1, <1>2, <1>3, <1>5, <1>6, <1>7, <1>8, <1>9, <1>10, <1>11, <1>12,
           <1>13, <1>14, <1>15 DEF Next, DeviceStep, GatewayStep

\* The type invariant of the actions.
THEOREM ActionsTypeOK == Spec => []TypeOK
<1>1. Init => TypeOK
  BY ActionsAssumption DEF Init, TypeOK, Phases, ReportOrNone, Device!JobStates
<1>2. TypeOK /\ [Next]_vars => TypeOK'
  BY TypeStep
<1> QED BY <1>1, <1>2, PTL DEF Spec

-------------------------------------------------------------------------------

\* What ties the map of early reports to the reports that were handled: until
\* an action is resolved, the last one is kept, and nothing else is.
EarlyReportIsTheLast ==
  subscribed => \A a \in ActionIds :
                  phase[a] # "resolved" => earlyReports[a] = heard[a]

\* The inductive invariant.
ActionsInv ==
  /\ TypeOK
  /\ NoMissedReport /\ WaitersAreReachable /\ EarlyReportsHaveNoWaiter
  /\ EarlyReportIsTheLast

\* The steps that touch only the device and the wire.
LEMMA DeviceStepsAreElsewhere ==
  ASSUME NEW a \in ActionIds, DeviceStep(a) \/ ReportUnheard(a)
  PROVE  UNCHANGED gatewayVars
  BY DEF DeviceStep, DeviceSays, DeviceIsSilent, RequestLost, PacketLost, ReportUnheard

\* Every step keeps the inductive invariant.
LEMMA ActionsInvStep == ActionsInv /\ [Next]_vars => ActionsInv'
<1> SUFFICES ASSUME ActionsInv, [Next]_vars PROVE ActionsInv'
  OBVIOUS
<1>0. TypeOK'
  BY TypeStep DEF ActionsInv
<1> DEFINE Inv == /\ NoMissedReport /\ WaitersAreReachable
                  /\ EarlyReportsHaveNoWaiter /\ EarlyReportIsTheLast
<1> SUFFICES Inv'
  BY <1>0 DEF ActionsInv
<1> USE DEF ActionsInv, NoMissedReport, WaitersAreReachable, EarlyReportsHaveNoWaiter,
            EarlyReportIsTheLast
<1>1. CASE UNCHANGED gatewayVars
  BY <1>1 DEF gatewayVars
<1>2. CASE Destroy
  BY <1>2 DEF Destroy, TypeOK
<1>3. ASSUME NEW a \in ActionIds, Dispatch(a) PROVE Inv'
  BY <1>3 DEF Dispatch, TypeOK
<1>4. ASSUME NEW a \in ActionIds, AckArrives(a) PROVE Inv'
  <2>1. /\ \A b \in ActionIds \ {a} : phase'[b] = phase[b]
        /\ phase'[a] = "waiting" <=> phase[a] = "waiting"
        /\ phase'[a] = "resolved" <=> phase[a] = "resolved"
    BY <1>4 DEF AckArrives, TypeOK
  <2>2. UNCHANGED << pending, timer, earlyReports, heard, subscribed >>
    BY <1>4 DEF AckArrives
  <2> QED BY <2>1, <2>2
<1>5. ASSUME NEW a \in ActionIds, AckTimeout(a) PROVE Inv'
  BY <1>5 DEF AckTimeout, TypeOK
<1>6. ASSUME NEW a \in ActionIds, ConsumeEarlyReport(a) PROVE Inv'
  BY <1>6 DEF ConsumeEarlyReport, TypeOK
<1>7. ASSUME NEW a \in ActionIds, WaitForReport(a) PROVE Inv'
  BY <1>7 DEF WaitForReport, TypeOK
<1>8. ASSUME NEW a \in ActionIds, ReportArrives(a) PROVE Inv'
  <2>1. CASE a \notin pending
    BY <1>8, <2>1 DEF ReportArrives, KeepEarly, TypeOK
  <2>2. CASE a \in pending
    BY <1>8, <2>2 DEF ReportArrives, Forget, TypeOK
  <2> QED BY <2>1, <2>2
<1>9. ASSUME NEW a \in ActionIds, ActionTimeout(a) PROVE Inv'
  BY <1>9 DEF ActionTimeout, Forget, TypeOK
<1> QED BY <1>1, <1>2, <1>3, <1>4, <1>5, <1>6, <1>7, <1>8, <1>9, DeviceStepsAreElsewhere
        DEF Next, GatewayStep, vars, gatewayVars

\* The inductive invariant holds.
LEMMA ActionsInvariant == Spec => []ActionsInv
<1>1. Init => ActionsInv
  <2>1. Init => TypeOK
    BY ActionsAssumption DEF Init, TypeOK, Phases, ReportOrNone, Device!JobStates
  <2> QED BY <2>1 DEF Init, ActionsInv, NoMissedReport, WaitersAreReachable,
                      EarlyReportsHaveNoWaiter, EarlyReportIsTheLast
<1>2. ActionsInv /\ [Next]_vars => ActionsInv'
  BY ActionsInvStep
<1> QED BY <1>1, <1>2, PTL DEF Spec

\* No action waits for a report that the service has handled already, for any
\* number of actions and reports.
THEOREM ActionsMissNoReport == Spec => []NoMissedReport
<1>1. ActionsInv => NoMissedReport
  BY DEF ActionsInv
<1> QED BY <1>1, ActionsInvariant, PTL

\* Every waiting action has its map entry and its timer, and nothing else has.
THEOREM ActionsWaitersAreReachable == Spec => []WaitersAreReachable
<1>1. ActionsInv => WaitersAreReachable
  BY DEF ActionsInv
<1> QED BY <1>1, ActionsInvariant, PTL

\* A kept report is the newest one of an action that nobody waits for.
THEOREM ActionsEarlyReports == Spec => []EarlyReportsHaveNoWaiter
<1>1. ActionsInv => EarlyReportsHaveNoWaiter
  BY DEF ActionsInv
<1> QED BY <1>1, ActionsInvariant, PTL

\* A step that resolves an action gives it the newest report handled: only two
\* steps resolve one.
LEMMA ResolvingStep ==
  ASSUME ActionsInv, [Next]_vars,
         NEW a \in ActionIds, phase[a] # "resolved", phase'[a] = "resolved"
  PROVE  result'[a] = heard'[a] /\ heard'[a] # "none"
<1> USE DEF ActionsInv, TypeOK
<1>1. CASE UNCHANGED gatewayVars
  BY <1>1 DEF gatewayVars
<1>2. CASE Destroy
  BY <1>2 DEF Destroy
<1>3. ASSUME NEW b \in ActionIds, ConsumeEarlyReport(b)
      PROVE  result'[a] = heard'[a] /\ heard'[a] # "none"
  BY <1>3 DEF ConsumeEarlyReport, EarlyReportsHaveNoWaiter
<1>4. ASSUME NEW b \in ActionIds, ReportArrives(b)
      PROVE  result'[a] = heard'[a] /\ heard'[a] # "none"
  <2>1. CASE b \notin pending
    BY <1>4, <2>1 DEF ReportArrives
  <2>2. CASE b \in pending
    <3>1. Head(wire[b]) # "none"
      BY <1>4 DEF ReportArrives, Receive, Reports
    <3> QED BY <1>4, <2>2, <3>1 DEF ReportArrives
  <2> QED BY <2>1, <2>2
<1>5. ASSUME NEW b \in ActionIds,
             Dispatch(b) \/ AckTimeout(b) \/ WaitForReport(b) \/ ActionTimeout(b)
      PROVE  FALSE
  BY <1>5 DEF Dispatch, AckTimeout, WaitForReport, ActionTimeout
<1>6. ASSUME NEW b \in ActionIds, AckArrives(b) PROVE FALSE
  <2>1. phase'[b] = phase[b] \/ phase'[b] \in {"acked", "failed"}
    BY <1>6 DEF AckArrives
  <2> QED BY <1>6, <2>1 DEF AckArrives
<1> QED BY <1>1, <1>2, <1>3, <1>4, <1>5, <1>6, DeviceStepsAreElsewhere
        DEF Next, GatewayStep, vars, gatewayVars

\* However many reports come before the action can wait, it resolves with the
\* newest.
THEOREM ActionsResolveWithNewest == Spec => ResolvesWithNewestReport
<1>1. ActionsInv /\ [Next]_vars =>
        [\A a \in ActionIds : phase[a] # "resolved" /\ phase'[a] = "resolved" =>
            result'[a] = heard'[a] /\ heard'[a] # "none"]_vars
  BY ResolvingStep
<1> QED BY <1>1, ActionsInvariant, PTL DEF Spec, ResolvesWithNewestReport
===============================================================================
