------------------------------ MODULE BrowserPage ------------------------------
(***************************************************************************)
(* The resource browser page of examples/nestjs_cct_explorer_module: the   *)
(* list of devices it polls (AppContext, App, DeviceList) and the table of *)
(* the directory it shows (FileBrowser, useFileBrowser, FileTable).  The   *)
(* page is one thread; what interleaves is the user's clicks, the timer    *)
(* and the answers of the gateway, which come in any order or fail.        *)
(*                                                                         *)
(* A step is an event with the renders and the effects that follow it.     *)
(* The entries of a table are abstracted to the place they were read from. *)
(* StrictMode, which runs effects twice in a development build, is not     *)
(* modelled.                                                               *)
(***************************************************************************)
EXTENDS Naturals, Functions

CONSTANTS
  Devices, Dirs,
  Places,      \* the directories of the devices
  None, Root,
  MaxPolls,    \* polls under way at once
  MaxRequests  \* loads and deletes under way at once

ASSUME BrowserPageAssumption ==
  /\ Places \subseteq Devices \X Dirs
  /\ None \notin Devices \cup Places /\ Root \notin Dirs \cup Places
  /\ None # Root
  /\ MaxPolls \in Nat /\ MaxRequests \in Nat

VARIABLES
  online,    \* the gateway's registered devices
  devices,   \* the devices listed
  polls,     \* GET devices under way, by the list the gateway answers
  device,    \* currentDevice
  dir,       \* currentPath; Root is null
  table,     \* entries: read from a place, the two of the Root, or None
  lastPath,  \* lastPathRef: the place, or None for null
  loading,
  outcome,   \* of the last load that lastPath stands for
  loads,     \* GET fs/dir under way, by place
  deletes    \* DELETE fs/file under way, by what was shown at the click

deviceVars == << online, devices, polls >>
tableVars == << table, lastPath, loading, outcome, loads >>
vars == << deviceVars, device, dir, tableVars, deletes >>

\* What the page says it shows.
Shown == << device, dir >>

ShownPlaces == Places \cup (Devices \X {Root})

TypeOK ==
  /\ online \in SUBSET Devices /\ devices \in SUBSET Devices
  /\ polls \in [SUBSET Devices -> Nat]
  /\ Shown \in ShownPlaces \cup {<< None, Root >>}
  /\ table \in Places \cup {Root, None}
  /\ lastPath \in Places \cup {None}
  /\ loading \in BOOLEAN
  /\ outcome \in {"none", "ok", "failed"}
  /\ loads \in [Places -> Nat]
  /\ deletes \in [ShownPlaces -> Nat]

Init ==
  /\ online \in SUBSET Devices /\ devices = {}
  /\ polls = [s \in SUBSET Devices |-> 0]
  /\ device = None /\ dir = Root
  /\ table = None /\ lastPath = None
  /\ loading = FALSE /\ outcome = "none"
  /\ loads = [x \in Places |-> 0]
  /\ deletes = [x \in ShownPlaces |-> 0]

UnderWay(requests) == FoldFunction(+, 0, requests)
Begin(requests, x) == [requests EXCEPT ![x] = @ + 1]
End(requests, x) == [requests EXCEPT ![x] = @ - 1]

-------------------------------------------------------------------------------
(* The effect of useFileBrowser, after a change of the device or the path. *)
(* Definitions called Bad... are what their neighbours would be with a     *)
(* plausible mistake; no specification uses them.                          *)

\* loadDir up to its await.
LoadDir(x) ==
  /\ lastPath' = x
  /\ loading' = TRUE
  /\ outcome' = "none"
  /\ loads' = Begin(loads, x)
  /\ UNCHANGED table

\* No device, or no path.  loading is left as it is.
ShowRoot(entries) ==
  /\ lastPath' = None
  /\ table' = entries
  /\ outcome' = "none"
  /\ UNCHANGED << loading, loads >>

-------------------------------------------------------------------------------
(* The list of devices.                                                    *)

\* Devices register and leave.
Registered(d) ==
  /\ online' = IF d \in online THEN online \ {d} ELSE online \cup {d}
  /\ UNCHANGED << devices, polls, device, dir, tableVars, deletes >>

\* refreshDevices, by the interval of a second or the button; it does not wait
\* for the poll before.
Poll ==
  /\ UnderWay(polls) < MaxPolls
  /\ polls' = Begin(polls, online)
  /\ UNCHANGED << online, devices, device, dir, tableVars, deletes >>

\* Taking an empty list for no answer.
BadPollArrives(s) ==
  /\ polls[s] > 0
  /\ polls' = End(polls, s)
  /\ devices' = IF s = {} THEN devices ELSE s
  /\ \/ device = None /\ s # {} /\ device' \in s /\ dir' = Root /\ ShowRoot(Root)
     \/ (device # None \/ s = {}) /\ UNCHANGED << device, dir, tableVars >>
  /\ UNCHANGED << online, deletes >>

\* setDevices, and the effect of AppContent: the first device listed is
\* selected, and none when there is none.  A selected device that is no longer
\* listed stays selected while others are.
PollArrives(s) ==
  /\ polls[s] > 0
  /\ polls' = End(polls, s)
  /\ devices' = s
  /\ \/ device = None /\ s # {} /\ device' \in s /\ dir' = Root /\ ShowRoot(Root)
     \/ device # None /\ s = {} /\ device' = None /\ dir' = Root /\ ShowRoot(None)
     \/ (device = None <=> s = {}) /\ UNCHANGED << device, dir, tableVars >>
  /\ UNCHANGED << online, deletes >>

PollFails(s) ==
  /\ polls[s] > 0
  /\ polls' = End(polls, s)
  /\ UNCHANGED << online, devices, device, dir, tableVars, deletes >>

-------------------------------------------------------------------------------
(* The user.                                                               *)

\* handleSelect of DeviceList.  Without a change of the device or the path no
\* effect runs.
SelectDevice(d) ==
  /\ d \in devices /\ Shown # << d, Root >>
  /\ device' = d /\ dir' = Root
  /\ ShowRoot(Root)
  /\ UNCHANGED << deviceVars, deletes >>

\* handleOpenDir: the two buttons, a row, the breadcrumbs.  Opening the
\* directory that is shown, as handleRefresh does, changes nothing and so runs
\* no effect.
OpenDir(p) ==
  /\ dir # p /\ << device, p >> \in Places
  /\ UnderWay(loads) + UnderWay(deletes) < MaxRequests
  /\ dir' = p
  /\ LoadDir(<< device, p >>)
  /\ UNCHANGED << deviceVars, device, deletes >>

\* The first of the breadcrumbs, or a row that is no path below the roots.
OpenRoot ==
  /\ device # None /\ dir # Root
  /\ dir' = Root
  /\ ShowRoot(Root)
  /\ UNCHANGED << deviceVars, device, deletes >>

\* handleDelete after the dialog, of a row of a table of files: the name is of the table, the
\* directory is what the page shows.
Delete ==
  /\ device # None /\ ~loading /\ table \in Places
  /\ UnderWay(loads) + UnderWay(deletes) < MaxRequests
  /\ deletes' = Begin(deletes, Shown)
  /\ UNCHANGED << deviceVars, device, dir, tableVars >>

-------------------------------------------------------------------------------
(* Answers.                                                                *)

\* Without the test of lastPathRef before setEntries.
BadLoadArrives(x) ==
  /\ loads[x] > 0
  /\ loads' = End(loads, x)
  /\ table' = x
  /\ IF lastPath = x THEN loading' = FALSE /\ outcome' = "ok"
                     ELSE UNCHANGED << loading, outcome >>
  /\ UNCHANGED << deviceVars, device, dir, lastPath, deletes >>

\* loadDir after its await.
LoadArrives(x) ==
  /\ loads[x] > 0
  /\ loads' = End(loads, x)
  /\ IF lastPath = x THEN table' = x /\ loading' = FALSE /\ outcome' = "ok"
                     ELSE UNCHANGED << table, loading, outcome >>
  /\ UNCHANGED << deviceVars, device, dir, lastPath, deletes >>

\* setLoading(false) after the await only, not in a finally.
BadLoadFails(x) ==
  /\ loads[x] > 0
  /\ loads' = End(loads, x)
  /\ outcome' = IF lastPath = x THEN "failed" ELSE outcome
  /\ UNCHANGED << deviceVars, device, dir, table, loading, lastPath, deletes >>

\* The table keeps its entries, whatever they are.
LoadFails(x) ==
  /\ loads[x] > 0
  /\ loads' = End(loads, x)
  /\ IF lastPath = x THEN loading' = FALSE /\ outcome' = "failed"
                     ELSE UNCHANGED << loading, outcome >>
  /\ UNCHANGED << deviceVars, device, dir, table, lastPath, deletes >>

\* Without `currentPath &&`.
BadRefresh(x) == LoadDir(x)

\* refresh of useFileBrowser.  At the root it does nothing.
Refresh(x) ==
  \/ x \in Places /\ LoadDir(x)
  \/ x \notin Places /\ UNCHANGED tableVars

\* handleDelete after its await: onRefresh is the function of the render the
\* click was in, and loads what was shown then.
DeleteDone(x) ==
  /\ deletes[x] > 0
  /\ deletes' = End(deletes, x)
  /\ Refresh(x)
  /\ UNCHANGED << deviceVars, device, dir >>

DeleteFails(x) ==
  /\ deletes[x] > 0
  /\ deletes' = End(deletes, x)
  /\ UNCHANGED << deviceVars, device, dir, tableVars >>

-------------------------------------------------------------------------------

Next ==
  \/ \E d \in Devices : Registered(d) \/ SelectDevice(d)
  \/ Poll
  \/ \E s \in SUBSET Devices : PollArrives(s) \/ PollFails(s)
  \/ \E p \in Dirs : OpenDir(p)
  \/ OpenRoot
  \/ Delete
  \/ \E x \in Places : LoadArrives(x) \/ LoadFails(x)
  \/ \E x \in ShownPlaces : DeleteDone(x) \/ DeleteFails(x)

Spec == Init /\ [][Next]_vars

\* The interval goes on, every request ends (the gateway's answer has a time
\* limit), and polls do not fail for ever.  Nothing is assumed of the user.
FairSpec ==
  /\ Spec
  /\ WF_vars(Poll)
  /\ \A s \in SUBSET Devices : WF_vars(PollArrives(s) \/ PollFails(s))
  /\ SF_vars(\E s \in SUBSET Devices : PollArrives(s))
  /\ \A x \in Places : WF_vars(LoadArrives(x) \/ LoadFails(x))

-------------------------------------------------------------------------------
(* Properties.                                                             *)

\* Answers that come late or in another order never put another directory's
\* entries under the path that is shown: once the load of the directory shown
\* has ended well, the table is that directory's, and at the root it is the
\* root's.  (lastPathRef; the refresh after a delete moves it elsewhere, and a
\* load that failed leaves the entries of before, both as the code has it.)
TableMatchesPath ==
  /\ dir # Root /\ lastPath = Shown /\ ~loading /\ outcome # "failed" => table = Shown
  /\ lastPath = None /\ device # None => dir = Root /\ table = Root

\* The spinner of a directory stands for a request that is under way: nothing
\* ends the request without ending the spinner, also when two requests of the
\* directory overlap.
SpinnerHasALoad == loading /\ lastPath # None => loads[lastPath] > 0

\* A directory the page is loading does not stay so: the spinner ends, or the
\* page turns to another directory.  (The finally of loadDir, for every answer
\* and every failure, in whatever order they come.)
SpinnerEnds ==
  \A x \in Places : loading /\ lastPath = x ~> ~loading \/ lastPath # x

\* When the devices no longer change, the list becomes theirs and stays so,
\* although polls overlap, fail, and are answered out of order.  (refreshDevices
\* takes whatever answer comes last.)
DeviceListConverges ==
  <>[][UNCHANGED online]_online => <>[](devices = online)
===============================================================================
