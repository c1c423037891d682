--------------------------- MODULE BrowserPageProofs ---------------------------
(***************************************************************************)
(* The invariants of BrowserPage, for every set of devices and directories *)
(* and every bound on the requests under way.                              *)
(***************************************************************************)
EXTENDS BrowserPage, TLAPS

\* A request that begins is counted once more, one that ends once less, and
\* the counts of the others stay.
LEMMA Counts ==
  ASSUME NEW S, NEW requests \in [S -> Nat], NEW x \in S
  PROVE  /\ Begin(requests, x) \in [S -> Nat]
         /\ Begin(requests, x)[x] = requests[x] + 1
         /\ requests[x] > 0 => End(requests, x) \in [S -> Nat]
         /\ \A y \in S : y # x => /\ Begin(requests, x)[y] = requests[y]
                                  /\ End(requests, x)[y] = requests[y]
  BY DEF Begin, End

\* The steps that change neither what is shown nor the table: the devices
\* come and go, polls begin and fail, deletes begin and fail.
Elsewhere == UNCHANGED << device, dir, tableVars >>

\* What every step does to what is shown and to the table: one of seven kinds.
TableStep ==
  \/ Elsewhere
  \/ \E e \in {Root, None} :
       /\ ShowRoot(e) /\ dir' = Root
       /\ \/ device' \in Devices /\ e = Root
          \/ device' = None /\ e = None
  \/ \E p \in Dirs : /\ dir' = p /\ device' = device
                     /\ << device, p >> \in Places /\ LoadDir(<< device, p >>)
  \/ \E x \in Places : LoadDir(x) /\ UNCHANGED << device, dir >>
  \/ \E x \in Places : /\ loads[x] > 0 /\ loads' = End(loads, x)
                       /\ UNCHANGED << device, dir, lastPath >>
                       /\ \/ /\ lastPath = x /\ table' = x
                             /\ loading' = FALSE /\ outcome' = "ok"
                          \/ /\ lastPath = x /\ UNCHANGED table
                             /\ loading' = FALSE /\ outcome' = "failed"
                          \/ /\ lastPath # x
                             /\ UNCHANGED << table, loading, outcome >>

\* Every step of the page is of one of those kinds.
LEMMA StepsOfTheTable == TypeOK /\ [Next]_vars => TableStep
<1> SUFFICES ASSUME TypeOK, [Next]_vars PROVE TableStep
  OBVIOUS
<1> USE DEF TableStep, Elsewhere
<1>1. ASSUME NEW d \in Devices, Registered(d) PROVE TableStep
  BY <1>1 DEF Registered
<1>2. ASSUME NEW d \in Devices, SelectDevice(d) PROVE TableStep
  BY <1>2 DEF SelectDevice
<1>3. CASE Poll
  BY <1>3 DEF Poll
<1>4. ASSUME NEW s \in SUBSET Devices, PollArrives(s) PROVE TableStep
  <2>1. CASE device = None /\ s # {} /\ device' \in s /\ dir' = Root /\ ShowRoot(Root)
    BY <2>1
  <2>2. CASE device # None /\ s = {} /\ device' = None /\ dir' = Root /\ ShowRoot(None)
    BY <2>2
  <2>3. CASE UNCHANGED << device, dir, tableVars >>
    BY <2>3
  <2> QED BY <1>4, <2>1, <2>2, <2>3 DEF PollArrives
<1>5. ASSUME NEW s \in SUBSET Devices, PollFails(s) PROVE TableStep
  BY <1>5 DEF PollFails
<1>6. ASSUME NEW p \in Dirs, OpenDir(p) PROVE TableStep
  BY <1>6 DEF OpenDir
<1>7. CASE OpenRoot
  <2>1. device \in Devices
    BY <1>7, BrowserPageAssumption DEF OpenRoot, TypeOK, Shown, ShownPlaces
  <2> QED BY <1>7, <2>1 DEF OpenRoot
<1>8. CASE Delete
  BY <1>8 DEF Delete
<1>9. ASSUME NEW x \in Places, LoadArrives(x) PROVE TableStep
  BY <1>9 DEF LoadArrives
<1>10. ASSUME NEW x \in Places, LoadFails(x) PROVE TableStep
  BY <1>10 DEF LoadFails
<1>11. ASSUME NEW x \in ShownPlaces, DeleteDone(x) PROVE TableStep
  BY <1>11 DEF DeleteDone, Refresh
<1>12. ASSUME NEW x \in ShownPlaces, DeleteFails(x) PROVE TableStep
  BY <1>12 DEF DeleteFails
<1>13. CASE UNCHANGED vars
  BY <1>13 DEF vars
<1> QED BY <1>1, <1>2, <1>3, <1>4, <1>5, <1>6, <1>7, <1>8, <1>9, <1>10, <1>11,
           <1>12, <1>13 DEF Next

\* The types of the device list and of the deletes under way.
ListTypes ==
  /\ online \in SUBSET Devices /\ devices \in SUBSET Devices
  /\ polls \in [SUBSET Devices -> Nat]
  /\ deletes \in [ShownPlaces -> Nat]

\* Steps keep the device list, the polls and the deletes well typed.
LEMMA ListTypesStep == TypeOK /\ [Next]_vars => ListTypes'
<1> SUFFICES ASSUME TypeOK, [Next]_vars PROVE ListTypes'
  OBVIOUS
<1> USE DEF TypeOK, ListTypes, deviceVars
<1>1. ASSUME NEW d \in Devices, Registered(d) PROVE ListTypes'
  BY <1>1 DEF Registered
<1>2. ASSUME NEW d \in Devices, SelectDevice(d) PROVE ListTypes'
  BY <1>2 DEF SelectDevice
<1>3. CASE Poll
  BY <1>3, Counts DEF Poll
<1>4. ASSUME NEW s \in SUBSET Devices, PollArrives(s) \/ PollFails(s) PROVE ListTypes'
  <2>1. polls' = End(polls, s) /\ polls[s] > 0
    BY <1>4 DEF PollArrives, PollFails
  <2>2. polls' \in [SUBSET Devices -> Nat]
    BY <2>1, Counts
  <2> QED BY <1>4, <2>2 DEF PollArrives, PollFails
<1>5. ASSUME NEW p \in Dirs, OpenDir(p) PROVE ListTypes'
  BY <1>5 DEF OpenDir
<1>6. CASE OpenRoot
  BY <1>6 DEF OpenRoot
<1>7. CASE Delete
  <2>1. Shown \in ShownPlaces
    BY <1>7 DEF Delete, Shown
  <2>2. deletes' \in [ShownPlaces -> Nat]
    BY <1>7, <2>1, Counts DEF Delete
  <2> QED BY <1>7, <2>2 DEF Delete
<1>8. ASSUME NEW x \in Places, LoadArrives(x) \/ LoadFails(x) PROVE ListTypes'
  BY <1>8 DEF LoadArrives, LoadFails
<1>9. ASSUME NEW x \in ShownPlaces, DeleteDone(x) \/ DeleteFails(x) PROVE ListTypes'
  <2>1. deletes' = End(deletes, x) /\ deletes[x] > 0
    BY <1>9 DEF DeleteDone, DeleteFails
  <2>2. deletes' \in [ShownPlaces -> Nat]
    BY <2>1, Counts
  <2> QED BY <1>9, <2>2 DEF DeleteDone, DeleteFails
<1>10. CASE UNCHANGED vars
  BY <1>10 DEF vars
<1> QED BY <1>1, <1>2, <1>3, <1>4, <1>5, <1>6, <1>7, <1>8, <1>9, <1>10 DEF Next
\* Steps keep what is shown, the table and the loads well typed.
LEMMA TableTypesStep ==
  TypeOK /\ TableStep =>
    /\ Shown' \in ShownPlaces \cup {<< None, Root >>}
    /\ table' \in Places \cup {Root, None}
    /\ lastPath' \in Places \cup {None}
    /\ loading' \in BOOLEAN
    /\ outcome' \in {"none", "ok", "failed"}
    /\ loads' \in [Places -> Nat]
<1> DEFINE Types ==
      /\ Shown \in ShownPlaces \cup {<< None, Root >>}
      /\ table \in Places \cup {Root, None}
      /\ lastPath \in Places \cup {None}
      /\ loading \in BOOLEAN
      /\ outcome \in {"none", "ok", "failed"}
      /\ loads \in [Places -> Nat]
<1> SUFFICES ASSUME TypeOK, TableStep PROVE Types'
  OBVIOUS
<1>0. Types
  BY DEF TypeOK
<1>1. CASE Elsewhere
  BY <1>0, <1>1 DEF Elsewhere, tableVars, Shown
<1>2. ASSUME NEW e \in {Root, None}, ShowRoot(e), dir' = Root,
             device' \in Devices \/ device' = None
      PROVE  Types'
  <2>1. Shown' \in ShownPlaces \cup {<< None, Root >>}
    BY <1>2 DEF Shown, ShownPlaces
  <2> QED BY <1>0, <1>2, <2>1 DEF ShowRoot
<1>3. ASSUME NEW x \in Places, LoadDir(x), Shown' \in ShownPlaces \cup {<< None, Root >>}
      PROVE  Types'
  BY <1>0, <1>3, Counts DEF LoadDir
<1>4. ASSUME NEW p \in Dirs, dir' = p, device' = device, << device, p >> \in Places,
             LoadDir(<< device, p >>)
      PROVE  Types'
  BY <1>3, <1>4 DEF Shown, ShownPlaces
<1>5. ASSUME NEW x \in Places, LoadDir(x), UNCHANGED << device, dir >>
      PROVE  Types'
  BY <1>0, <1>3, <1>5 DEF Shown
<1>6. ASSUME NEW x \in Places, loads[x] > 0, loads' = End(loads, x),
             UNCHANGED << device, dir, lastPath >>,
             table' \in {x, table}, loading' \in {FALSE, loading},
             outcome' \in {"ok", "failed", outcome}
      PROVE  Types'
  <2>1. loads' \in [Places -> Nat]
    BY <1>0, <1>6, Counts
  <2> QED BY <1>0, <1>6, <2>1 DEF Shown
<1> QED BY <1>1, <1>2, <1>4, <1>5, <1>6 DEF TableStep

\* The page starts well typed.
LEMMA InitTypes == Init => TypeOK
<1> SUFFICES ASSUME Init PROVE TypeOK
  OBVIOUS
<1>1. Shown \in ShownPlaces \cup {<< None, Root >>}
  BY DEF Init, Shown
<1>2. deletes \in [ShownPlaces -> Nat] /\ loads \in [Places -> Nat]
  BY DEF Init
<1>3. polls \in [SUBSET Devices -> Nat]
  BY DEF Init
<1> QED BY <1>1, <1>2, <1>3 DEF Init, TypeOK

\* The type invariant, for every device set and bound.
THEOREM BrowserPageTypeOK == Spec => []TypeOK
<1>1. Init => TypeOK
  BY InitTypes
<1>2. TypeOK /\ [Next]_vars => TypeOK'
  BY StepsOfTheTable, ListTypesStep, TableTypesStep DEF TypeOK, ListTypes
<1> QED BY <1>1, <1>2, PTL DEF Spec

-------------------------------------------------------------------------------

\* The two invariants of the table and its spinner, and the types they need.
PageInv == TypeOK /\ TableMatchesPath /\ SpinnerHasALoad

\* Steps keep the table that of the path, and the spinner with a load.
LEMMA TableInvStep == PageInv /\ TypeOK' /\ TableStep => (TableMatchesPath /\ SpinnerHasALoad)'
<1> SUFFICES ASSUME PageInv, TypeOK', TableStep
             PROVE  TableMatchesPath' /\ SpinnerHasALoad'
  OBVIOUS
<1> USE DEF PageInv, TableMatchesPath, SpinnerHasALoad
<1>0. None \notin Places /\ Root \notin Places /\ None # Root
  BY BrowserPageAssumption
<1>1. CASE Elsewhere
  BY <1>1 DEF Elsewhere, tableVars, Shown
<1>2. ASSUME NEW e \in {Root, None}, ShowRoot(e), dir' = Root,
             \/ device' \in Devices /\ e = Root
             \/ device' = None /\ e = None
      PROVE  TableMatchesPath' /\ SpinnerHasALoad'
  BY <1>2, BrowserPageAssumption DEF ShowRoot, Shown
<1>3. ASSUME NEW x \in Places, LoadDir(x)
      PROVE  TableMatchesPath' /\ SpinnerHasALoad'
  <2>1. loads \in [Places -> Nat]
    BY DEF TypeOK
  <2>2. loads'[x] = loads[x] + 1 /\ loads[x] \in Nat
    BY <1>3, <2>1, Counts DEF LoadDir
  <2> QED BY <1>0, <1>3, <2>2 DEF LoadDir
<1>4. ASSUME NEW x \in Places, loads[x] > 0, loads' = End(loads, x),
             UNCHANGED << device, dir, lastPath >>
      PROVE  /\ (lastPath = x /\ loading' = FALSE
                   /\ (table' = x \/ outcome' = "failed")
                     => TableMatchesPath' /\ SpinnerHasALoad')
             /\ (lastPath # x /\ UNCHANGED << table, loading, outcome >>
                     => TableMatchesPath' /\ SpinnerHasALoad')
  <2>1. ASSUME lastPath = x, loading' = FALSE, table' = x \/ outcome' = "failed"
        PROVE  TableMatchesPath' /\ SpinnerHasALoad'
    BY <1>0, <1>4, <2>1 DEF Shown
  <2>2. ASSUME lastPath # x, UNCHANGED << table, loading, outcome >>
        PROVE  TableMatchesPath' /\ SpinnerHasALoad'
    <3>1. TableMatchesPath'
      BY <1>4, <2>2 DEF Shown
    <3>2. SpinnerHasALoad'
      <4>1. loads \in [Places -> Nat] /\ lastPath \in Places \cup {None}
        BY DEF TypeOK
      <4>2. lastPath \in Places => loads'[lastPath] = loads[lastPath]
        BY <1>4, <2>2, <4>1, Counts
      <4> QED BY <1>4, <2>2, <4>1, <4>2
    <3> QED BY <3>1, <3>2
  <2> QED BY <2>1, <2>2
<1>5. ASSUME NEW p \in Dirs, << device, p >> \in Places, LoadDir(<< device, p >>)
      PROVE  TableMatchesPath' /\ SpinnerHasALoad'
  BY <1>3, <1>5
<1> QED BY <1>1, <1>2, <1>3, <1>4, <1>5 DEF TableStep

\* Every step keeps the invariant.
LEMMA PageInvariant == Spec => []PageInv
<1>1. Init => PageInv
  <2>1. Init => TypeOK
    BY InitTypes
  <2> QED BY <2>1, BrowserPageAssumption
      DEF Init, PageInv, TableMatchesPath, SpinnerHasALoad, Shown
<1>2. PageInv /\ [Next]_vars => PageInv'
  <2>1. PageInv /\ [Next]_vars => TypeOK'
    BY StepsOfTheTable, ListTypesStep, TableTypesStep DEF PageInv, TypeOK, ListTypes
  <2> QED BY <2>1, StepsOfTheTable, TableInvStep DEF PageInv
<1> QED BY <1>1, <1>2, PTL DEF Spec

\* The entries are those of the path shown once its load has ended well,
\* however many loads, deletes and changes of the device overlap.
THEOREM PageTableMatchesPath == Spec => []TableMatchesPath
<1>1. PageInv => TableMatchesPath
  BY DEF PageInv
<1> QED BY <1>1, PageInvariant, PTL

\* While the spinner of a directory is shown, a request for it is under way.
THEOREM PageSpinnerHasALoad == Spec => []SpinnerHasALoad
<1>1. PageInv => SpinnerHasALoad
  BY DEF PageInv
<1> QED BY <1>1, PageInvariant, PTL

===============================================================================
