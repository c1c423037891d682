--------------------------- MODULE DeviceQueuesProofs ---------------------------
(***************************************************************************)
(* The registry of the gateway and the ages of its cache, for any number   *)
(* of devices, connections and queries, and any time limits.               *)
(***************************************************************************)
EXTENDS DeviceQueues, TLAPS

\* Besides their types, a snapshot on its way is never older than its call.
CallsAreTyped ==
  /\ calls \in SUBSET Calls
  /\ \A c \in calls : c.taken # None => c.taken <= c.age

\* The part of the type invariant that speaks of the registry.
RegistryTypes ==
  /\ link \in [Sockets -> {"new", "open", "closed"}]
  /\ socketOf \in [Devices -> Sockets \cup {None}]
  /\ deviceOf \in [Sockets -> Devices \cup {None}]

QueuesInv ==
  /\ TypeOK /\ CallsAreTyped /\ RegistryIsExact /\ AgeIsHonest
  /\ RefreshFlagIsExact

-------------------------------------------------------------------------------
(* The registry.                                                           *)

\* A step keeps the two maps exact: a name that is taken over loses its old
\* connection first.
LEMMA RegistryStep ==
  TypeOK /\ RegistryIsExact /\ [Next]_vars => (RegistryTypes /\ RegistryIsExact)'
<1> SUFFICES ASSUME TypeOK, RegistryIsExact, [Next]_vars
             PROVE  RegistryTypes' /\ RegistryIsExact'
  OBVIOUS
<1> USE DeviceQueuesAssumption DEF TypeOK, RegistryTypes
<1>1. ASSUME UNCHANGED registryVars PROVE RegistryTypes' /\ RegistryIsExact'
  BY <1>1 DEF registryVars, RegistryIsExact
<1>2. ASSUME NEW s \in Sockets, Disconnect(s) PROVE RegistryTypes' /\ RegistryIsExact'
  <2>1. RegistryTypes'
    BY <1>2 DEF Disconnect
  <2>2. \A x \in Sockets : link'[x] = "open" <=> deviceOf'[x] # None
    BY <1>2 DEF Disconnect, RegistryIsExact
  <2>3. ASSUME NEW x \in Sockets, NEW d \in Devices
        PROVE  deviceOf'[x] = d <=> socketOf'[d] = x
    <3>1. socketOf'[d] = IF d = deviceOf[s] THEN None ELSE socketOf[d]
      BY <1>2 DEF Disconnect
    <3>2. deviceOf'[x] = IF x = s THEN None ELSE deviceOf[x]
      BY <1>2 DEF Disconnect
    <3> QED BY <3>1, <3>2 DEF RegistryIsExact
  <2> QED BY <2>1, <2>2, <2>3 DEF RegistryIsExact
<1>3. ASSUME NEW s \in Sockets, NEW d \in Devices, Connect(s, d)
      PROVE  RegistryTypes' /\ RegistryIsExact'
  <2>1. \A x \in Sockets :
          /\ link'[x] = CASE x = s -> "open" [] x = socketOf[d] -> "closed" [] OTHER -> link[x]
          /\ deviceOf'[x] = CASE x = s -> d [] x = socketOf[d] -> None [] OTHER -> deviceOf[x]
    BY <1>3 DEF Connect
  <2>2. socketOf' = [socketOf EXCEPT ![d] = s]
    BY <1>3 DEF Connect
  <2>3. deviceOf[s] = None
    BY <1>3 DEF Connect, RegistryIsExact
  <2>4. RegistryTypes'
    BY <1>3 DEF Connect
  <2>5. \A x \in Sockets : link'[x] = "open" <=> deviceOf'[x] # None
    BY <2>1, <2>3 DEF RegistryIsExact
  <2>6. ASSUME NEW x \in Sockets, NEW e \in Devices
        PROVE  deviceOf'[x] = e <=> socketOf'[e] = x
    <3>1. CASE x = s
      BY <2>1, <2>2, <2>3, <3>1 DEF RegistryIsExact
    <3>2. CASE x # s /\ x = socketOf[d]
      BY <2>1, <2>2, <3>2 DEF RegistryIsExact
    <3>3. CASE x # s /\ x # socketOf[d]
      BY <2>1, <2>2, <3>3 DEF RegistryIsExact
    <3> QED BY <3>1, <3>2, <3>3
  <2> QED BY <2>4, <2>5, <2>6 DEF RegistryIsExact
<1>4. CASE StartRefresh
  BY <1>1, <1>4 DEF StartRefresh
<1>5. ASSUME NEW d \in Devices, Query(d) PROVE UNCHANGED registryVars
  BY <1>5 DEF Query
<1>6. ASSUME NEW c \in calls, DeviceAnswers(c) \/ AnswerArrives(c) \/ CallTimesOut(c)
      PROVE  UNCHANGED registryVars
  BY <1>6 DEF DeviceAnswers, AnswerArrives, CallTimesOut, CallEnds
<1>7. CASE Tick
  BY <1>1, <1>7 DEF Tick
<1>8. CASE UNCHANGED vars
  BY <1>1, <1>8 DEF vars
<1> QED BY <1>1, <1>2, <1>3, <1>4, <1>5, <1>6, <1>7, <1>8 DEF Next

-------------------------------------------------------------------------------
(* The calls and the cache.                                                *)

\* The time limits are numbers.
LEMMA Limits == Horizon \in Nat /\ AckTimeout \in Nat /\ AckTimeout <= Horizon /\ 0 < AckTimeout
  BY DeviceQueuesAssumption DEF Horizon

\* A call that begins to a registered device is well typed, and its snapshot
\* has not been taken.
LEMMA NewCall ==
  ASSUME TypeOK, NEW d \in Registered, NEW p \in {"refresh", "query"}
  PROVE  Call(p, d) \in Calls /\ Call(p, d).taken = None
  BY Limits DEF Call, Calls, Registered, TypeOK

\* Calls stay well typed.
LEMMA CallsStep ==
  TypeOK /\ CallsAreTyped /\ [Next]_vars => CallsAreTyped' /\ refreshing' \in BOOLEAN
<1> SUFFICES ASSUME TypeOK, CallsAreTyped, [Next]_vars
             PROVE  CallsAreTyped' /\ refreshing' \in BOOLEAN
  OBVIOUS
<1>1. ASSUME calls' \subseteq calls PROVE CallsAreTyped'
  BY <1>1 DEF CallsAreTyped
<1>2. ASSUME NEW s \in Sockets, Disconnect(s) \/ \E d \in Devices : Connect(s, d)
      PROVE  CallsAreTyped' /\ refreshing' \in BOOLEAN
  BY <1>1, <1>2 DEF Disconnect, Connect, TypeOK
<1>3. CASE StartRefresh
  BY <1>3, NewCall DEF StartRefresh, CallsAreTyped
<1>4. ASSUME NEW d \in Devices, Query(d)
      PROVE  CallsAreTyped' /\ refreshing' \in BOOLEAN
  BY <1>4, NewCall DEF Query, CallsAreTyped, TypeOK
<1>5. ASSUME NEW c \in calls, DeviceAnswers(c)
      PROVE  CallsAreTyped' /\ refreshing' \in BOOLEAN
  <2>1. c \in Calls
    BY DEF CallsAreTyped
  <2>2. [c EXCEPT !.taken = 0] \in Calls
    BY <2>1, Limits DEF Calls
  <2>3. [c EXCEPT !.taken = 0].taken <= [c EXCEPT !.taken = 0].age
    BY <2>1, Limits DEF Calls
  <2> QED BY <1>5, <2>2, <2>3 DEF DeviceAnswers, CallsAreTyped, TypeOK
<1>6. ASSUME NEW c \in calls, AnswerArrives(c) \/ CallTimesOut(c)
      PROVE  CallsAreTyped' /\ refreshing' \in BOOLEAN
  BY <1>1, <1>6 DEF AnswerArrives, CallTimesOut, CallEnds, TypeOK
<1>7. CASE Tick
  <2>1. ASSUME NEW c \in calls
        PROVE  LET n == [c EXCEPT !.age = @ + 1,
                                  !.taken = IF @ = None THEN None ELSE @ + 1]
               IN  n \in Calls /\ (n.taken # None => n.taken <= n.age)
    <3>1. c \in Calls /\ c.age < AckTimeout /\ (c.taken # None => c.taken <= c.age)
      BY <1>7 DEF CallsAreTyped, Tick
    <3>2. c.age + 1 \in 0..AckTimeout
      BY <3>1, Limits DEF Calls
    <3>3. c.taken # None => c.taken + 1 \in 0..AckTimeout /\ c.taken + 1 <= c.age + 1
      BY <3>1, Limits DEF Calls
    <3> QED BY <3>1, <3>2, <3>3 DEF Calls
  <2> QED BY <1>7, <2>1 DEF Tick, CallsAreTyped, TypeOK
<1>8. CASE UNCHANGED vars
  BY <1>1, <1>8 DEF vars, TypeOK
<1> QED BY <1>2, <1>3, <1>4, <1>5, <1>6, <1>7, <1>8 DEF Next

\* What an entry may be, in one device's words.
Honest(e) ==
  e.state = "snapshot" => e.taken <= e.age + (IF QueryWritesCache THEN AckTimeout ELSE 0)

\* The entry an answer leaves in the cache is well typed and honest: its
\* snapshot was taken after the call began.
LEMMA AnswerIsHonest ==
  ASSUME CallsAreTyped, NEW c \in calls, c.taken # None,
         c.purpose = "refresh" \/ QueryWritesCache,
         NEW e, e = [state |-> "snapshot", age |-> UpdatedAge(c),
                     taken |-> c.taken, socket |-> c.socket]
  PROVE  e \in Entries /\ Honest(e)
<1>1. c \in Calls /\ c.taken <= c.age /\ c.taken \in 0..AckTimeout /\ c.age \in 0..AckTimeout
  BY DEF CallsAreTyped, Calls
<1>2. UpdatedAge(c) \in 0..AckTimeout
  BY <1>1, Limits DEF UpdatedAge
<1>3. e \in Entries
  BY <1>1, <1>2, Limits DEF Entries, Calls
<1>4. Honest(e)
  BY <1>1, Limits DEF Honest, UpdatedAge
<1> QED BY <1>3, <1>4

\* Time passes for an entry and its snapshot alike.
LEMMA AgeingIsHonest ==
  ASSUME NEW e \in Entries, Honest(e),
         NEW n, n = [e EXCEPT !.age = Older(@, Horizon), !.taken = Older(@, Horizon)]
  PROVE  n \in Entries /\ Honest(n)
<1>1. e.age \in 0..Horizon /\ e.taken \in 0..Horizon
  BY DEF Entries
<1>2. n.state = e.state /\ n.age = Older(e.age, Horizon) /\ n.taken = Older(e.taken, Horizon)
  BY DEF Entries
<1>3. n \in Entries
  <2>1. Older(e.age, Horizon) \in 0..Horizon /\ Older(e.taken, Horizon) \in 0..Horizon
    BY <1>1, Limits DEF Older
  <2> QED BY <2>1 DEF Entries
<1>4. Honest(n)
  BY <1>1, <1>2, Limits DEF Honest, Older
<1> QED BY <1>3, <1>4

\* The cache stays well typed and honest.
LEMMA CacheStep ==
  ASSUME TypeOK, CallsAreTyped, AgeIsHonest, [Next]_vars
  PROVE  cache' \in [Devices -> Entries] /\ AgeIsHonest'
<1> DEFINE Good == cache \in [Devices -> Entries] /\ \A d \in Devices : Honest(cache[d])
<1>0. Good
  BY DEF TypeOK, AgeIsHonest, Honest
<1> SUFFICES Good'
  BY DEF AgeIsHonest, Honest
<1>1. ASSUME UNCHANGED cache PROVE Good'
  BY <1>0, <1>1
<1>2. ASSUME NEW c \in calls, NEW e, CallEnds(c, e),
             c.purpose = "refresh" \/ QueryWritesCache => e \in Entries /\ Honest(e)
      PROVE  Good'
  BY <1>0, <1>2 DEF CallEnds
<1>3. ASSUME NEW c \in calls, AnswerArrives(c) PROVE Good'
  BY <1>2, <1>3, AnswerIsHonest DEF AnswerArrives
<1>4. ASSUME NEW c \in calls, CallTimesOut(c) PROVE Good'
  <2> DEFINE e == [state |-> "error", age |-> UpdatedAge(c), taken |-> Horizon,
                   socket |-> c.socket]
  <2>1. c \in Calls
    BY DEF CallsAreTyped
  <2>2. UpdatedAge(c) \in 0..Horizon
    BY <2>1, Limits DEF UpdatedAge, Calls
  <2>3. e \in Entries /\ Honest(e)
    BY <2>1, <2>2, Limits DEF Entries, Calls, Honest
  <2> QED BY <1>2, <1>4, <2>3 DEF CallTimesOut
<1>5. CASE Tick
  <2>1. ASSUME NEW d \in Devices PROVE cache'[d] \in Entries /\ Honest(cache'[d])
    BY <1>0, <1>5, AgeingIsHonest DEF Tick
  <2> QED BY <1>5, <2>1 DEF Tick
<1>6. ASSUME NEW s \in Sockets, Disconnect(s) \/ \E d \in Devices : Connect(s, d)
      PROVE  Good'
  BY <1>1, <1>6 DEF Disconnect, Connect
<1>7. ASSUME StartRefresh \/ \E d \in Devices : Query(d) PROVE Good'
  BY <1>1, <1>7 DEF StartRefresh, Query
<1>8. ASSUME NEW c \in calls, DeviceAnswers(c) PROVE Good'
  BY <1>1, <1>8 DEF DeviceAnswers
<1>9. CASE UNCHANGED vars
  BY <1>1, <1>9 DEF vars
<1> QED BY <1>3, <1>4, <1>5, <1>6, <1>7, <1>8, <1>9 DEF Next

\* The flag follows the refresh calls: they begin together when it goes up, and
\* neither an answer nor the clock nor a query makes one of them or ends one.
LEMMA RefreshFlagStep ==
  ASSUME TypeOK, CallsAreTyped, RefreshFlagIsExact, [Next]_vars
  PROVE  RefreshFlagIsExact'
<1> USE DEF RefreshFlagIsExact
<1>1. ASSUME UNCHANGED << calls, refreshing >> PROVE RefreshFlagIsExact'
  BY <1>1 DEF RefreshCalls
<1>2. ASSUME NEW s \in Sockets, Disconnect(s) \/ \E d \in Devices : Connect(s, d)
      PROVE  RefreshFlagIsExact'
  BY <1>1, <1>2 DEF Disconnect, Connect
<1>3. CASE StartRefresh
  <2>1. PICK d \in Registered : TRUE
    BY <1>3 DEF StartRefresh
  <2>2. Call("refresh", d) \in RefreshCalls'
    BY <1>3 DEF StartRefresh, RefreshCalls, Call
  <2> QED BY <1>3, <2>2 DEF StartRefresh
<1>4. ASSUME NEW d \in Devices, Query(d) PROVE RefreshFlagIsExact'
  <2>1. RefreshCalls' = RefreshCalls
    BY <1>4 DEF Query, RefreshCalls, Call
  <2> QED BY <1>4, <2>1 DEF Query
<1>5. ASSUME NEW c \in calls, DeviceAnswers(c) PROVE RefreshFlagIsExact'
  <2>1. [c EXCEPT !.taken = 0].purpose = c.purpose
    BY DEF CallsAreTyped, Calls
  <2>2. RefreshCalls' = {} <=> RefreshCalls = {}
    BY <1>5, <2>1 DEF DeviceAnswers, RefreshCalls
  <2> QED BY <1>5, <2>2 DEF DeviceAnswers
<1>6. ASSUME NEW c \in calls, AnswerArrives(c) \/ CallTimesOut(c)
      PROVE  RefreshFlagIsExact'
  <2>1. RefreshCalls' = RefreshCalls \ {c} /\ refreshing' = (refreshing /\ RefreshCalls # {c})
    BY <1>6 DEF AnswerArrives, CallTimesOut, CallEnds, RefreshCalls
  <2> QED BY <2>1
<1>7. CASE Tick
  <2> DEFINE older(c) == [c EXCEPT !.age = @ + 1,
                                   !.taken = IF @ = None THEN None ELSE @ + 1]
  <2>1. \A c \in calls : older(c).purpose = c.purpose
    BY DEF CallsAreTyped, Calls
  <2>2. calls' = {older(c) : c \in calls}
    BY <1>7 DEF Tick
  <2> HIDE DEF older
  <2>3. RefreshCalls' = {} <=> RefreshCalls = {}
    BY <2>1, <2>2 DEF RefreshCalls
  <2> QED BY <1>7, <2>3 DEF Tick
<1>8. CASE UNCHANGED vars
  BY <1>1, <1>8 DEF vars
<1> QED BY <1>2, <1>3, <1>4, <1>5, <1>6, <1>7, <1>8 DEF Next

-------------------------------------------------------------------------------

\* The gateway starts with the invariant.
LEMMA QueuesInit == Init => QueuesInv
<1> SUFFICES ASSUME Init PROVE QueuesInv
  OBVIOUS
<1>1. NoEntry \in Entries
  BY Limits DEF NoEntry, Entries
<1> QED BY <1>1, DeviceQueuesAssumption
    DEF Init, QueuesInv, TypeOK, CallsAreTyped, RegistryIsExact, AgeIsHonest, NoEntry,
        RefreshFlagIsExact, RefreshCalls

\* Every step keeps the invariant.
LEMMA QueuesStep == QueuesInv /\ [Next]_vars => QueuesInv'
  BY RegistryStep, CallsStep, CacheStep, RefreshFlagStep
  DEF QueuesInv, TypeOK, RegistryTypes, CallsAreTyped

\* The invariant holds.
LEMMA QueuesInvariant == Spec => []QueuesInv
  BY QueuesInit, QueuesStep, PTL DEF Spec

\* The type invariant of the registry, the calls and the cache.
THEOREM DeviceQueuesTypeOK == Spec => []TypeOK
<1>1. QueuesInv => TypeOK
  BY DEF QueuesInv
<1> QED BY <1>1, QueuesInvariant, PTL

\* The two maps are exact, however devices come, go and take names over.
THEOREM DeviceQueuesRegistry == Spec => []RegistryIsExact
<1>1. QueuesInv => RegistryIsExact
  BY DEF QueuesInv
<1> QED BY <1>1, QueuesInvariant, PTL

\* No entry of either cache claims to be younger than it may, for any limits.
THEOREM DeviceQueuesAges == Spec => []AgeIsHonest
<1>1. QueuesInv => AgeIsHonest
  BY DEF QueuesInv
<1> QED BY <1>1, QueuesInvariant, PTL

\* The flag of a refresh is never stuck, for any devices, queries and limits.
THEOREM DeviceQueuesRefreshFlag == Spec => []RefreshFlagIsExact
<1>1. QueuesInv => RefreshFlagIsExact
  BY DEF QueuesInv
<1> QED BY <1>1, QueuesInvariant, PTL

-------------------------------------------------------------------------------
(* The order of the refreshes, where only they write the cache.            *)

\* The calls of a refresh all began with it, and no entry is younger than that.
RefreshOrder ==
  /\ \A b, c \in RefreshCalls : b.age = c.age
  /\ \A c \in RefreshCalls :
       cache[c.device].state # "none" => c.age <= cache[c.device].age

OrderInv == QueuesInv /\ RefreshOrder

\* A call that ends leaves the others in order: an entry it writes is as old as
\* the refresh.
LEMMA CallEndsInOrder ==
  ASSUME QueryWritesCache = FALSE, OrderInv, NEW c \in calls, NEW e, CallEnds(c, e),
         c.purpose = "refresh" => e.age = c.age
  PROVE  /\ RefreshOrder'
         /\ \A d \in Devices :
              cache[d].state # "none" => cache'[d].age <= cache[d].age
<1> USE DEF OrderInv, QueuesInv
<1>1. RefreshCalls' = RefreshCalls \ {c}
  BY DEF CallEnds, RefreshCalls
<1>2. \A a, b \in RefreshCalls' : a.age = b.age
  BY <1>1 DEF RefreshOrder
<1>3. CASE c.purpose = "refresh"
  <2>1. c \in RefreshCalls /\ c.device \in Devices /\ c.age \in Nat
    BY <1>3, Limits DEF RefreshCalls, CallsAreTyped, Calls
  <2>2. cache' = [cache EXCEPT ![c.device] = e] /\ e.age = c.age
    BY <1>3 DEF CallEnds
  <2>3. ASSUME NEW b \in RefreshCalls', cache'[b.device].state # "none"
        PROVE  b.age <= cache'[b.device].age
    <3>1. b \in RefreshCalls /\ b.age = c.age /\ b.device \in Devices
      BY <1>1, <2>1 DEF RefreshOrder, RefreshCalls, CallsAreTyped, Calls
    <3> QED BY <2>1, <2>2, <2>3, <3>1 DEF RefreshOrder, TypeOK
  <2>4. ASSUME NEW d \in Devices, cache[d].state # "none"
        PROVE  cache'[d].age <= cache[d].age
    <3>1. cache[d].age \in Nat
      BY Limits DEF TypeOK, Entries
    <3> QED BY <2>1, <2>2, <2>4, <3>1 DEF RefreshOrder, TypeOK
  <2> QED BY <1>2, <2>3, <2>4 DEF RefreshOrder
<1>4. CASE c.purpose # "refresh"
  <2>1. cache' = cache
    BY <1>4 DEF CallEnds
  <2>2. \A d \in Devices : cache[d].age \in Nat
    BY Limits DEF TypeOK, Entries
  <2> QED BY <1>1, <1>2, <2>1, <2>2 DEF RefreshOrder
<1> QED BY <1>3, <1>4

\* Every step keeps the order, and all but the passing of time keep or lower
\* the ages in the cache.
LEMMA OrderStep ==
  ASSUME QueryWritesCache = FALSE, OrderInv, [Next]_vars
  PROVE  /\ RefreshOrder'
         /\ ~Tick => \A d \in Devices :
              cache[d].state # "none" => cache'[d].age <= cache[d].age
<1> DEFINE NotBack == \A d \in Devices :
                        cache[d].state # "none" => cache'[d].age <= cache[d].age
<1> USE DEF OrderInv, QueuesInv
<1>0. \A d \in Devices : cache[d].age \in 0..Horizon
  BY DEF TypeOK, Entries
<1>1. ASSUME UNCHANGED cache PROVE NotBack
  BY <1>0, <1>1, Limits
<1>2. ASSUME UNCHANGED << calls, cache >> PROVE RefreshOrder' /\ NotBack
  BY <1>1, <1>2 DEF RefreshOrder, RefreshCalls
<1>3. ASSUME NEW s \in Sockets, Disconnect(s) \/ \E d \in Devices : Connect(s, d)
      PROVE  RefreshOrder' /\ NotBack
  BY <1>2, <1>3 DEF Disconnect, Connect
<1>4. CASE StartRefresh
  <2>1. RefreshCalls = {} /\ UNCHANGED cache
    BY <1>4 DEF StartRefresh, RefreshFlagIsExact
  <2>2. RefreshCalls' = {Call("refresh", d) : d \in Registered}
    BY <1>4, <2>1 DEF StartRefresh, RefreshCalls, Call
  <2>3. \A c \in RefreshCalls' : c.age = 0 /\ c.device \in Devices
    BY <2>2 DEF Call, Registered
  <2>4. RefreshOrder'
    BY <1>0, <2>1, <2>3, Limits DEF RefreshOrder
  <2> QED BY <1>1, <2>1, <2>4
<1>5. ASSUME NEW d \in Devices, Query(d) PROVE RefreshOrder' /\ NotBack
  <2>1. RefreshCalls' = RefreshCalls
    BY <1>5 DEF Query, RefreshCalls, Call
  <2> QED BY <1>1, <1>5, <2>1 DEF Query, RefreshOrder
<1>6. ASSUME NEW c \in calls, DeviceAnswers(c) PROVE RefreshOrder' /\ NotBack
  <2> DEFINE n == [c EXCEPT !.taken = 0]
  <2>1. n.purpose = c.purpose /\ n.age = c.age /\ n.device = c.device
    BY DEF CallsAreTyped, Calls
  <2>2. RefreshCalls' = IF c \in RefreshCalls THEN (RefreshCalls \ {c}) \cup {n}
                                              ELSE RefreshCalls
    BY <1>6, <2>1 DEF DeviceAnswers, RefreshCalls
  <2>3. UNCHANGED cache
    BY <1>6 DEF DeviceAnswers
  <2>4. RefreshOrder'
    BY <2>1, <2>2, <2>3 DEF RefreshOrder
  <2> QED BY <1>1, <2>3, <2>4
<1>7. ASSUME NEW c \in calls, AnswerArrives(c) PROVE RefreshOrder' /\ NotBack
  BY <1>7, CallEndsInOrder DEF AnswerArrives, UpdatedAge
<1>8. ASSUME NEW c \in calls, CallTimesOut(c) PROVE RefreshOrder' /\ NotBack
  BY <1>8, CallEndsInOrder DEF CallTimesOut, UpdatedAge
<1>9. ASSUME Tick PROVE RefreshOrder'
  <2> DEFINE older(c) == [c EXCEPT !.age = @ + 1,
                                   !.taken = IF @ = None THEN None ELSE @ + 1]
  <2>1. ASSUME NEW c \in calls
        PROVE  /\ older(c).age = c.age + 1 /\ c.age \in Nat
               /\ c.age < AckTimeout
               /\ older(c).device = c.device /\ older(c).purpose = c.purpose
               /\ c.device \in Devices
    <3>1. c \in Calls
      BY DEF CallsAreTyped
    <3>2. c.age < AckTimeout
      BY <1>9 DEF Tick
    <3> QED BY <3>1, <3>2, Limits DEF Calls
  <2>2. RefreshCalls' = {older(c) : c \in RefreshCalls}
    BY <1>9, <2>1 DEF Tick, RefreshCalls
  <2>3. \A d \in Devices : /\ cache'[d].state = cache[d].state
                           /\ cache'[d].age = Older(cache[d].age, Horizon)
    BY <1>9 DEF Tick, TypeOK, Entries
  <2>4. ASSUME NEW b \in RefreshCalls, NEW c \in RefreshCalls
        PROVE  older(b).age = older(c).age
    <3>1. b.age = c.age /\ b \in calls /\ c \in calls
      BY DEF RefreshOrder, RefreshCalls
    <3> QED BY <2>1, <3>1
  <2>5. ASSUME NEW c \in RefreshCalls, cache'[older(c).device].state # "none"
        PROVE  older(c).age <= cache'[older(c).device].age
    <3>1. c \in calls /\ c.device \in Devices
      BY <2>1 DEF RefreshCalls
    <3>2. c.age <= cache[c.device].age /\ cache[c.device].age \in 0..Horizon
      BY <1>0, <2>1, <2>3, <2>5, <3>1 DEF RefreshOrder
    <3>3. c.age + 1 <= Older(cache[c.device].age, Horizon)
      BY <2>1, <3>1, <3>2, Limits DEF Older
    <3> QED BY <2>1, <2>3, <3>1, <3>3
  <2>6. \A c \in RefreshCalls' :
          cache'[c.device].state # "none" => c.age <= cache'[c.device].age
    BY <2>2, <2>5
  <2>7. \A b, c \in RefreshCalls' : b.age = c.age
    BY <2>2, <2>4
  <2> QED BY <2>6, <2>7 DEF RefreshOrder
<1>10. CASE UNCHANGED vars
  BY <1>2, <1>10 DEF vars
<1> QED BY <1>3, <1>4, <1>5, <1>6, <1>7, <1>8, <1>9, <1>10 DEF Next

\* In the NestJS cache an entry is never replaced by one that was asked for
\* earlier, for any number of devices and any limits.
THEOREM NestCacheNeverGoesBack ==
  ASSUME QueryWritesCache = FALSE PROVE Spec => CacheNeverGoesBack
<1>1. Init => OrderInv
  BY QueuesInit DEF Init, OrderInv, RefreshOrder, RefreshCalls
<1>2. OrderInv /\ [Next]_vars => OrderInv'
  BY QueuesStep, OrderStep DEF OrderInv
<1>3. OrderInv /\ [Next]_vars =>
        [~Tick => \A d \in Devices :
            cache[d].state # "none" => cache'[d].age <= cache[d].age]_vars
  BY OrderStep
<1> QED BY <1>1, <1>2, <1>3, PTL DEF Spec, CacheNeverGoesBack
===============================================================================
