----------------------------- MODULE DeviceQueues -----------------------------
(***************************************************************************)
(* The gateway's side of many devices: which socket a device name stands   *)
(* for (registerDevice and unregisterDevice, the same in examples/express  *)
(* and in examples/nestjs) and the cache of the devices' script queues     *)
(* (refreshAllDeviceQueues and /api/scripts/queue in examples/express,     *)
(* DeviceQueueCacheService and scripts/queue in the NestJS explorer).      *)
(*                                                                         *)
(* The two caches differ in one thing: an HTTP query the cache cannot      *)
(* answer asks the device, and the Express server stores the answer.       *)
(*                                                                         *)
(* There is no clock: an entry's `age` is Date.now() - updatedAt, and      *)
(* `taken` is how long ago the device made the snapshot, which no code     *)
(* knows.  Both matter up to Horizon only.  emitWithAck's promise and what *)
(* awaits it settle in one step, the callback's; timers are punctual.      *)
(***************************************************************************)
EXTENDS Naturals, FiniteSets

CONSTANTS Devices,           \* device names
          Sockets,           \* connections ever made
          None,
          FreshFor,          \* an entry younger than this is served
          AckTimeout,        \* SOCKET_ACK_TIMEOUT_MS
          QueryWritesCache,  \* TRUE for examples/express
          MaxQueries         \* bound: HTTP queries waiting for a device

ASSUME DeviceQueuesAssumption ==
  /\ FreshFor \in Nat /\ AckTimeout \in Nat \ {0} /\ MaxQueries \in Nat
  /\ QueryWritesCache \in BOOLEAN
  /\ None \notin Devices \cup Sockets

Horizon == FreshFor + AckTimeout

VARIABLES
  link,        \* each connection: "new", "open" or "closed"
  socketOf,    \* deviceNameToSocket
  deviceOf,    \* socketIdToDeviceName
  refreshing,  \* isRefreshingQueues, or this.refreshing
  calls,       \* script_queue requests that are neither answered nor timed out
  cache        \* deviceQueues, or this.cache

registryVars == << link, socketOf, deviceOf >>
vars == << registryVars, refreshing, calls, cache >>

\* A call's `taken` is the age of the snapshot on its way, None before.
Calls == [purpose : {"refresh", "query"}, device : Devices, socket : Sockets,
          age : 0..AckTimeout, taken : (0..AckTimeout) \cup {None}]

\* An entry's `socket` is the connection that was asked for it.
Entries == [state : {"none", "snapshot", "error"}, age : 0..Horizon,
            taken : 0..Horizon, socket : Sockets \cup {None}]

TypeOK ==
  /\ link \in [Sockets -> {"new", "open", "closed"}]
  /\ socketOf \in [Devices -> Sockets \cup {None}]
  /\ deviceOf \in [Sockets -> Devices \cup {None}]
  /\ refreshing \in BOOLEAN
  /\ calls \in SUBSET Calls
  /\ cache \in [Devices -> Entries]

NoEntry == [state |-> "none", age |-> Horizon, taken |-> Horizon, socket |-> None]

Init ==
  /\ link = [s \in Sockets |-> "new"]
  /\ socketOf = [d \in Devices |-> None]
  /\ deviceOf = [s \in Sockets |-> None]
  /\ refreshing = FALSE
  /\ calls = {}
  /\ cache = [d \in Devices |-> NoEntry]

Registered == {d \in Devices : socketOf[d] # None}

-------------------------------------------------------------------------------
(* The registry.  Definitions called Bad... are what their neighbours      *)
(* would be with a plausible mistake; no specification uses them.          *)

\* The old socket disconnected after the new one is in the map: its
\* 'disconnect' handler deletes the name.
BadConnect(s, d) ==
  /\ link[s] = "new"
  /\ LET old == socketOf[d] IN
       /\ link' = [x \in Sockets |-> CASE x = s -> "open"
                                       [] x = old -> "closed"
                                       [] OTHER -> link[x]]
       /\ deviceOf' = [x \in Sockets |-> CASE x = s -> d
                                           [] x = old -> None
                                           [] OTHER -> deviceOf[x]]
       /\ socketOf' = [socketOf EXCEPT ![d] = IF old = None THEN s ELSE None]
  /\ UNCHANGED << refreshing, calls, cache >>

\* 'connection': registerDevice first disconnects the socket that has the
\* name; that socket's 'disconnect' handler, unregisterDevice, runs at once.
Connect(s, d) ==
  /\ link[s] = "new"
  /\ LET old == socketOf[d] IN
       /\ link' = [x \in Sockets |-> CASE x = s -> "open"
                                       [] x = old -> "closed"
                                       [] OTHER -> link[x]]
       /\ deviceOf' = [x \in Sockets |-> CASE x = s -> d
                                           [] x = old -> None
                                           [] OTHER -> deviceOf[x]]
  /\ socketOf' = [socketOf EXCEPT ![d] = s]
  /\ UNCHANGED << refreshing, calls, cache >>

\* 'disconnect': unregisterDevice.
Disconnect(s) ==
  /\ link[s] = "open"
  /\ link' = [link EXCEPT ![s] = "closed"]
  /\ deviceOf' = [deviceOf EXCEPT ![s] = None]
  /\ socketOf' = [d \in Devices |-> IF d = deviceOf[s] THEN None ELSE socketOf[d]]
  /\ UNCHANGED << refreshing, calls, cache >>

-------------------------------------------------------------------------------
(* Requests to the devices.                                                *)

Call(purpose, d) == [purpose |-> purpose, device |-> d, socket |-> socketOf[d],
                     age |-> 0, taken |-> None]

RefreshCalls == {c \in calls : c.purpose = "refresh"}

\* Without the look at isRefreshingQueues.
BadStartRefresh ==
  /\ Registered # {}
  /\ refreshing' = TRUE
  /\ calls' = calls \cup {Call("refresh", d) : d \in Registered}
  /\ UNCHANGED << registryVars, cache >>

\* The interval.  With no device connected the refresh ends as it starts.
StartRefresh ==
  /\ ~refreshing
  /\ Registered # {}
  /\ refreshing' = TRUE
  /\ calls' = calls \cup {Call("refresh", d) : d \in Registered}
  /\ UNCHANGED << registryVars, cache >>

ServedFromCache(d) == cache[d].state = "snapshot" /\ cache[d].age < FreshFor

\* Without the 404 for a device that is not connected.
BadQuery(d) ==
  /\ ~ServedFromCache(d)
  /\ Cardinality(calls \ RefreshCalls) < MaxQueries
  /\ calls' = calls \cup {Call("query", d)}
  /\ UNCHANGED << registryVars, refreshing, cache >>

\* An HTTP query the cache does not answer.
Query(d) ==
  /\ d \in Registered
  /\ ~ServedFromCache(d)
  /\ Cardinality(calls \ RefreshCalls) < MaxQueries
  /\ calls' = calls \cup {Call("query", d)}
  /\ UNCHANGED << registryVars, refreshing, cache >>

\* The device handles script_queue and answers (not under this component).
DeviceAnswers(c) ==
  /\ c.taken = None
  /\ link[c.socket] = "open"
  /\ calls' = (calls \ {c}) \cup {[c EXCEPT !.taken = 0]}
  /\ UNCHANGED << registryVars, refreshing, cache >>

\* A refresh stamps its entries with the time at which they arrive.
BadUpdatedAge(c) == 0

\* How old updatedAt is: the refresh uses the time at which it began, the
\* query of the Express server the time at which the answer came.
UpdatedAge(c) == IF c.purpose = "refresh" THEN c.age ELSE 0

\* refreshing is set back only when every device answered.
BadCallEnds(c, entry) ==
  /\ calls' = calls \ {c}
  /\ refreshing' = (refreshing /\ (RefreshCalls # {c} \/ entry.state = "error"))
  /\ cache' = IF c.purpose = "refresh" \/ QueryWritesCache
              THEN [cache EXCEPT ![c.device] = entry]
              ELSE cache
  /\ UNCHANGED registryVars

\* A call is over; the last one of a refresh ends the refresh.
CallEnds(c, entry) ==
  /\ calls' = calls \ {c}
  /\ refreshing' = (refreshing /\ RefreshCalls # {c})
  /\ cache' = IF c.purpose = "refresh" \/ QueryWritesCache
              THEN [cache EXCEPT ![c.device] = entry]
              ELSE cache
  /\ UNCHANGED registryVars

\* emitWithAck's callback.  The entry belongs to the name, whoever has it now.
AnswerArrives(c) ==
  /\ c.taken # None
  /\ link[c.socket] = "open"
  /\ CallEnds(c, [state |-> "snapshot", age |-> UpdatedAge(c),
                  taken |-> c.taken, socket |-> c.socket])

\* A failure keeps the snapshot of the entry it replaces.
BadCallTimesOut(c) ==
  /\ c.age = AckTimeout
  /\ CallEnds(c, [cache[c.device] EXCEPT !.age = UpdatedAge(c),
                                         !.socket = c.socket])

\* emitWithAck's timer: also what ends a call whose connection is closed.
CallTimesOut(c) ==
  /\ c.age = AckTimeout
  /\ CallEnds(c, [state |-> "error", age |-> UpdatedAge(c),
                  taken |-> Horizon, socket |-> c.socket])

Older(age, limit) == IF age < limit THEN age + 1 ELSE limit

Tick ==
  /\ \A c \in calls : c.age < AckTimeout
  /\ calls' = {[c EXCEPT !.age = @ + 1,
                         !.taken = IF @ = None THEN None ELSE @ + 1] : c \in calls}
  /\ cache' = [d \in Devices |-> [cache[d] EXCEPT !.age = Older(@, Horizon),
                                                  !.taken = Older(@, Horizon)]]
  /\ UNCHANGED << registryVars, refreshing >>

Next ==
  \/ \E s \in Sockets : Disconnect(s) \/ \E d \in Devices : Connect(s, d)
  \/ StartRefresh
  \/ \E d \in Devices : Query(d)
  \/ \E c \in calls : DeviceAnswers(c) \/ AnswerArrives(c) \/ CallTimesOut(c)
  \/ Tick

Spec == Init /\ [][Next]_vars

\* The interval fires, time passes, timers fire.  Devices owe no answer.
Fairness ==
  /\ WF_vars(StartRefresh)
  /\ WF_vars(Tick)
  /\ WF_vars(\E c \in calls : CallTimesOut(c))

FairSpec == Spec /\ Fairness

-------------------------------------------------------------------------------
(* Properties.                                                             *)

\* The two maps are each other's inverse and hold exactly the open
\* connections, also after a device connected again before its old
\* connection was seen to close (registerDevice, unregisterDevice).
RegistryIsExact ==
  /\ \A s \in Sockets : link[s] = "open" <=> deviceOf[s] # None
  /\ \A s \in Sockets, d \in Devices : deviceOf[s] = d <=> socketOf[d] = s

\* The flag that keeps a second refresh from starting is up exactly while the
\* first has calls to wait for, so that it cannot stay up for ever, whatever
\* queries, connections and time limits do in between.
RefreshFlagIsExact == refreshing <=> RefreshCalls # {}

\* An entry's updatedAt does not make the snapshot look younger than it is
\* in the NestJS cache, and by no more than one acknowledgement timeout in
\* the Express server, whatever is answered, delayed or asked in between.
AgeIsHonest ==
  \A d \in Devices :
    cache[d].state = "snapshot" =>
      cache[d].taken <= cache[d].age + (IF QueryWritesCache THEN AckTimeout ELSE 0)

\* Where only refreshes write the cache, and one runs at a time, an entry is
\* never replaced by one that was asked for earlier.  (An Express query that
\* is answered during a refresh is replaced by the refresh's older entry.)
CacheNeverGoesBack ==
  [][~Tick => \A d \in Devices :
        cache[d].state # "none" => cache'[d].age <= cache[d].age]_vars

\* readme.md: the gateway fetches every device's queue periodically.  While a
\* connection lasts, its device's entry is in the end always that connection's,
\* a snapshot or an error, and renewed again and again: the answer to a closed
\* connection's call may overwrite it only for a while (cache.set by name),
\* and no silent device or time limit stops the refreshes.
EveryDeviceIsPolled ==
  \A d \in Devices, s \in Sockets :
    <>[](socketOf[d] = s) => /\ <>[](cache[d].socket = s)
                             /\ []<>(cache[d].age <= AckTimeout)

===============================================================================
