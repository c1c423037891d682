------------------------ MODULE RunnerRefinementProofs ------------------------
(***************************************************************************)
(* Runner implements ScriptQueue, for every number of jobs, capacity,      *)
(* interval and number of suspended saves: each step of the runner is, by  *)
(* the mapping of RunnerRefinement, a step of the abstract queue or none.  *)
(***************************************************************************)
EXTENDS RunnerRefinement, RunnerProofs

-------------------------------------------------------------------------------
(* A sequence with one more element in front.                              *)

\* The job in hand in front of the queue, and what is done to the queue then.
LEMMA InFront ==
  ASSUME NEW S, NEW x \in S, NEW q \in Seq(S)
  PROVE  /\ << x >> \o q \in Seq(S) /\ << x >> \o q # << >>
         /\ Len(<< x >> \o q) = Len(q) + 1
         /\ Head(<< x >> \o q) = x /\ Tail(<< x >> \o q) = q
         /\ \A i \in 1..Len(q) : (<< x >> \o q)[i + 1] = q[i]
<1> DEFINE c == << x >> \o q
<1>1. << x >> \in Seq(S) /\ Len(<< x >>) = 1 /\ << x >>[1] = x
  OBVIOUS
<1>2. Len(q) \in Nat
  BY LenProperties
<1>3. /\ c \in Seq(S) /\ Len(c) = 1 + Len(q)
      /\ \A i \in 1..(1 + Len(q)) : c[i] = IF i <= 1 THEN << x >>[i] ELSE q[i - 1]
  BY <1>1, ConcatProperties
<1> HIDE DEF c
<1>4. c # << >> /\ Head(c) = x
  BY <1>1, <1>2, <1>3
<1>5. \A i \in 1..Len(q) : c[i + 1] = q[i]
  BY <1>2, <1>3
<1>6. Tail(c) = q
  <2>1. Tail(c) \in Seq(S) /\ Len(Tail(c)) = Len(q) /\ \A i \in 1..Len(q) : Tail(c)[i] = c[i + 1]
    BY <1>2, <1>3, <1>4, HeadTailProperties
  <2> QED BY <1>5, <2>1, SeqEqual
<1> QED BY <1>2, <1>3, <1>4, <1>5, <1>6 DEF c

\* Pushing behind the job in hand.
LEMMA AppendInFront ==
  ASSUME NEW S, NEW x \in S, NEW q \in Seq(S), NEW n \in S
  PROVE  << x >> \o Append(q, n) = Append(<< x >> \o q, n)
<1>1. << x >> \in Seq(S) /\ << n >> \in Seq(S)
  OBVIOUS
<1>2. (<< x >> \o q) \o << n >> = << x >> \o (q \o << n >>)
  BY <1>1, ConcatAssociative
<1>3. << x >> \o q \in Seq(S)
  BY InFront
<1> QED BY <1>2, <1>3, AppendIsConcat

\* Removing behind the job in hand.
LEMMA RemoveInFront ==
  ASSUME NEW S, NEW x \in S, NEW q \in Seq(S), NEW i \in 1..Len(q)
  PROVE  << x >> \o RemoveAt(q, i) = RemoveAt(<< x >> \o q, i + 1)
<1> DEFINE c == << x >> \o q
           r == RemoveAt(q, i)
<1>1. Len(q) \in Nat /\ i \in 1..Len(q) /\ i \in Int
  BY LenProperties
<1>2. c \in Seq(S) /\ Len(c) = Len(q) + 1 /\ c[1] = x /\ \A k \in 1..Len(q) : c[k + 1] = q[k]
  BY InFront
<1>3. /\ r \in Seq(S) /\ Len(r) = Len(q) - 1
      /\ \A k \in 1..(Len(q) - 1) : r[k] = IF k < i THEN q[k] ELSE q[k + 1]
  BY RemoveAtProperties
<1> HIDE DEF c, r
<1>4. /\ << x >> \o r \in Seq(S) /\ Len(<< x >> \o r) = Len(q)
      /\ (<< x >> \o r)[1] = x /\ \A k \in 1..(Len(q) - 1) : (<< x >> \o r)[k + 1] = r[k]
  BY <1>1, <1>3, InFront
<1>5. /\ RemoveAt(c, i + 1) \in Seq(S) /\ Len(RemoveAt(c, i + 1)) = Len(q)
      /\ \A k \in 1..Len(q) :
           RemoveAt(c, i + 1)[k] = IF k < i + 1 THEN c[k] ELSE c[k + 1]
  <2>1. i + 1 \in 1..Len(c)
    BY <1>1, <1>2
  <2>2. /\ RemoveAt(c, i + 1) \in Seq(S) /\ Len(RemoveAt(c, i + 1)) = Len(c) - 1
        /\ \A k \in 1..(Len(c) - 1) :
             RemoveAt(c, i + 1)[k] = IF k < i + 1 THEN c[k] ELSE c[k + 1]
    BY <1>2, <2>1, RemoveAtProperties
  <2>3. Len(c) - 1 = Len(q)
    BY <1>1, <1>2
  <2> QED BY <2>2, <2>3
<1>6. ASSUME NEW k \in 1..Len(q)
      PROVE  (<< x >> \o r)[k] = RemoveAt(c, i + 1)[k]
  <2>1. CASE k = 1
    BY <1>1, <1>2, <1>4, <1>5, <2>1
  <2>2. CASE k # 1
    <3>1. k - 1 \in 1..(Len(q) - 1) /\ k = (k - 1) + 1
      BY <1>1, <2>2
    <3>2. (<< x >> \o r)[k] = r[k - 1]
      BY <1>4, <3>1
    <3>3. c[k] = q[k - 1] /\ c[k + 1] = q[k]
      BY <1>1, <1>2, <3>1
    <3>4. r[k - 1] = IF k - 1 < i THEN q[k - 1] ELSE q[k]
      BY <1>3, <3>1
    <3>5. RemoveAt(c, i + 1)[k] = IF k < i + 1 THEN q[k - 1] ELSE q[k]
      BY <1>5, <3>3
    <3>6. k - 1 < i <=> k < i + 1
      BY <1>1
    <3> QED BY <3>2, <3>4, <3>5, <3>6
  <2> QED BY <2>1, <2>2
<1>7. << x >> \o r = RemoveAt(c, i + 1)
  BY <1>4, <1>5, <1>6, SeqEqual
<1> QED BY <1>7 DEF c, r

\* Taking a job in hand: it is in front of what is left.
LEMMA HeadInFront ==
  ASSUME NEW S, NEW q \in Seq(S), q # << >>
  PROVE  << Head(q) >> \o Tail(q) = q
<1>1. /\ Head(q) \in S /\ Tail(q) \in Seq(S) /\ Len(Tail(q)) = Len(q) - 1
      /\ \A i \in 1..Len(Tail(q)) : Tail(q)[i] = q[i + 1]
  BY HeadTailProperties
<1>2. Len(q) \in Nat \ {0} /\ Head(q) = q[1]
  BY EmptySeq, LenProperties
<1> DEFINE c == << Head(q) >> \o Tail(q)
<1>3. /\ c \in Seq(S) /\ Len(c) = Len(q) /\ c[1] = Head(q)
      /\ \A i \in 1..Len(Tail(q)) : c[i + 1] = Tail(q)[i]
  BY <1>1, <1>2, InFront
<1> HIDE DEF c
<1>4. ASSUME NEW i \in 1..Len(q) PROVE c[i] = q[i]
  <2>1. CASE i = 1
    BY <1>2, <1>3, <2>1
  <2>2. CASE i # 1
    <3>1. i - 1 \in 1..Len(Tail(q)) /\ i = (i - 1) + 1
      BY <1>1, <1>2, <2>2
    <3> QED BY <1>1, <1>3, <3>1
  <2> QED BY <2>1, <2>2
<1>5. c = q
  BY <1>3, <1>4, SeqEqual
<1> QED BY <1>5 DEF c

-------------------------------------------------------------------------------
(* Steps.                                                                  *)

\* The types of the mapped queue.
LEMMA WaitingIsSeq ==
  ASSUME IInv
  PROVE  /\ queue \in Seq(Jobs) /\ Len(queue) \in Nat
         /\ drain = "sleep" => jobToRun \in Jobs
         /\ waitingBar \in Seq(Jobs)
         /\ Len(waitingBar) = IF drain = "sleep" THEN Len(queue) + 1 ELSE Len(queue)
<1>1. queue \in Seq(Jobs) /\ Len(queue) \in Nat /\ (drain = "sleep" => jobToRun \in Jobs)
  BY LenProperties DEF IInv, TypeOK, DrainInv
<1> QED BY <1>1, InFront DEF waitingBar

\* A job that was removed from the queue never got a thread, so no handler
\* will ever settle it.
UndoneInv == \A j \in undone : thread[j] = "none"

LEMMA UndoneStep ==
  ASSUME IInv, UndoneInv, [Next]_vars
  PROVE  UndoneInv'
<1>0. /\ undone \subseteq Jobs /\ WorkerTypeOK /\ thread \in [Jobs -> ThreadStates]
      /\ \A k \in Jobs : WorkerInv(k)
  BY DEF IInv, TypeOK, WorkerTypeOK, ThreadInv
\* A step of a worker's thread or handlers.
<1>1. ASSUME NEW j \in Jobs, LateStep(j), undone' = undone PROVE UndoneInv'
  BY <1>0, <1>1, LateStepWindsDown DEF UndoneInv
\* A step that starts at most a job that was not undone.
<1>2. ASSUME NEW j \in Jobs, Untouched(j), StartJob(j) \/ UNCHANGED workerVars,
             undone' = undone
      PROVE  UndoneInv'
  <2>1. thread' = thread \/ thread' = [thread EXCEPT ![j] = "running"]
    BY <1>2 DEF StartJob, Run, RunThrows, workerVars
  <2> QED BY <1>0, <1>2, <2>1 DEF UndoneInv, Untouched
<1>3. ASSUME NEW i \in 1..Len(queue), InterruptQueued(i) PROVE UndoneInv'
  <2>1. queue[i] \in Jobs /\ Queued(queue[i])
    <3>1. queue[i] \in Jobs
      BY SeqOfJobs DEF IInv, TypeOK
    <3> QED BY <3>1 DEF Queued, Contains
  <2>2. thread[queue[i]] = "none"
    BY <2>1 DEF IInv, PlaceInv, Untouched, NotStarted
  <2> QED BY <1>3, <2>2 DEF UndoneInv, InterruptQueued, workerVars
<1>4. CASE DrainTakes
  BY <1>2, <1>4, DrainTakesHead DEF DrainTakes
<1>5. CASE SleepDone
  BY <1>2, <1>5 DEF SleepDone, IInv, PlaceInv, DrainInv
<1>6. ASSUME NEW j \in Jobs, HandleWorkerEvent(j) \/ ScriptThread(j) PROVE UndoneInv'
  BY <1>1, <1>6 DEF HandleWorkerEvent, ScriptThread, LateStep, runnerVars
<1>7. CASE InterruptRunning
  <2>1. worker \in Jobs
    BY <1>7 DEF InterruptRunning, IInv, TypeOK
  <2> QED BY <1>1, <1>7, <2>1 DEF InterruptRunning, LateStep, runnerVars
<1>8. CASE ExecWire \/ ExecInline \/ SaveDone \/ SaveFails \/ DrainEnds \/ RunSettled \/ Tick
           \/ UNCHANGED vars
  BY <1>8 DEF ExecWire, ExecInline, SaveDone, SaveFails, DrainEnds, RunSettled, Tick,
              workerVars, runnerVars, vars, UndoneInv
<1> QED BY <1>3, <1>4, <1>5, <1>6, <1>7, <1>8 DEF Next

\* What the abstract queue does not see.
LEMMA UnseenStep ==
  ASSUME UNCHANGED << waitingBar, activeBar, settled, undone, accepted >>
  PROVE  UNCHANGED Abstract!vars
<1>1. outcomeBar' = outcomeBar
  BY DEF outcomeBar
<1> QED BY <1>1 DEF Abstract!vars

\* Without a change of the loop's place, the worker and the settlements, the
\* active job stays.
LEMMA ActiveStays ==
  ASSUME UNCHANGED << worker, settled >>,
         drain' = drain \/ (drain' # "running" /\ drain # "running")
  PROVE  activeBar' = activeBar
  BY DEF activeBar, RunIsSettled

\* queue.push is Accept.
LEMMA PushAccepts ==
  ASSUME IInv, Push(accepted + 1), accepted < MaxJobs,
         Len(queue) < Capacity + MaxSaving,
         UNCHANGED << jobToRun, worker, undone, settled >>
  PROVE  Abstract!Accept
<1> DEFINE n == accepted + 1
<1>0. /\ queue' = Append(queue, n) /\ accepted' = n
      /\ drain' = IF drain = "off" THEN "loop" ELSE drain
  BY DEF Push
<1>1. n \in Jobs
  BY WorkerAssumption DEF IInv, TypeOK, Jobs
<1>2. Len(waitingBar) < Capacity + MaxSaving + 1
  BY RunnerAssumption, WaitingIsSeq
<1>3. waitingBar' = Append(waitingBar, n)
  <2>1. CASE drain = "sleep"
    <3>1. waitingBar = << jobToRun >> \o queue
      BY <2>1 DEF waitingBar
    <3>2. waitingBar' = << jobToRun >> \o Append(queue, n)
      BY <1>0, <2>1 DEF waitingBar
    <3>3. jobToRun \in Jobs /\ queue \in Seq(Jobs)
      BY <2>1, WaitingIsSeq
    <3> HIDE DEF n
    <3> QED BY <1>1, <3>1, <3>2, <3>3, AppendInFront
  <2>2. CASE drain # "sleep"
    BY <1>0, <2>2 DEF waitingBar
  <2> QED BY <2>1, <2>2
<1>4. activeBar' = activeBar
  BY <1>0, ActiveStays
<1>5. outcomeBar' = outcomeBar
  BY DEF outcomeBar
<1> QED BY <1>0, <1>2, <1>3, <1>4, <1>5 DEF Abstract!Accept

\* queue.splice is Cancel, one place further when a job is in hand.
LEMMA InterruptCancels ==
  ASSUME IInv, NEW i \in 1..Len(queue), InterruptQueued(i)
  PROVE  \E k \in 1..Len(waitingBar) : Abstract!Cancel(k)
<1> DEFINE k == IF drain = "sleep" THEN i + 1 ELSE i
<1>0. /\ queue' = RemoveAt(queue, i) /\ undone' = undone \cup {queue[i]}
      /\ UNCHANGED << drain, jobToRun, worker, settled, accepted >>
  BY DEF InterruptQueued, workerVars
<1>1. k \in 1..Len(waitingBar)
  BY WaitingIsSeq
<1>2. waitingBar[k] = queue[i] /\ waitingBar' = RemoveAt(waitingBar, k)
  <2>1. CASE drain = "sleep"
    <3>1. waitingBar = << jobToRun >> \o queue /\ waitingBar' = << jobToRun >> \o RemoveAt(queue, i)
      BY <1>0, <2>1 DEF waitingBar
    <3>2. jobToRun \in Jobs /\ queue \in Seq(Jobs)
      BY <2>1, WaitingIsSeq
    <3>3. (<< jobToRun >> \o queue)[i + 1] = queue[i]
      BY <3>2, InFront
    <3>4. << jobToRun >> \o RemoveAt(queue, i) = RemoveAt(<< jobToRun >> \o queue, i + 1)
      BY <3>2, RemoveInFront
    <3> QED BY <2>1, <3>1, <3>3, <3>4
  <2>2. CASE drain # "sleep"
    BY <1>0, <2>2 DEF waitingBar
  <2> QED BY <2>1, <2>2
<1>3. activeBar' = activeBar
  BY <1>0, ActiveStays
<1>4. outcomeBar' = [outcomeBar EXCEPT ![queue[i]] = "cancelled"]
  BY <1>0 DEF outcomeBar
<1> HIDE DEF k
<1>5. Abstract!Cancel(k)
  BY <1>0, <1>1, <1>2, <1>3, <1>4 DEF Abstract!Cancel, Abstract!RemoveAt, RemoveAt
<1> QED BY <1>1, <1>5

\* new ScriptWorker and run() of the first job that waits: Start, or
\* FailToStart when run() throws.
LEMMA StartStarts ==
  ASSUME IInv, NEW j \in Jobs, StartJob(j), drain # "running", Untouched(j),
         waitingBar \in Seq(Jobs), waitingBar # << >>, Head(waitingBar) = j,
         queue' = Tail(waitingBar), UNCHANGED << undone, accepted >>
  PROVE  Abstract!Start \/ Abstract!FailToStart
<1>0. activeBar = 0 /\ settled[j] = "pending" /\ j \notin undone
  BY DEF activeBar, Untouched, NotStarted
<1>1. settled \in [Jobs -> Outcomes]
  BY DEF IInv, TypeOK, WorkerTypeOK
<1>2. CASE drain' = "running"
  <2>1. worker' = j /\ settled' = settled
    BY <1>2 DEF StartJob, Run
  <2>2. activeBar' = j
    BY <1>0, <1>2, <2>1 DEF activeBar, RunIsSettled
  <2>3. outcomeBar' = outcomeBar
    BY <2>1 DEF outcomeBar
  <2>4. waitingBar' = Tail(waitingBar)
    BY <1>2 DEF waitingBar
  <2> QED BY <1>0, <2>2, <2>3, <2>4 DEF Abstract!Start
<1>3. CASE drain' = "loop"
  <2>1. settled' = [settled EXCEPT ![j] = IF @ = "pending" THEN "rejected" ELSE @]
    BY <1>3 DEF StartJob, RunThrows, Settle
  <2>2. activeBar' = activeBar
    BY <1>0, <1>3 DEF activeBar
  <2>3. outcomeBar' = [outcomeBar EXCEPT ![j] = "failed"]
    BY <1>0, <1>1, <2>1 DEF outcomeBar
  <2>4. waitingBar' = Tail(waitingBar)
    BY <1>3 DEF waitingBar
  <2> QED BY <1>0, <2>2, <2>3, <2>4 DEF Abstract!FailToStart
<1> QED BY <1>2, <1>3 DEF StartJob

\* A handler of a worker settles the job that runs, or nothing.
LEMMA WorkerFinishes ==
  ASSUME IInv, UndoneInv, NEW j \in Jobs, HandleWorkerEvent(j)
  PROVE  Abstract!Finish \/ UNCHANGED Abstract!vars
<1>0. HostIdle /\ WorkerEvent(j) /\ UNCHANGED runnerVars
  BY DEF HandleWorkerEvent
<1>1. UNCHANGED << queue, drain, jobToRun, worker, undone, accepted >>
  BY <1>0 DEF runnerVars
<1>2. waitingBar' = waitingBar
  BY <1>1 DEF waitingBar
<1>3. settled \in [Jobs -> Outcomes] /\ WorkerTypeOK /\ \A k \in Jobs : WorkerInv(k)
  BY DEF IInv, TypeOK, WorkerTypeOK, ThreadInv
<1>4. settled' = settled \/ \E o \in {"resolved", "rejected"} :
                              settled' = [settled EXCEPT ![j] = IF @ = "pending" THEN o ELSE @]
  BY <1>0 DEF WorkerEvent, TimeoutFires, ErrorEvent, ExitEvent, MessageEvent, Settle
<1>5. CASE settled' = settled
  <2>1. activeBar' = activeBar
    BY <1>1, <1>5, ActiveStays
  <2> QED BY <1>1, <1>2, <1>5, <2>1, UnseenStep
<1>6. CASE settled' # settled
  <2>1. PICK o \in {"resolved", "rejected"} :
          settled' = [settled EXCEPT ![j] = IF @ = "pending" THEN o ELSE @]
    BY <1>4, <1>6
  <2>2. settled[j] = "pending"
    BY <1>3, <1>6, <2>1
  <2>3. worker = j /\ j # 0
    <3>1. thread[j] # "none"
      <4>1. settled'[j] # settled[j]
        BY <1>3, <2>1, <2>2
      <4> QED BY <1>0, <1>3, <4>1, LateStepWindsDown DEF LateStep
    <3>2. j <= accepted /\ ~Queued(j) /\ ~Held(j) /\ j \notin undone
      <4>1. ~Untouched(j)
        BY <3>1 DEF Untouched, NotStarted
      <4>2. accepted \in Nat /\ j \in Nat
        BY DEF IInv, TypeOK, Jobs
      <4>3. ~Queued(j) /\ ~Held(j) /\ j <= accepted
        BY <4>1, <4>2 DEF IInv, PlaceInv, Held
      <4> QED BY <3>1, <4>3 DEF UndoneInv
    <3> QED BY <2>2, <3>2 DEF IInv, PlaceInv, Open, Accepted, Running, Jobs
  <2>4. drain = "running" /\ j \notin undone
    BY <2>3 DEF IInv, DrainInv, TypeOK, DrainStates, PlaceInv
  <2>5. activeBar = j /\ activeBar' = 0
    BY <1>1, <1>3, <2>1, <2>2, <2>3, <2>4 DEF activeBar, RunIsSettled
  <2>6. outcomeBar' = [outcomeBar EXCEPT ![j] = IF o = "resolved" THEN "done" ELSE "failed"]
    BY <1>1, <1>3, <2>1, <2>2, <2>4 DEF outcomeBar
  <2> QED BY <1>1, <1>2, <2>3, <2>5, <2>6 DEF Abstract!Finish
<1> QED BY <1>5, <1>6

\* The runner's initial state is the empty queue.
LEMMA InitMaps == Init => Abstract!Init
<1> SUFFICES ASSUME Init PROVE Abstract!Init
  OBVIOUS
<1>1. waitingBar = << >> /\ activeBar = 0 /\ accepted = 0
  BY DEF Init, waitingBar, activeBar
<1>2. outcomeBar = [j \in Jobs |-> "open"]
  BY DEF Init, WorkerInit, outcomeBar
<1> QED BY <1>1, <1>2 DEF Abstract!Init, Abstract!Jobs, Jobs

\* Every step of the runner is a step of the abstract queue, or unseen.
LEMMA StepMaps ==
  ASSUME IInv, UndoneInv, [Next]_vars
  PROVE  Abstract!Next \/ UNCHANGED Abstract!vars
<1>0. /\ accepted \in Nat /\ saving \in Nat /\ MaxJobs \in Nat
      /\ Capacity \in Nat /\ MaxSaving \in Nat /\ Len(queue) \in Nat
  BY RunnerAssumption, WorkerAssumption, WaitingIsSeq DEF IInv, TypeOK
<1>1. CASE ExecWire
  BY <1>0, <1>1, PushAccepts
     DEF ExecWire, RoomForJob, QueueHasRoom, workerVars, Abstract!Next
<1>2. CASE SaveDone
  BY <1>0, <1>2, PushAccepts
     DEF SaveDone, IInv, BoundInv, QueueIsBounded, workerVars, Abstract!Next
<1>3. CASE ExecInline \/ SaveFails \/ Tick \/ InterruptRunning
  <2>1. UNCHANGED << queue, drain, jobToRun, worker, settled, undone, accepted >>
    BY <1>3 DEF ExecInline, SaveFails, Tick, InterruptRunning, Terminate, runnerVars, workerVars
  <2> QED BY <2>1, ActiveStays, UnseenStep DEF waitingBar
<1>4. ASSUME NEW i \in 1..Len(queue), InterruptQueued(i) PROVE Abstract!Next
  BY <1>4, InterruptCancels DEF Abstract!Next
<1>5. CASE DrainTakes
  <2>1. /\ drain = "loop" /\ queue # << >> /\ queue' = Tail(queue)
        /\ UNCHANGED << undone, accepted >>
    BY <1>5 DEF DrainTakes
  <2>2. Head(queue) \in Jobs /\ Untouched(Head(queue))
    BY <1>5, DrainTakesHead
  <2>3. waitingBar = queue
    BY <2>1 DEF waitingBar
  <2>4. CASE StartJob(Head(queue))
    BY <2>1, <2>2, <2>3, <2>4, StartStarts, WaitingIsSeq DEF Abstract!Next
  <2>5. CASE drain' = "sleep" /\ jobToRun' = Head(queue) /\ UNCHANGED << worker, workerVars >>
    <3>1. waitingBar' = waitingBar
      BY <2>1, <2>3, <2>5, HeadInFront, WaitingIsSeq DEF waitingBar
    <3>2. activeBar' = activeBar
      BY <2>1, <2>5, ActiveStays DEF workerVars
    <3> QED BY <2>1, <2>5, <3>1, <3>2, UnseenStep DEF workerVars
  <2> QED BY <1>5, <2>4, <2>5 DEF DrainTakes
<1>6. CASE DrainEnds
  <2>1. /\ drain = "loop" /\ drain' \in {"loop", "off"}
        /\ UNCHANGED << queue, worker, settled, undone, accepted >>
    BY <1>6 DEF DrainEnds, workerVars
  <2>2. waitingBar' = waitingBar
    BY <2>1 DEF waitingBar
  <2> QED BY <2>1, <2>2, ActiveStays, UnseenStep
<1>7. CASE SleepDone
  <2>1. drain = "sleep" /\ StartJob(jobToRun) /\ UNCHANGED << queue, undone, accepted >>
    BY <1>7 DEF SleepDone
  <2>2. jobToRun \in Jobs /\ Untouched(jobToRun) /\ queue \in Seq(Jobs)
    BY <2>1, WaitingIsSeq DEF IInv, PlaceInv
  <2>3. waitingBar = << jobToRun >> \o queue
    BY <2>1 DEF waitingBar
  <2>4. /\ waitingBar \in Seq(Jobs) /\ waitingBar # << >> /\ Head(waitingBar) = jobToRun
        /\ Tail(waitingBar) = queue
    BY <2>2, <2>3, InFront
  <2> QED BY <2>1, <2>2, <2>4, StartStarts DEF Abstract!Next
<1>8. CASE RunSettled
  <2>1. /\ RunIsSettled /\ drain' = "loop" /\ drain = "running"
        /\ UNCHANGED << queue, settled, undone, accepted >>
    BY <1>8 DEF RunSettled, workerVars, RunIsSettled
  <2>2. waitingBar' = waitingBar /\ activeBar' = activeBar
    BY <2>1 DEF waitingBar, activeBar
  <2> QED BY <2>1, <2>2, UnseenStep
<1>9. ASSUME NEW j \in Jobs, HandleWorkerEvent(j)
      PROVE  Abstract!Next \/ UNCHANGED Abstract!vars
  BY <1>9, WorkerFinishes DEF Abstract!Next
<1>10. ASSUME NEW j \in Jobs, ScriptThread(j) PROVE UNCHANGED Abstract!vars
  <2>1. UNCHANGED << queue, drain, jobToRun, worker, settled, undone, accepted >>
    BY <1>10 DEF ScriptThread, ThreadStep, PostMessage, ScriptEnds, ThreadStops, runnerVars
  <2> QED BY <2>1, ActiveStays, UnseenStep DEF waitingBar
<1>11. CASE UNCHANGED vars
  <2>1. UNCHANGED << queue, drain, jobToRun, worker, settled, undone, accepted >>
    BY <1>11 DEF vars, runnerVars, workerVars
  <2> QED BY <2>1, ActiveStays, UnseenStep DEF waitingBar
<1> QED BY <1>1, <1>2, <1>3, <1>4, <1>5, <1>6, <1>7, <1>8, <1>9, <1>10, <1>11 DEF Next

\* The device's queue, with its timers, threads and awaits, implements the
\* abstract one: jobs wait in the order of acceptance, one at most is active,
\* each leaves once, and only a waiting one is cancelled.
THEOREM RunnerImplementsScriptQueue == Spec => ImplementsScriptQueue
<1>1. IInv /\ UndoneInv /\ [Next]_vars => [Abstract!Next]_(Abstract!vars)
  BY StepMaps
<1>2. Init => UndoneInv
  BY DEF Init, UndoneInv
<1>3. IInv /\ UndoneInv /\ [Next]_vars => UndoneInv'
  BY UndoneStep
<1> QED BY <1>1, <1>2, <1>3, InitMaps, Invariance, PTL
        DEF Spec, ImplementsScriptQueue, Abstract!Spec

-------------------------------------------------------------------------------
(* Runner implements DeviceProtocol.                                       *)

\* A step of the runner is a step of one worker, or of none.
LEMMA OneWorkerMoves ==
  ASSUME IInv, [Next]_vars
  PROVE  UNCHANGED workerVars \/ \E j \in Jobs : WorkerStep(j)
<1>1. ASSUME NEW j \in Jobs, StartJob(j) PROVE WorkerStep(j)
  BY <1>1 DEF StartJob, WorkerStep
<1>2. CASE DrainTakes
  BY <1>1, <1>2, DrainTakesHead DEF DrainTakes
<1>3. CASE SleepDone
  BY <1>1, <1>3 DEF SleepDone, IInv, DrainInv
<1>4. CASE InterruptRunning
  BY <1>4 DEF InterruptRunning, IInv, TypeOK, WorkerStep, LateStep
<1>5. ASSUME NEW j \in Jobs, HandleWorkerEvent(j) \/ ScriptThread(j) PROVE WorkerStep(j)
  BY <1>5 DEF HandleWorkerEvent, ScriptThread, WorkerStep, LateStep
<1>6. ASSUME NEW i \in 1..Len(queue), InterruptQueued(i) PROVE UNCHANGED workerVars
  BY <1>6 DEF InterruptQueued
<1>7. CASE ExecWire \/ ExecInline \/ SaveDone \/ SaveFails \/ DrainEnds \/ RunSettled \/ Tick
           \/ UNCHANGED vars
  BY <1>7 DEF ExecWire, ExecInline, SaveDone, SaveFails, DrainEnds, RunSettled, Tick, vars
<1> QED BY <1>2, <1>3, <1>4, <1>5, <1>6, <1>7 DEF Next

\* What the protocol needs besides IInv.
ReportInv == UndoneInv /\ \A j \in Jobs : MessageInv(j)

LEMMA ReportInvStep ==
  ASSUME IInv, ReportInv, [Next]_vars
  PROVE  ReportInv'
<1>1. UndoneInv'
  BY UndoneStep DEF ReportInv
<1>2. ASSUME NEW k \in Jobs PROVE MessageInv(k)'
  <2>1. CASE UNCHANGED workerVars
    BY <2>1 DEF ReportInv, MessageInv, workerVars
  <2>2. ASSUME NEW j \in Jobs, WorkerStep(j) PROVE MessageInv(k)'
    BY <2>2, MessageInvStep DEF IInv, TypeOK, ReportInv
  <2> QED BY <2>1, <2>2, OneWorkerMoves
<1> QED BY <1>1, <1>2 DEF ReportInv

\* The protocol's state of an accepted job.
LEMMA JobBarOfAccepted ==
  ASSUME IInv, NEW j \in Jobs, j \in Accepted
  PROVE  /\ failureReports[j] \in {0, 1}
         /\ jobBar[j] = IF failureReports[j] = 1 THEN "stopped"
                        ELSE IF Open(j) THEN "open" ELSE "ended"
<1>1. failureReports[j] \in {0, 1}
  BY DEF IInv, ThreadInv, WorkerInv
<1>2. jobBar[j] = JobState(j)
  BY DEF jobBar
<1>3. CASE failureReports[j] = 1
  BY <1>2, <1>3 DEF JobState
<1>4. CASE failureReports[j] = 0 /\ Open(j)
  BY <1>2, <1>4 DEF JobState
<1>5. CASE failureReports[j] = 0 /\ ~Open(j)
  BY <1>2, <1>5 DEF JobState
<1> QED BY <1>1, <1>3, <1>4, <1>5

\* A job that is still to be started is open, and has reported nothing.
LEMMA UntouchedIsOpen ==
  ASSUME IInv, NEW j \in Jobs, Untouched(j)
  PROVE  /\ failureReports[j] = 0
         /\ j \in Accepted => Open(j) /\ jobBar[j] = "open"
         /\ j \notin Accepted => jobBar[j] = "requested"
<1>1. failureReports[j] = 0
  BY DEF IInv, ThreadInv, WorkerInv, Untouched, NotStarted
<1> QED BY <1>1 DEF jobBar, JobState, Untouched, NotStarted, Open

\* A step that touches one job moves no other one's state.
LEMMA OneJobMoves ==
  ASSUME NEW j \in Jobs, NEW state, jobBar'[j] = state,
         \A k \in Jobs \ {j} :
           /\ failureReports'[k] = failureReports[k] /\ settled'[k] = settled[k]
           /\ k \in undone' <=> k \in undone
           /\ k \in Accepted' <=> k \in Accepted
  PROVE  Protocol!Becomes(j, state)
<1>1. \A k \in Jobs \ {j} : (Open(k))' <=> Open(k)
  BY DEF Open
<1>2. \A k \in Jobs \ {j} : JobState(k)' = JobState(k)
  BY <1>1 DEF JobState
<1>3. jobBar' = [jobBar EXCEPT ![j] = jobBar'[j]]
  BY <1>2 DEF jobBar
<1> QED BY <1>3 DEF Protocol!Becomes

\* What the protocol does not see.
LEMMA UnseenByProtocol ==
  ASSUME UNCHANGED << failureReports, settled, undone, accepted, scriptReports >>
  PROVE  UNCHANGED Protocol!vars
<1>1. jobBar' = jobBar
  BY DEF jobBar, JobState, Open, Accepted
<1> QED BY <1>1 DEF Protocol!vars

\* queue.push accepts the job.
LEMMA PushIsAccept ==
  ASSUME IInv, Push(accepted + 1), accepted < MaxJobs, UNCHANGED << undone, workerVars >>
  PROVE  Protocol!Accept(accepted + 1)
<1>1. PICK n \in Jobs : n = accepted + 1
  BY WorkerAssumption DEF IInv, TypeOK, Jobs
<1>2. accepted \in Nat /\ n > accepted
  BY <1>1 DEF IInv, TypeOK
<1>3. Untouched(n) /\ n \notin Accepted
  BY <1>2 DEF IInv, PlaceInv, Accepted
<1>4. n \in Accepted' /\ \A k \in Jobs \ {n} : k \in Accepted' <=> k \in Accepted
  BY <1>1, <1>2, WorkerAssumption DEF Push, Accepted, Jobs
<1>5. jobBar[n] = "requested" /\ failureReports[n] = 0
  BY <1>3, UntouchedIsOpen
<1>6. jobBar'[n] = "open"
  <2>1. n \notin undone' /\ settled'[n] = "pending" /\ failureReports'[n] = 0
    BY <1>3, <1>5 DEF Untouched, NotStarted, workerVars
  <2> QED BY <1>4, <2>1 DEF jobBar, JobState, Open
<1>7. Protocol!Becomes(n, "open")
  BY <1>4, <1>6, OneJobMoves DEF workerVars
<1> QED BY <1>1, <1>5, <1>7 DEF Protocol!Accept, workerVars

\* A job that leaves, from open, without a report has ended silently.
LEMMA LeavesSilently ==
  ASSUME IInv, NEW j \in Jobs, j \in Accepted, jobBar[j] = "open", (~Open(j))',
         UNCHANGED << failureReports, accepted, scriptReports >>,
         \A k \in Jobs \ {j} : /\ settled'[k] = settled[k]
                               /\ k \in undone' <=> k \in undone
  PROVE  Protocol!EndSilently(j)
<1>1. failureReports[j] = 0 /\ Accepted' = Accepted
  BY JobBarOfAccepted DEF Accepted
<1>2. jobBar'[j] = "ended"
  BY <1>1 DEF jobBar, JobState
<1>3. \A k \in Jobs \ {j} : /\ failureReports'[k] = failureReports[k] /\ settled'[k] = settled[k]
                            /\ k \in undone' <=> k \in undone
                            /\ k \in Accepted' <=> k \in Accepted
  BY <1>1
<1>4. Protocol!Becomes(j, "ended")
  BY <1>2, <1>3, OneJobMoves
<1> QED BY <1>4 DEF Protocol!EndSilently

\* A worker that still has a thread, messages or a timer belongs to an accepted
\* job that was not undone.
LEMMA WorkersAreAccepted ==
  ASSUME IInv, ReportInv, NEW j \in Jobs, thread[j] # "none"
  PROVE  j \in Accepted /\ j \notin undone
<1>1. accepted \in Nat /\ j \in Nat /\ 1 <= j
  BY WorkerAssumption DEF IInv, TypeOK, Jobs
<1>2. j <= accepted
  BY <1>1 DEF IInv, PlaceInv, Untouched, NotStarted
<1> QED BY <1>1, <1>2 DEF Accepted, ReportInv, UndoneInv

\* A handler forwards a report, makes the final one, ends the job silently, or
\* does nothing that the gateway could notice.
LEMMA HandlerFollowsProtocol ==
  ASSUME IInv, ReportInv, NEW j \in Jobs, HandleWorkerEvent(j)
  PROVE  Protocol!Next \/ UNCHANGED Protocol!vars
<1>0. WorkerEvent(j) /\ UNCHANGED << undone, accepted >>
  BY DEF HandleWorkerEvent, runnerVars
<1>1. WorkerTypeOK /\ WorkerInv(j) /\ MessageInv(j) /\ Accepted' = Accepted
  BY <1>0 DEF IInv, TypeOK, ThreadInv, ReportInv, Accepted
<1>2. thread[j] # "none" /\ thread[j] # "gone"
  BY <1>0, <1>1 DEF WorkerEvent, TimeoutFires, ErrorEvent, ExitEvent, MessageEvent, WorkerInv,
                    MessageInv
<1>3. j \in Accepted /\ j \notin undone /\ settled[j] # "resolved"
  BY <1>1, <1>2, WorkersAreAccepted DEF WorkerInv
<1>4. jobBar[j] = IF failureReports[j] = 1 THEN "stopped" ELSE "open"
  <2>1. failureReports[j] = 0 => settled[j] = "pending"
    BY <1>1, <1>2, <1>3 DEF WorkerInv, WorkerTypeOK, Outcomes
  <2> QED BY <1>3, <2>1, JobBarOfAccepted DEF Open
<1>5. \A k \in Jobs \ {j} : /\ failureReports'[k] = failureReports[k] /\ settled'[k] = settled[k]
                            /\ k \in undone' <=> k \in undone
                            /\ k \in Accepted' <=> k \in Accepted
  BY <1>0, <1>1, WorkerFrame DEF WorkerStep, LateStep
<1>6. CASE MessageEvent(j)
  <2>1. UNCHANGED << failureReports, settled >> /\ inflight[j] > 0
        /\ scriptReports' = [scriptReports EXCEPT ![j] = @ + 1]
    BY <1>6 DEF MessageEvent
  <2>2. scriptReports[j] < MaxMessages
    BY <1>1, <2>1, WorkerAssumption DEF MessageInv, WorkerTypeOK
  <2>3. jobBar' = jobBar
    BY <1>0, <2>1 DEF jobBar, JobState, Open, Accepted
  <2>4. Protocol!Report(j)
    BY <1>4, <2>1, <2>2, <2>3 DEF Protocol!Report
  <2> QED BY <2>4 DEF Protocol!Next
<1>7. CASE scriptReports' = scriptReports /\ ReportFailureOnce(j)
  <2>1. CASE failureReports[j] = 0
    <3>1. failureReports'[j] = 1
      BY <1>1, <1>7, <2>1 DEF WorkerInv, WorkerTypeOK, ReportFailureOnce
    <3>2. jobBar'[j] = "stopped"
      BY <1>1, <1>3, <3>1 DEF jobBar, JobState
    <3>3. Protocol!Becomes(j, "stopped")
      BY <1>5, <3>2, OneJobMoves
    <3>4. Protocol!ReportFinal(j)
      BY <1>4, <1>7, <2>1, <3>3 DEF Protocol!ReportFinal
    <3> QED BY <3>4 DEF Protocol!Next
  <2>2. CASE failureReports[j] = 1
    <3>1. failureReports'[j] = 1
      BY <1>1, <1>7, <2>2 DEF WorkerInv, WorkerTypeOK, ReportFailureOnce
    <3>2. jobBar'[j] = "stopped" /\ jobBar[j] = "stopped"
      BY <1>1, <1>3, <2>2, <3>1 DEF jobBar, JobState
    <3>3. Protocol!Becomes(j, "stopped")
      BY <1>5, <3>2, OneJobMoves
    <3>4. jobBar' = jobBar
      BY <3>2, <3>3 DEF Protocol!Becomes, jobBar
    <3> QED BY <1>7, <3>4 DEF Protocol!vars
  <2> QED BY <1>3, <2>1, <2>2, JobBarOfAccepted
<1>8. CASE ExitEvent(j) /\ thread[j] = "zero"
  <2>1. /\ UNCHANGED << failureReports, scriptReports >>
        /\ settled' = [settled EXCEPT ![j] = IF @ = "pending" THEN "resolved" ELSE @]
    BY <1>8 DEF ExitEvent, Settle
  <2>2. CASE failureReports[j] = 0
    <3>1. settled[j] = "pending" /\ settled'[j] = "resolved"
      BY <1>1, <1>2, <1>3, <2>1, <2>2 DEF WorkerInv, WorkerTypeOK, Outcomes
    <3>2. (~Open(j))' /\ jobBar[j] = "open"
      BY <1>4, <2>2, <3>1 DEF Open
    <3>3. Protocol!EndSilently(j)
      BY <1>0, <1>3, <1>5, <2>1, <3>2, LeavesSilently
    <3> QED BY <3>3 DEF Protocol!Next
  <2>3. CASE failureReports[j] = 1
    <3>1. settled' = settled
      BY <1>1, <2>1, <2>3 DEF WorkerInv, WorkerTypeOK
    <3> QED BY <1>0, <2>1, <3>1, UnseenByProtocol
  <2> QED BY <1>3, <2>2, <2>3, JobBarOfAccepted
<1>9. MessageEvent(j) \/ (scriptReports' = scriptReports /\ ReportFailureOnce(j))
        \/ (ExitEvent(j) /\ thread[j] = "zero")
  BY <1>0 DEF WorkerEvent, TimeoutFires, ErrorEvent, ExitEvent
<1> QED BY <1>6, <1>7, <1>8, <1>9

\* run() of the first job that waits: nothing to be noticed, or an end without
\* a report when it throws.
LEMMA StartFollowsProtocol ==
  ASSUME IInv, NEW j \in Jobs, StartJob(j), Untouched(j), j \in Accepted,
         UNCHANGED << undone, accepted >>
  PROVE  Protocol!Next \/ UNCHANGED Protocol!vars
<1>1. CASE Run(j)
  BY <1>1, UnseenByProtocol DEF Run
<1>2. CASE RunThrows(j)
  <2>1. /\ UNCHANGED << failureReports, scriptReports >>
        /\ settled' = [settled EXCEPT ![j] = IF @ = "pending" THEN "rejected" ELSE @]
    BY <1>2 DEF RunThrows, Settle
  <2>2. settled'[j] = "rejected" /\ \A k \in Jobs \ {j} : settled'[k] = settled[k]
    BY <2>1 DEF IInv, TypeOK, WorkerTypeOK, Untouched, NotStarted
  <2>3. jobBar[j] = "open" /\ (~Open(j))'
    BY <2>2, UntouchedIsOpen DEF Open
  <2>4. Protocol!EndSilently(j)
    BY <2>1, <2>2, <2>3, LeavesSilently
  <2> QED BY <2>4 DEF Protocol!Next
<1> QED BY <1>1, <1>2 DEF StartJob

\* Every step of the runner is one that a gateway expects, or unseen.
LEMMA StepFollowsProtocol ==
  ASSUME IInv, ReportInv, [Next]_vars
  PROVE  Protocol!Next \/ UNCHANGED Protocol!vars
<1>0. accepted \in Nat /\ saving \in Nat /\ MaxJobs \in Nat
  BY WorkerAssumption, RunnerAssumption DEF IInv, TypeOK
<1>1. CASE ExecWire \/ SaveDone
  <2>1. Push(accepted + 1) /\ accepted < MaxJobs /\ UNCHANGED << undone, workerVars >>
    BY <1>0, <1>1 DEF ExecWire, SaveDone, RoomForJob, IInv, BoundInv
  <2>2. accepted + 1 \in Jobs
    BY <1>0, <2>1 DEF Jobs
  <2> QED BY <2>1, <2>2, PushIsAccept DEF Protocol!Next
<1>2. ASSUME NEW i \in 1..Len(queue), InterruptQueued(i) PROVE Protocol!Next
  <2>1. PICK j \in Jobs : j = queue[i]
    BY SeqOfJobs DEF IInv, TypeOK
  <2>2. Untouched(j) /\ j \in Accepted
    <3>1. Queued(j) /\ j \in Nat /\ 1 <= j /\ accepted \in Nat
      BY <1>0, <2>1 DEF Queued, Contains, Jobs
    <3> QED BY <3>1 DEF IInv, PlaceInv, OrderInv, Accepted
  <2>3. undone' = undone \cup {j} /\ UNCHANGED << failureReports, settled, accepted, scriptReports >>
    BY <1>2, <2>1 DEF InterruptQueued, workerVars
  <2>4. jobBar[j] = "open" /\ (~Open(j))'
    BY <2>2, <2>3, UntouchedIsOpen DEF Open
  <2>5. Protocol!EndSilently(j)
    BY <2>2, <2>3, <2>4, LeavesSilently
  <2> QED BY <2>5 DEF Protocol!Next
<1>3. CASE DrainTakes
  <2>1. Head(queue) \in Jobs /\ Untouched(Head(queue)) /\ Head(queue) \in Accepted
    BY <1>0, <1>3, DrainTakesHead DEF Accepted, Jobs
  <2>2. CASE StartJob(Head(queue))
    BY <1>3, <2>1, <2>2, StartFollowsProtocol DEF DrainTakes
  <2>3. CASE UNCHANGED workerVars
    BY <1>3, <2>3, UnseenByProtocol DEF DrainTakes, workerVars
  <2> QED BY <1>3, <2>2, <2>3 DEF DrainTakes
<1>4. CASE SleepDone
  <2>1. StartJob(jobToRun) /\ jobToRun \in Jobs /\ Untouched(jobToRun)
    BY <1>4 DEF SleepDone, IInv, PlaceInv, DrainInv
  <2>2. jobToRun \in Accepted
    BY <1>0, <2>1 DEF IInv, OrderInv, Accepted, Jobs
  <2> QED BY <1>4, <2>1, <2>2, StartFollowsProtocol DEF SleepDone
<1>5. ASSUME NEW j \in Jobs, HandleWorkerEvent(j)
      PROVE  Protocol!Next \/ UNCHANGED Protocol!vars
  BY <1>5, HandlerFollowsProtocol
<1>6. ASSUME NEW j \in Jobs, ScriptThread(j) PROVE UNCHANGED Protocol!vars
  BY <1>6, UnseenByProtocol
     DEF ScriptThread, ThreadStep, PostMessage, ScriptEnds, ThreadStops, runnerVars
<1>7. CASE ExecInline \/ SaveFails \/ InterruptRunning \/ DrainEnds \/ RunSettled \/ Tick
           \/ UNCHANGED vars
  BY <1>7, UnseenByProtocol
     DEF ExecInline, SaveFails, InterruptRunning, Terminate, DrainEnds, RunSettled, Tick,
         runnerVars, workerVars, vars
<1> QED BY <1>1, <1>2, <1>3, <1>4, <1>5, <1>6, <1>7 DEF Next

\* A gateway hears of the device's jobs what DeviceProtocol lets it expect, for
\* any number of jobs and messages: what Actions is checked against.
THEOREM RunnerImplementsDeviceProtocol == Spec => ImplementsDeviceProtocol
<1>1. IInv /\ ReportInv /\ [Next]_vars => [Protocol!Next]_(Protocol!vars)
  BY StepFollowsProtocol
<1>2. Init => ReportInv /\ Protocol!Init
  <2> SUFFICES ASSUME Init PROVE ReportInv /\ Protocol!Init
    OBVIOUS
  <2>1. ReportInv
    BY WorkerAssumption DEF Init, WorkerInit, ReportInv, UndoneInv, MessageInv
  <2>2. jobBar = [j \in Jobs |-> "requested"]
    BY DEF Init, jobBar, JobState, Accepted, Jobs
  <2> QED BY <2>1, <2>2 DEF Init, WorkerInit, Protocol!Init
<1>3. IInv /\ ReportInv /\ [Next]_vars => ReportInv'
  BY ReportInvStep
<1> QED BY <1>1, <1>2, <1>3, Invariance, PTL
        DEF Spec, ImplementsDeviceProtocol, Protocol!Spec
===============================================================================
