----------------------------- MODULE RunnerProofs -----------------------------
(***************************************************************************)
(* The safety properties of Runner, for every number of jobs, capacity,    *)
(* interval and number of suspended saves.  They all follow from one       *)
(* inductive invariant, IInv, which says where drainQueue's locals, the    *)
(* queue and the workers stand relative to each other.                     *)
(***************************************************************************)
EXTENDS Runner, ScriptWorkerProofs, SequenceTheorems

-------------------------------------------------------------------------------
(* The inductive invariant.                                                *)

Sorted(s) == \A i, k \in 1..Len(s) : i < k => s[i] < s[k]

Untouched(j) == NotStarted(j) /\ j \notin undone

\* What the position of the loop says about this.worker, the local jobToRun
\* and the clock.  A job in hand has slept long enough when the sleep ends.
DrainInv ==
  /\ drain \in {"off", "loop"} => worker = 0 /\ jobToRun = 0
  /\ drain = "off" => queue = << >>
  /\ drain = "sleep" => /\ worker = 0 /\ jobToRun \in Jobs
                        /\ MinInterval <= idleFor + sleepLeft
  /\ drain = "running" => worker = jobToRun /\ worker \in Jobs

\* The job in hand and the queue are in the order of acceptance.
OrderInv ==
  /\ jobToRun <= accepted
  /\ \A j \in Jobs : Queued(j) => jobToRun < j /\ j <= accepted
  /\ Sorted(queue)

\* Jobs in the queue, in hand or still to come are untouched, and there is
\* no other place where an open job could be.
PlaceInv ==
  /\ \A j \in Jobs : Queued(j) => Untouched(j)
  /\ drain = "sleep" => Untouched(jobToRun)
  /\ drain = "running" => worker \notin undone /\ thread[worker] # "none"
  /\ \A j \in Jobs : j > accepted => Untouched(j)
  /\ \A j \in Jobs : Open(j) => Queued(j) \/ Held(j) \/ Running(j)

ThreadInv ==
  /\ \A j \in Jobs : WorkerInv(j)
  /\ \A j \in Jobs : thread[j] = "running" \/ timer[j] => worker = j

BoundInv == accepted + saving <= MaxJobs /\ QueueIsBounded

IInv ==
  TypeOK /\ DrainInv /\ OrderInv /\ PlaceInv /\ ThreadInv /\ BoundInv

-------------------------------------------------------------------------------
(* Sequences.                                                              *)

\* queue.splice(i, 1): what is left, and where each remaining job moves to.
LEMMA RemoveAtProperties ==
  ASSUME NEW S, NEW s \in Seq(S), NEW i \in 1..Len(s)
  PROVE  /\ RemoveAt(s, i) \in Seq(S)
         /\ Len(RemoveAt(s, i)) = Len(s) - 1
         /\ \A k \in 1..(Len(s) - 1) :
              RemoveAt(s, i)[k] = IF k < i THEN s[k] ELSE s[k + 1]
<1> DEFINE front == SubSeq(s, 1, i - 1)
           back == SubSeq(s, i + 1, Len(s))
<1>1. Len(s) \in Nat /\ i \in Int /\ \A k \in 1..Len(s) : s[k] \in S
  BY LenProperties
<1>2. /\ front \in Seq(S) /\ Len(front) = i - 1
      /\ \A k \in 1..(i - 1) : front[k] = s[k]
  <2>1. \A k \in 1..(i - 1) : s[k] \in S
    BY <1>1
  <2> QED
    BY <1>1, <2>1, SubSeqProperties
<1>3. /\ back \in Seq(S) /\ Len(back) = Len(s) - i
      /\ \A k \in 1..(Len(s) - i) : back[k] = s[i + k]
  <2>1. \A k \in (i + 1)..Len(s) : s[k] \in S
    BY <1>1
  <2> HIDE DEF back
  <2>2. /\ back \in Seq(S)
        /\ Len(back) = IF i + 1 <= Len(s) THEN Len(s) - (i + 1) + 1 ELSE 0
        /\ \A k \in 1..(Len(s) - (i + 1) + 1) : back[k] = s[(i + 1) + k - 1]
    BY <1>1, <2>1, SubSeqProperties DEF back
  <2> QED
    BY <1>1, <2>2
<1> HIDE DEF front, back
<1>4. RemoveAt(s, i) = front \o back
  BY DEF RemoveAt, front, back
<1>5. /\ front \o back \in Seq(S)
      /\ Len(front \o back) = Len(front) + Len(back)
      /\ \A k \in 1..(Len(front) + Len(back)) : (front \o back)[k] =
           IF k <= Len(front) THEN front[k] ELSE back[k - Len(front)]
  BY <1>2, <1>3, ConcatProperties
<1>6. ASSUME NEW k \in 1..(Len(s) - 1)
      PROVE  (front \o back)[k] = IF k < i THEN s[k] ELSE s[k + 1]
  <2>1. CASE k < i
    BY <1>1, <1>2, <1>3, <1>5, <2>1
  <2>2. CASE ~(k < i)
    <3>1. (front \o back)[k] = back[k - (i - 1)]
      BY <1>1, <1>2, <1>3, <1>5, <2>2
    <3>2. back[k - (i - 1)] = s[i + (k - (i - 1))]
      BY <1>1, <1>3, <2>2
    <3> QED
      BY <1>1, <2>2, <3>1, <3>2
  <2> QED
    BY <2>1, <2>2
<1> QED
  BY <1>1, <1>2, <1>3, <1>4, <1>5, <1>6

\* The entries of a queue of jobs are jobs.
LEMMA SeqOfJobs ==
  ASSUME NEW s \in Seq(Jobs)
  PROVE  Len(s) \in Nat /\ \A i \in 1..Len(s) : s[i] \in Jobs /\ s[i] \in Nat
<1>1. Len(s) \in Nat /\ \A i \in 1..Len(s) : s[i] \in Jobs
  BY LenProperties
<1> QED
  BY <1>1, WorkerAssumption DEF Jobs

\* Appending a greater element to a sorted sequence.
LEMMA AppendSorted ==
  ASSUME NEW s \in Seq(Jobs), Sorted(s), NEW n \in Jobs,
         \A i \in 1..Len(s) : s[i] < n
  PROVE  /\ Append(s, n) \in Seq(Jobs)
         /\ Append(s, n) # << >>
         /\ Len(Append(s, n)) = Len(s) + 1
         /\ Sorted(Append(s, n))
         /\ \A j \in Jobs : Contains(Append(s, n), j) <=> Contains(s, j) \/ j = n
<1> DEFINE t == Append(s, n)
<1>1. /\ t \in Seq(Jobs) /\ t # << >> /\ Len(t) = Len(s) + 1
      /\ \A i \in 1..Len(s) : t[i] = s[i]
      /\ t[Len(s) + 1] = n
  BY AppendProperties
<1>2. Len(s) \in Nat /\ \A i \in 1..Len(s) : s[i] \in Int
  BY SeqOfJobs
<1> HIDE DEF t
<1>3. Sorted(t)
  <2> SUFFICES ASSUME NEW i \in 1..Len(t), NEW k \in 1..Len(t), i < k
               PROVE  t[i] < t[k]
    BY DEF Sorted
  <2>1. i \in 1..Len(s) /\ t[i] = s[i]
    BY <1>1, <1>2
  <2>2. CASE k \in 1..Len(s)
    BY <1>1, <2>1, <2>2 DEF Sorted
  <2>3. CASE k = Len(s) + 1
    BY <1>1, <2>1, <2>3
  <2> QED
    BY <1>1, <1>2, <2>2, <2>3
<1>4. ASSUME NEW j \in Jobs PROVE Contains(t, j) <=> Contains(s, j) \/ j = n
  <2>1. Len(s) + 1 \in 1..Len(t) /\ \A i \in 1..Len(s) : i \in 1..Len(t)
    BY <1>1, <1>2
  <2>2. \A i \in 1..Len(t) : i \in 1..Len(s) \/ i = Len(s) + 1
    BY <1>1, <1>2
  <2> QED
    BY <1>1, <2>1, <2>2 DEF Contains
<1> QED
  BY <1>1, <1>3, <1>4 DEF t

\* Taking the first element off a sorted sequence.
LEMMA TailSorted ==
  ASSUME NEW s \in Seq(Jobs), Sorted(s), s # << >>
  PROVE  /\ Head(s) \in Jobs
         /\ Contains(s, Head(s))
         /\ Tail(s) \in Seq(Jobs)
         /\ Len(Tail(s)) = Len(s) - 1
         /\ Sorted(Tail(s))
         /\ \A j \in Jobs : Contains(Tail(s), j) <=> Contains(s, j) /\ j # Head(s)
         /\ \A j \in Jobs : Contains(Tail(s), j) => Head(s) < j
<1> DEFINE t == Tail(s)
<1>1. /\ Head(s) \in Jobs /\ t \in Seq(Jobs) /\ Len(t) = Len(s) - 1
      /\ \A i \in 1..Len(t) : t[i] = s[i + 1]
  BY HeadTailProperties
<1>2. Len(s) \in Nat \ {0} /\ Head(s) = s[1] /\ \A i \in 1..Len(s) : s[i] \in Int
  BY EmptySeq, SeqOfJobs
<1> HIDE DEF t
<1>3. \A i \in 1..Len(t) : i \in Int /\ i + 1 \in 1..Len(s) /\ 1 < i + 1
  BY <1>1, <1>2
<1>4. 1 \in 1..Len(s) /\ \A k \in 1..Len(s) : k = 1 \/ k - 1 \in 1..Len(t)
  BY <1>1, <1>2
<1>5. Sorted(t)
  BY <1>1, <1>3 DEF Sorted
<1>6. \A i \in 1..Len(t) : s[1] < t[i]
  BY <1>1, <1>3, <1>4 DEF Sorted
<1>7. ASSUME NEW j \in Jobs
      PROVE  Contains(t, j) <=> Contains(s, j) /\ j # Head(s)
  <2>1. Contains(t, j) => Contains(s, j) /\ j # Head(s)
    BY <1>1, <1>2, <1>3, <1>6 DEF Contains
  <2>2. ASSUME NEW k \in 1..Len(s), s[k] = j, j # Head(s)
        PROVE  Contains(t, j)
    <3>1. k - 1 \in 1..Len(t)
      BY <1>2, <1>4, <2>2
    <3>2. t[k - 1] = s[(k - 1) + 1]
      BY <1>1, <3>1
    <3> QED
      BY <2>2, <3>1, <3>2 DEF Contains
  <2> QED
    BY <2>1, <2>2 DEF Contains
<1>8. Contains(s, Head(s)) /\ \A j \in Jobs : Contains(t, j) => Head(s) < j
  BY <1>2, <1>4, <1>6 DEF Contains
<1> QED
  BY <1>1, <1>5, <1>7, <1>8 DEF t

\* Taking any element out of a sorted sequence.
LEMMA RemoveAtSorted ==
  ASSUME NEW s \in Seq(Jobs), Sorted(s), NEW i \in 1..Len(s)
  PROVE  /\ RemoveAt(s, i) \in Seq(Jobs)
         /\ Len(RemoveAt(s, i)) = Len(s) - 1
         /\ Sorted(RemoveAt(s, i))
         /\ \A j \in Jobs :
              Contains(RemoveAt(s, i), j) <=> Contains(s, j) /\ j # s[i]
<1> DEFINE t == RemoveAt(s, i)
           old(k) == IF k < i THEN k ELSE k + 1
<1>1. /\ t \in Seq(Jobs) /\ Len(t) = Len(s) - 1
      /\ \A k \in 1..(Len(s) - 1) : t[k] = IF k < i THEN s[k] ELSE s[k + 1]
  BY RemoveAtProperties
<1>2. Len(s) \in Nat /\ \A k \in 1..Len(s) : s[k] \in Int
  BY SeqOfJobs
<1> HIDE DEF t
<1>3. \A k \in 1..Len(t) : old(k) \in 1..Len(s) /\ t[k] = s[old(k)] /\ old(k) # i
  BY <1>1, <1>2
<1>4. \A k, m \in 1..Len(t) : k < m => old(k) < old(m)
  BY <1>1, <1>2
<1> HIDE DEF old
<1>5. Sorted(t)
  BY <1>3, <1>4 DEF Sorted
<1>6. \A k, m \in 1..Len(s) : k # m => s[k] # s[m]
  BY <1>2 DEF Sorted
<1>7. \A k \in 1..Len(s) : k # i => \E m \in 1..Len(t) : old(m) = k
  <2> SUFFICES ASSUME NEW k \in 1..Len(s), k # i
               PROVE  \E m \in 1..Len(t) : old(m) = k
    OBVIOUS
  <2>1. CASE k < i
    <3>1. k \in 1..Len(t) /\ old(k) = k
      BY <1>1, <1>2, <2>1 DEF old
    <3> QED
      BY <3>1
  <2>2. CASE i < k
    <3>1. k - 1 \in 1..Len(t) /\ old(k - 1) = k
      BY <1>1, <1>2, <2>2 DEF old
    <3> QED
      BY <3>1
  <2> QED
    BY <1>2, <2>1, <2>2
<1>8. ASSUME NEW j \in Jobs PROVE Contains(t, j) <=> Contains(s, j) /\ j # s[i]
  <2>1. Contains(t, j) => Contains(s, j) /\ j # s[i]
    BY <1>3, <1>6 DEF Contains
  <2>2. Contains(s, j) /\ j # s[i] => Contains(t, j)
    BY <1>3, <1>7 DEF Contains
  <2> QED
    BY <2>1, <2>2
<1> QED
  BY <1>1, <1>5, <1>8 DEF t

-------------------------------------------------------------------------------
(* The invariant is inductive: a lemma for each kind of step.              *)

USE WorkerAssumption, RunnerAssumption DEF Jobs

LEMMA InitIInv == Init => IInv
<1> SUFFICES ASSUME Init PROVE IInv
  OBVIOUS
<1> USE DEF Init, WorkerInit
<1>1. TypeOK
  BY DEF TypeOK, WorkerTypeOK, ThreadStates, Outcomes, DrainStates
<1>2. DrainInv /\ OrderInv /\ BoundInv
  BY DEF DrainInv, OrderInv, Sorted, Queued, Contains, BoundInv, QueueIsBounded
<1>3. PlaceInv
  BY DEF PlaceInv, Untouched, NotStarted, Open, Accepted, Queued, Contains
<1>4. ThreadInv
  BY DEF ThreadInv, WorkerInv
<1> QED
  BY <1>1, <1>2, <1>3, <1>4 DEF IInv

\* The timer, the thread and the worker's handlers.
LEMMA LateStepIInv ==
  ASSUME IInv, NEW j \in Jobs, LateStep(j), UNCHANGED runnerVars
  PROVE  IInv'
<1> USE DEF runnerVars
<1>1. WorkerTypeOK'
  BY WorkerTypeStep DEF IInv, TypeOK, WorkerStep
<1>2. TypeOK'
  BY <1>1 DEF IInv, TypeOK
<1>3. \A k \in Jobs :
        /\ thread'[k] = "none" <=> thread[k] = "none"
        /\ thread'[k] = "running" => thread[k] = "running"
        /\ timer'[k] => timer[k]
        /\ settled'[k] = "pending" => settled[k] = "pending"
        /\ thread[k] = "none" => settled'[k] = settled[k]
  BY LateStepWindsDown DEF IInv, TypeOK, ThreadInv
<1>4. DrainInv' /\ OrderInv' /\ BoundInv'
  BY DEF IInv, DrainInv, OrderInv, Queued, BoundInv, QueueIsBounded
<1>5. PlaceInv'
  <2>1. \A k \in Jobs : Untouched(k) => Untouched(k)'
    BY <1>3 DEF Untouched, NotStarted
  <2>2. \A k \in Jobs : Open(k)' => Open(k)
    BY <1>3 DEF Open, Accepted
  <2>3. (drain = "sleep" => Untouched(jobToRun))'
    BY <1>3 DEF IInv, PlaceInv, DrainInv, Untouched, NotStarted
  <2>4. (drain = "running" => worker \notin undone /\ thread[worker] # "none")'
    BY <1>3 DEF IInv, PlaceInv, DrainInv
  <2> QED
    BY <2>1, <2>2, <2>3, <2>4 DEF IInv, PlaceInv, Queued, Held, Running
<1>6. ThreadInv'
  <2>1. WorkerTypeOK /\ \A k \in Jobs : WorkerInv(k)
    BY DEF IInv, TypeOK, ThreadInv
  <2>2. ASSUME NEW k \in Jobs PROVE WorkerInv(k)'
    BY <2>1, WorkerInvStep
  <2> QED
    BY <1>3, <2>2 DEF IInv, ThreadInv
<1> QED
  BY <1>2, <1>4, <1>5, <1>6 DEF IInv

\* execJob from queue.push on, whether the job came from the wire or was saved.
LEMMA PushIInv ==
  ASSUME IInv, HostIdle, accepted + 1 <= MaxJobs, Push(accepted + 1),
         saving' \in 0..MaxSaving, accepted' + saving' <= MaxJobs,
         Len(queue) + 1 + saving' <= Capacity + MaxSaving,
         inline' \in SUBSET Jobs,
         UNCHANGED << jobToRun, worker, idleFor, sleepLeft, undone, workerVars >>
  PROVE  IInv'
<1> DEFINE new == accepted + 1
<1> USE DEF workerVars
<1>1. /\ queue \in Seq(Jobs) /\ Sorted(queue)
      /\ new \in Jobs /\ accepted \in Nat /\ jobToRun \in Nat
      /\ accepted' = new /\ queue' = Append(queue, new)
  BY DEF IInv, TypeOK, OrderInv, Push
<1>2. \A i \in 1..Len(queue) : queue[i] < new
  <2>1. \A i \in 1..Len(queue) : queue[i] \in Jobs /\ Queued(queue[i])
    BY <1>1, SeqOfJobs DEF Queued, Contains
  <2> QED
    BY <1>1, <2>1 DEF IInv, OrderInv
<1>3. /\ queue' \in Seq(Jobs) /\ queue' # << >> /\ Sorted(queue')
      /\ Len(queue') = Len(queue) + 1
      /\ \A j \in Jobs : Queued(j)' <=> Queued(j) \/ j = new
  BY <1>1, <1>2, AppendSorted DEF Queued
<1>4. /\ drain = "off" => drain' = "loop"
      /\ drain # "off" => drain' = drain
      /\ drain # "loop"
  <2>1. drain' = IF drain = "off" THEN "loop" ELSE drain
    BY DEF Push
  <2> QED
    BY <2>1 DEF HostIdle
<1>5. TypeOK'
  <2>1. drain' \in DrainStates /\ accepted' \in 0..MaxJobs
    BY <1>1, <1>4 DEF IInv, TypeOK, DrainStates
  <2>2. ack' \in [Jobs -> {"none", "executing", "queued"}]
    BY <1>1 DEF IInv, TypeOK, Push
  <2>3. WorkerTypeOK'
    BY DEF IInv, TypeOK, WorkerTypeOK
  <2> QED
    BY <1>3, <2>1, <2>2, <2>3 DEF IInv, TypeOK
<1>6. DrainInv'
  BY <1>4 DEF IInv, DrainInv
<1>7. OrderInv'
  <2>1. \A j \in Jobs : Queued(j) => jobToRun < j /\ j <= accepted
    BY DEF IInv, OrderInv
  <2>2. jobToRun <= accepted
    BY DEF IInv, OrderInv
  <2>3. \A j \in Jobs : Queued(j)' => jobToRun < j /\ j <= new
    BY <1>1, <1>3, <2>1, <2>2
  <2> QED
    BY <1>1, <1>3, <2>2, <2>3 DEF OrderInv
<1>8. PlaceInv'
  <2>1. \A j \in Jobs : Untouched(j)' <=> Untouched(j)
    BY DEF Untouched, NotStarted
  <2>2. \A j \in Jobs : j > accepted => Untouched(j)
    BY DEF IInv, PlaceInv
  <2>3. (\A j \in Jobs : Queued(j) => Untouched(j))'
    BY <1>1, <1>3, <2>1, <2>2 DEF IInv, PlaceInv
  <2>4. (drain = "sleep" => Untouched(jobToRun))'
    BY <1>4 DEF IInv, PlaceInv, Untouched, NotStarted
  <2>5. (drain = "running" => worker \notin undone /\ thread[worker] # "none")'
    BY <1>4 DEF IInv, PlaceInv
  <2>6. (\A j \in Jobs : j > accepted => Untouched(j))'
    BY <1>1, <2>1, <2>2
  <2>7. (\A j \in Jobs : Open(j) => Queued(j) \/ Held(j) \/ Running(j))'
    <3> SUFFICES ASSUME NEW j \in Jobs, Open(j)', j # new
                 PROVE  Queued(j)' \/ Held(j)' \/ Running(j)'
      BY <1>1, <1>3
    <3>1. Open(j)
      BY <1>1 DEF Open, Accepted
    <3>2. (Held(j) => Held(j)') /\ (Running(j) => Running(j)')
      BY <1>4 DEF Held, Running
    <3> QED
      BY <1>3, <3>1, <3>2 DEF IInv, PlaceInv
  <2> QED
    BY <2>3, <2>4, <2>5, <2>6, <2>7 DEF PlaceInv
<1>9. ThreadInv' /\ BoundInv'
  BY <1>3 DEF IInv, ThreadInv, WorkerInv, BoundInv, QueueIsBounded
<1> QED
  BY <1>5, <1>6, <1>7, <1>8, <1>9 DEF IInv

\* drainQueue starts job j, which may be the held one or the queue's first.
LEMMA StartIInv ==
  ASSUME IInv, worker = 0, NEW j \in Jobs, j <= accepted, Untouched(j),
         StartJob(j),
         queue' \in Seq(Jobs), Sorted(queue'), Len(queue') <= Len(queue),
         \A k \in Jobs : Queued(k)' => Queued(k) /\ j < k,
         \A k \in Jobs : Open(k) /\ k # j => Queued(k)',
         UNCHANGED << sleepLeft, saving, accepted, inline, undone, ack >>
  PROVE  IInv'
<1>1. \/ /\ Run(j)
         /\ drain' = "running" /\ jobToRun' = j /\ worker' = j
         /\ idleFor' = idleFor
      \/ /\ RunThrows(j)
         /\ drain' = "loop" /\ jobToRun' = 0 /\ worker' = 0
         /\ idleFor' = 0
  BY DEF StartJob
<1>2. WorkerTypeOK /\ WorkerTypeOK' /\ WorkerStep(j) /\ NotStarted(j)
  BY <1>1, WorkerTypeStep DEF IInv, TypeOK, WorkerStep, Untouched
<1>3. TypeOK'
  BY <1>1, <1>2 DEF IInv, TypeOK, DrainStates
<1>4. DrainInv'
  BY <1>1 DEF DrainInv
<1>5. OrderInv'
  <2>1. accepted \in Nat /\ \A k \in Jobs : Queued(k) => k <= accepted
    BY DEF IInv, TypeOK, OrderInv
  <2>2. jobToRun' = 0 \/ jobToRun' = j
    BY <1>1
  <2> QED
    BY <2>1, <2>2 DEF OrderInv
<1>6. PlaceInv'
  <2>1. \A k \in Jobs : k # j => /\ thread'[k] = thread[k]
                                 /\ settled'[k] = settled[k]
    BY <1>2, WorkerFrame
  <2>2. \A k \in Jobs : k # j /\ Untouched(k) => Untouched(k)'
    BY <2>1 DEF Untouched, NotStarted
  <2>3. (\A k \in Jobs : Queued(k) => Untouched(k))'
    BY <2>2 DEF IInv, PlaceInv
  <2>4. (drain = "sleep" => Untouched(jobToRun))'
    BY <1>1
  <2>5. (drain = "running" => worker \notin undone /\ thread[worker] # "none")'
    BY <1>1, <1>2 DEF Untouched, Run, WorkerTypeOK
  <2>6. (\A k \in Jobs : k > accepted => Untouched(k))'
    <3>1. \A k \in Jobs : k > accepted => Untouched(k) /\ k # j
      BY DEF IInv, TypeOK, PlaceInv
    <3> QED
      BY <2>2, <3>1
  <2>7. (\A k \in Jobs : Open(k) => Queued(k) \/ Held(k) \/ Running(k))'
    <3> SUFFICES ASSUME NEW k \in Jobs, Open(k)'
                 PROVE  Queued(k)' \/ Held(k)' \/ Running(k)'
      OBVIOUS
    <3>1. CASE k # j
      BY <2>1, <3>1 DEF Open, Accepted
    <3>2. CASE k = j
      <4>1. RunThrows(j) => settled'[j] # "pending"
        BY <1>2 DEF RunThrows, Settle, NotStarted, WorkerTypeOK
      <4> QED
        BY <1>1, <3>2, <4>1 DEF Open, Running
    <3> QED
      BY <3>1, <3>2
  <2> QED
    BY <2>3, <2>4, <2>5, <2>6, <2>7 DEF PlaceInv
<1>7. ThreadInv'
  <2>1. \A k \in Jobs : WorkerInv(k)
    BY DEF IInv, ThreadInv
  <2>2. ASSUME NEW k \in Jobs PROVE WorkerInv(k)'
    BY <1>1, <1>2, <2>1, WorkerInvStep
  <2>3. \A k \in Jobs : thread[k] # "running" /\ ~timer[k]
    BY DEF IInv, ThreadInv
  <2>4. \A k \in Jobs : k # j => thread'[k] = thread[k] /\ timer'[k] = timer[k]
    BY <1>2, WorkerFrame
  <2>5. RunThrows(j) => thread' = thread /\ timer' = timer
    BY DEF RunThrows
  <2>6. \A k \in Jobs : thread'[k] = "running" \/ timer'[k] => worker' = k
    BY <1>1, <2>3, <2>4, <2>5
  <2> QED
    BY <2>2, <2>6 DEF ThreadInv
<1>8. BoundInv'
  BY SeqOfJobs DEF IInv, TypeOK, BoundInv, QueueIsBounded
<1> QED
  BY <1>3, <1>4, <1>5, <1>6, <1>7, <1>8 DEF IInv

\* interruptJob takes a queued job out.
LEMMA InterruptQueuedIInv ==
  ASSUME IInv, NEW i \in 1..Len(queue), InterruptQueued(i)
  PROVE  IInv'
<1> DEFINE out == queue[i]
<1> USE DEF workerVars
<1>1. /\ queue' = RemoveAt(queue, i) /\ undone' = undone \cup {out}
      /\ UNCHANGED << drain, jobToRun, worker, idleFor, sleepLeft, saving,
                      accepted, inline, ack, workerVars >>
  BY DEF InterruptQueued
<1>2. queue \in Seq(Jobs) /\ Sorted(queue) /\ out \in Jobs /\ Queued(out)
  BY SeqOfJobs DEF IInv, TypeOK, OrderInv, Queued, Contains
<1>3. /\ queue' \in Seq(Jobs) /\ Sorted(queue')
      /\ Len(queue') = Len(queue) - 1
      /\ \A j \in Jobs : Queued(j)' <=> Queued(j) /\ j # out
  BY <1>1, <1>2, RemoveAtSorted DEF Queued
<1>4. TypeOK'
  BY <1>1, <1>2, <1>3 DEF IInv, TypeOK, WorkerTypeOK
<1>5. DrainInv'
  <2>1. drain # "off"
    BY <1>2, SeqOfJobs, EmptySeq DEF IInv, DrainInv
  <2> QED
    BY <1>1, <2>1 DEF IInv, DrainInv
<1>6. OrderInv'
  BY <1>1, <1>3 DEF IInv, OrderInv
<1>7. PlaceInv'
  <2>1. out # jobToRun /\ out # worker /\ out <= accepted
    BY <1>2 DEF IInv, TypeOK, DrainStates, DrainInv, OrderInv
  <2>2. \A j \in Jobs : j # out /\ Untouched(j) => Untouched(j)'
    BY <1>1 DEF Untouched, NotStarted
  <2>3. (\A j \in Jobs : Queued(j) => Untouched(j))'
    BY <1>3, <2>2 DEF IInv, PlaceInv
  <2>4. (drain = "sleep" => Untouched(jobToRun))'
    BY <1>1, <2>1 DEF IInv, PlaceInv, Untouched, NotStarted
  <2>5. (drain = "running" => worker \notin undone /\ thread[worker] # "none")'
    BY <1>1, <2>1 DEF IInv, PlaceInv
  <2>6. (\A j \in Jobs : j > accepted => Untouched(j))'
    <3>1. \A j \in Jobs : j > accepted => Untouched(j) /\ j # out
      BY <1>2, <2>1 DEF IInv, TypeOK, PlaceInv
    <3> QED
      BY <1>1, <2>2, <3>1
  <2>7. (\A j \in Jobs : Open(j) => Queued(j) \/ Held(j) \/ Running(j))'
    <3>1. \A j \in Jobs : Open(j)' => Open(j) /\ j # out
      BY <1>1 DEF Open, Accepted
    <3> QED
      BY <1>1, <1>3, <3>1 DEF IInv, PlaceInv, Held, Running
  <2> QED
    BY <2>3, <2>4, <2>5, <2>6, <2>7 DEF PlaceInv
<1>8. ThreadInv' /\ BoundInv'
  BY <1>1, <1>2, <1>3, SeqOfJobs
  DEF IInv, TypeOK, ThreadInv, WorkerInv, BoundInv, QueueIsBounded
<1> QED
  BY <1>4, <1>5, <1>6, <1>7, <1>8 DEF IInv

\* What drainQueue takes off the queue is next, and is all that changes there.
LEMMA DrainTakesHead ==
  ASSUME IInv, DrainTakes
  PROVE  /\ queue' \in Seq(Jobs) /\ Sorted(queue') /\ Len(queue') <= Len(queue)
         /\ Head(queue) \in Jobs /\ Queued(Head(queue)) /\ Untouched(Head(queue))
         /\ Head(queue) <= accepted
         /\ \A k \in Jobs : Queued(k)' <=> Queued(k) /\ k # Head(queue)
         /\ \A k \in Jobs : Queued(k)' => Head(queue) < k
         /\ \A k \in Jobs : Open(k) => Queued(k)
<1>1. /\ queue \in Seq(Jobs) /\ Sorted(queue) /\ queue # << >>
      /\ queue' = Tail(queue) /\ drain = "loop" /\ worker = 0
  BY DEF IInv, TypeOK, OrderInv, DrainTakes
<1>2. /\ queue' \in Seq(Jobs) /\ Sorted(queue') /\ Len(queue') = Len(queue) - 1
      /\ Head(queue) \in Jobs /\ Queued(Head(queue))
      /\ \A k \in Jobs : Queued(k)' <=> Queued(k) /\ k # Head(queue)
      /\ \A k \in Jobs : Queued(k)' => Head(queue) < k
  BY <1>1, TailSorted DEF Queued
<1>3. \A k \in Jobs : Open(k) => Queued(k)
  BY <1>1 DEF IInv, PlaceInv, Held, Running
<1> QED
  BY <1>1, <1>2, <1>3, SeqOfJobs DEF IInv, OrderInv, PlaceInv

LEMMA DrainTakesIInv ==
  ASSUME IInv, DrainTakes
  PROVE  IInv'
<1> DEFINE next == Head(queue)
<1> USE DEF workerVars
<1>1. /\ drain = "loop" /\ worker = 0 /\ jobToRun = 0
      /\ UNCHANGED << saving, accepted, inline, undone, ack >>
  BY DEF DrainTakes, IInv, DrainInv
<1>2. CASE /\ idleFor >= MinInterval /\ StartJob(next) /\ UNCHANGED sleepLeft
  BY <1>1, <1>2, DrainTakesHead, StartIInv
<1>3. CASE /\ idleFor < MinInterval /\ drain' = "sleep" /\ jobToRun' = next
           /\ sleepLeft' = MinInterval - idleFor
           /\ UNCHANGED << worker, idleFor, workerVars >>
  <2>1. TypeOK'
    <3>1. sleepLeft' \in 0..MinInterval
      BY <1>3 DEF IInv, TypeOK
    <3>2. WorkerTypeOK'
      BY <1>3 DEF IInv, TypeOK, WorkerTypeOK
    <3> QED
      BY <1>1, <1>3, <3>1, <3>2, DrainTakesHead DEF IInv, TypeOK, DrainStates
  <2>2. DrainInv'
    <3>1. MinInterval <= idleFor' + sleepLeft'
      BY <1>3 DEF IInv, TypeOK
    <3> QED
      BY <1>1, <1>3, <3>1, DrainTakesHead DEF DrainInv
  <2>3. OrderInv'
    BY <1>1, <1>3, DrainTakesHead DEF IInv, OrderInv
  <2>4. PlaceInv'
    <3>1. \A k \in Jobs : Untouched(k)' <=> Untouched(k)
      BY <1>1, <1>3 DEF Untouched, NotStarted
    <3>2. (drain = "sleep" => Untouched(jobToRun))'
      BY <1>1, <1>3, DrainTakesHead DEF Untouched, NotStarted
    <3>3. \A k \in Jobs : Open(k)' => Queued(k)' \/ k = next
      <4>1. \A k \in Jobs : Open(k)' => Open(k)
        BY <1>1, <1>3 DEF Open, Accepted
      <4> QED
        BY <4>1, DrainTakesHead
    <3>4. (\A k \in Jobs : Queued(k) => Untouched(k))'
      BY <3>1, DrainTakesHead DEF IInv, PlaceInv
    <3>5. (\A k \in Jobs : k > accepted => Untouched(k))'
      BY <1>1, <3>1 DEF IInv, PlaceInv
    <3>6. (drain = "running" => worker \notin undone /\ thread[worker] # "none")'
      BY <1>3
    <3>7. (\A k \in Jobs : Open(k) => Queued(k) \/ Held(k) \/ Running(k))'
      BY <1>3, <3>3 DEF Held
    <3> QED
      BY <3>2, <3>4, <3>5, <3>6, <3>7 DEF PlaceInv
  <2>5. ThreadInv'
    BY <1>3 DEF IInv, ThreadInv, WorkerInv
  <2>6. BoundInv'
    BY <1>1, DrainTakesHead, SeqOfJobs DEF IInv, TypeOK, BoundInv, QueueIsBounded
  <2> QED
    BY <2>1, <2>2, <2>3, <2>4, <2>5, <2>6 DEF IInv
<1> QED
  BY <1>2, <1>3 DEF DrainTakes, SleepTime

LEMMA SleepDoneIInv ==
  ASSUME IInv, SleepDone
  PROVE  IInv'
<1>1. /\ drain = "sleep" /\ worker = 0 /\ jobToRun \in Jobs /\ StartJob(jobToRun)
      /\ UNCHANGED << queue, sleepLeft, saving, accepted, inline, undone, ack >>
  BY DEF SleepDone, IInv, DrainInv
<1>2. jobToRun <= accepted /\ Untouched(jobToRun)
  BY <1>1 DEF IInv, OrderInv, PlaceInv
<1>3. queue' \in Seq(Jobs) /\ Sorted(queue') /\ Len(queue') <= Len(queue)
  BY <1>1, SeqOfJobs DEF IInv, TypeOK, OrderInv
<1>4. \A k \in Jobs : Queued(k)' => Queued(k) /\ jobToRun < k
  BY <1>1 DEF IInv, OrderInv, Queued
<1>5. \A k \in Jobs : Open(k) /\ k # jobToRun => Queued(k)'
  BY <1>1 DEF IInv, PlaceInv, Held, Running, Queued
<1> QED
  BY <1>1, <1>2, <1>3, <1>4, <1>5, StartIInv

\* The job of this.worker is settled: dropping it loses nothing.
LEMMA RunSettledIInv ==
  ASSUME IInv, RunSettled
  PROVE  IInv'
<1> USE DEF workerVars
<1>1. /\ drain = "running" /\ settled[worker] # "pending"
      /\ drain' = "loop" /\ jobToRun' = 0 /\ worker' = 0 /\ idleFor' = 0
      /\ UNCHANGED << queue, sleepLeft, saving, accepted, inline, undone, ack,
                      workerVars >>
  BY DEF RunSettled, RunIsSettled
<1>2. worker = jobToRun /\ worker \in Jobs
  BY <1>1 DEF IInv, DrainInv
<1>3. TypeOK' /\ DrainInv'
  BY <1>1 DEF IInv, TypeOK, WorkerTypeOK, DrainStates, DrainInv
<1>4. OrderInv'
  BY <1>1 DEF IInv, TypeOK, OrderInv, Queued
<1>5. PlaceInv'
  <2>1. \A k \in Jobs : Open(k)' => Open(k) /\ k # worker
    BY <1>1 DEF Open, Accepted
  <2>2. \A k \in Jobs : Untouched(k)' <=> Untouched(k)
    BY <1>1 DEF Untouched, NotStarted
  <2>3. \A k \in Jobs : Queued(k)' <=> Queued(k)
    BY <1>1 DEF Queued
  <2>4. \A k \in Jobs : Open(k) /\ k # worker => Queued(k)
    BY <1>1 DEF IInv, PlaceInv, Held, Running
  <2> QED
    BY <1>1, <2>1, <2>2, <2>3, <2>4 DEF IInv, PlaceInv
<1>6. ThreadInv'
  <2>1. \A k \in Jobs : thread[k] # "running" /\ ~timer[k]
    BY <1>1, <1>2 DEF IInv, ThreadInv, WorkerInv
  <2> QED
    BY <1>1, <2>1 DEF IInv, ThreadInv, WorkerInv
<1>7. BoundInv'
  BY <1>1 DEF IInv, BoundInv, QueueIsBounded
<1> QED
  BY <1>3, <1>4, <1>5, <1>6, <1>7 DEF IInv

\* Steps that touch neither the queue nor a worker.
LEMMA OtherStepIInv ==
  ASSUME IInv,
         ExecInline \/ SaveFails \/ DrainEnds \/ Tick \/ UNCHANGED vars
  PROVE  IInv'
<1> USE DEF vars, runnerVars, workerVars
<1>1. /\ UNCHANGED << queue, jobToRun, worker, accepted, inline, undone, ack,
                      workerVars >>
      /\ drain' = drain \/ (drain = "loop" /\ drain' = "loop")
           \/ (drain = "loop" /\ drain' = "off" /\ queue = << >>)
  BY DEF ExecInline, SaveFails, DrainEnds, Tick, IInv, DrainInv
<1>2. /\ saving' \in 0..MaxSaving /\ accepted + saving' <= MaxJobs
      /\ Len(queue) + saving' <= Capacity + MaxSaving
  <2>1. /\ saving \in 0..MaxSaving /\ accepted \in Nat /\ Len(queue) \in Nat
        /\ accepted + saving <= MaxJobs
        /\ Len(queue) + saving <= Capacity + MaxSaving
    BY SeqOfJobs DEF IInv, TypeOK, BoundInv, QueueIsBounded
  <2>2. CASE ExecInline
    BY <2>1, <2>2 DEF ExecInline, RoomForJob, QueueHasRoom
  <2>3. CASE SaveFails
    BY <2>1, <2>3 DEF SaveFails
  <2>4. CASE DrainEnds \/ Tick \/ UNCHANGED vars
    BY <2>1, <2>4 DEF DrainEnds, Tick
  <2> QED
    BY <2>2, <2>3, <2>4
<1>3. /\ idleFor' \in 0..MinInterval /\ sleepLeft' \in 0..MinInterval
      /\ MinInterval <= idleFor + sleepLeft => MinInterval <= idleFor' + sleepLeft'
  BY DEF IInv, TypeOK, ExecInline, SaveFails, DrainEnds, Tick
<1>4. TypeOK'
  BY <1>1, <1>2, <1>3 DEF IInv, TypeOK, WorkerTypeOK, DrainStates
<1>5. DrainInv' /\ OrderInv' /\ BoundInv'
  BY <1>1, <1>2, <1>3
  DEF IInv, DrainInv, OrderInv, Queued, BoundInv, QueueIsBounded
<1>6. PlaceInv'
  <2>1. \A j \in Jobs : /\ Untouched(j)' <=> Untouched(j)
                        /\ Open(j)' <=> Open(j)
                        /\ Queued(j)' <=> Queued(j)
                        /\ Running(j)' <=> Running(j)
    BY <1>1 DEF Untouched, NotStarted, Open, Accepted, Queued, Running
  <2>2. \A j \in Jobs : Held(j) => Held(j)'
    BY <1>1 DEF Held
  <2>3. (drain = "sleep" => Untouched(jobToRun))'
    BY <1>1 DEF IInv, PlaceInv, Untouched, NotStarted
  <2> QED
    BY <1>1, <2>1, <2>2, <2>3 DEF IInv, PlaceInv
<1>7. ThreadInv'
  BY <1>1 DEF IInv, ThreadInv, WorkerInv
<1> QED
  BY <1>4, <1>5, <1>6, <1>7 DEF IInv

LEMMA NextIInv == IInv /\ [Next]_vars => IInv'
<1> SUFFICES ASSUME IInv, [Next]_vars PROVE IInv'
  OBVIOUS
<1>1. CASE ExecWire
  <2>1. accepted + 1 + saving <= MaxJobs /\ Len(queue) + 1 + saving <= Capacity + MaxSaving
    BY <1>1, SeqOfJobs
    DEF ExecWire, RoomForJob, QueueHasRoom, IInv, TypeOK, BoundInv, QueueIsBounded
  <2> QED
    BY <1>1, <2>1, PushIInv DEF ExecWire, Push, IInv, TypeOK
<1>2. CASE SaveDone
  <2>1. /\ saving' \in 0..MaxSaving /\ accepted + 1 + saving' <= MaxJobs
        /\ accepted + 1 <= MaxJobs /\ accepted + 1 \in Jobs
        /\ Len(queue) + 1 + saving' <= Capacity + MaxSaving
    BY <1>2, SeqOfJobs DEF SaveDone, IInv, TypeOK, BoundInv, QueueIsBounded
  <2>2. inline' \in SUBSET Jobs /\ accepted' = accepted + 1
    BY <1>2, <2>1 DEF SaveDone, Push, IInv, TypeOK
  <2> QED
    BY <1>2, <2>1, <2>2, PushIInv DEF SaveDone
<1>3. CASE \E i \in 1..Len(queue) : InterruptQueued(i)
  BY <1>3, InterruptQueuedIInv
<1>4. CASE InterruptRunning
  <2>1. worker \in Jobs /\ LateStep(worker) /\ UNCHANGED runnerVars
    BY <1>4 DEF InterruptRunning, LateStep, IInv, TypeOK
  <2> QED
    BY <2>1, LateStepIInv
<1>5. CASE DrainTakes
  BY <1>5, DrainTakesIInv
<1>6. CASE SleepDone
  BY <1>6, SleepDoneIInv
<1>7. CASE RunSettled
  BY <1>7, RunSettledIInv
<1>8. CASE \E j \in Jobs : HandleWorkerEvent(j) \/ ScriptThread(j)
  <2>1. PICK j \in Jobs : HandleWorkerEvent(j) \/ ScriptThread(j)
    BY <1>8
  <2>2. LateStep(j) /\ UNCHANGED runnerVars
    BY <2>1 DEF HandleWorkerEvent, ScriptThread, LateStep
  <2> QED
    BY <2>2, LateStepIInv
<1>9. CASE ExecInline \/ SaveFails \/ DrainEnds \/ Tick \/ UNCHANGED vars
  BY <1>9, OtherStepIInv
<1> QED
  BY <1>1, <1>2, <1>3, <1>4, <1>5, <1>6, <1>7, <1>8, <1>9 DEF Next

-------------------------------------------------------------------------------
(* The theorems.                                                           *)

\* The inductive invariant holds of every behaviour of the runner.
THEOREM Invariance == Spec => []IInv
<1> QED
  BY InitIInv, NextIInv, PTL DEF Spec

\* Type correctness of the runner and its workers.
THEOREM TypeCorrect == Spec => []TypeOK
<1>1. IInv => TypeOK
  BY DEF IInv
<1> QED
  BY <1>1, Invariance, PTL

\* No accepted job is lost or is in two places (execJob, interruptJob,
\* drainQueue), for any number of jobs and any capacity.
THEOREM JobConservation == Spec => []JobsAreConserved
<1>1. IInv => JobsAreConserved
  <2> SUFFICES ASSUME IInv PROVE JobsAreConserved
    OBVIOUS
  <2>1. \A i, k \in 1..Len(queue) : queue[i] = queue[k] => i = k
    BY SeqOfJobs DEF IInv, TypeOK, OrderInv, Sorted
  <2>2. ASSUME NEW j \in Jobs, Queued(j)
        PROVE  Open(j) /\ thread[j] = "none" /\ ~Held(j) /\ ~Running(j)
    <3>1. Untouched(j) /\ jobToRun < j /\ j <= accepted
      BY <2>2 DEF IInv, PlaceInv, OrderInv
    <3> QED
      BY <3>1 DEF IInv, TypeOK, DrainStates, DrainInv, Untouched, NotStarted,
         Open, Accepted, Held, Running
  <2>3. ASSUME NEW j \in Jobs, Held(j)
        PROVE  Open(j) /\ thread[j] = "none" /\ ~Running(j)
    BY <2>3 DEF IInv, TypeOK, DrainInv, OrderInv, PlaceInv, Untouched,
       NotStarted, Open, Accepted, Held, Running
  <2>4. ASSUME NEW j \in Jobs, Running(j)
        PROVE  drain = "running" /\ j \in Accepted \ undone
    BY <2>4 DEF IInv, TypeOK, DrainStates, DrainInv, OrderInv, PlaceInv,
       Accepted, Running
  <2>5. \A j \in Jobs : Open(j) => Queued(j) \/ Held(j) \/ Running(j)
    BY DEF IInv, PlaceInv
  <2> QED
    BY <2>1, <2>2, <2>3, <2>4, <2>5 DEF JobsAreConserved
<1> QED
  BY <1>1, Invariance, PTL

\* drainQueue never stops while there is something left to run.
THEOREM NoLostWakeUp == Spec => []NoStrandedQueue
<1>1. IInv => NoStrandedQueue
  <2> SUFFICES ASSUME IInv, drain = "off"
               PROVE  queue = << >> /\ worker = 0 /\ ~\E j \in Jobs : Open(j)
    BY DEF NoStrandedQueue
  <2>1. queue = << >> /\ worker = 0
    BY DEF IInv, DrainInv
  <2>2. \A j \in Jobs : ~Queued(j) /\ ~Held(j) /\ ~Running(j)
    BY <2>1 DEF Queued, Contains, Held, Running
  <2> QED
    BY <2>1, <2>2 DEF IInv, PlaceInv
<1> QED
  BY <1>1, Invariance, PTL

\* A thread nobody has asked to stop belongs to the current job.
THEOREM ThreadControl == Spec => []OneUnstoppedThread
<1>1. IInv => OneUnstoppedThread
  BY DEF IInv, ThreadInv, WorkerInv, OneUnstoppedThread, Running
<1> QED
  BY <1>1, Invariance, PTL

\* The capacity can be exceeded by suspended saves only.
THEOREM QueueBound == Spec => []QueueIsBounded
<1>1. IInv => QueueIsBounded
  BY DEF IInv, BoundInv
<1> QED
  BY <1>1, Invariance, PTL

\* Timeout, 'error' and 'exit' report a failed job once between them.
THEOREM SingleFailureReport == Spec => []FailuresReportedOnce
<1>1. IInv => FailuresReportedOnce
  BY WorkerInvImplies DEF IInv, TypeOK, ThreadInv, FailuresReportedOnce
<1> QED
  BY <1>1, Invariance, PTL

\* An armed timeout belongs to the current, undecided job.
THEOREM TimerControl == Spec => []NoStaleTimer
<1>1. IInv => NoStaleTimer
  BY WorkerInvImplies DEF IInv, TypeOK, ThreadInv, NoStaleTimer, Running
<1> QED
  BY <1>1, Invariance, PTL

\* Requests from the wire alone keep the queue within its capacity: what goes
\* over it are local jobs whose script is being saved.
THEOREM WireQueueBound ==
  ASSUME MaxSaving = 0 PROVE Spec => [](Len(queue) <= Capacity)
<1>1. IInv => Len(queue) <= Capacity
  BY LenProperties DEF IInv, TypeOK, BoundInv, QueueIsBounded
<1> QED
  BY <1>1, Invariance, PTL

\* drainQueue never waits for a run that nothing will settle any more.
THEOREM RunsCanEnd == Spec => []AwaitedRunCanEnd
<1>1. IInv => AwaitedRunCanEnd
  BY DEF IInv, DrainInv, PlaceInv, ThreadInv, WorkerInv, AwaitedRunCanEnd
<1> QED
  BY <1>1, Invariance, PTL

\* First in, first out, one at a time: no step starts a job while one that
\* was accepted before it is open.
THEOREM StartOrder == Spec => StartsInOrder
<1> DEFINE Ordered == \A j \in Jobs : NotStarted(j) /\ ~NotStarted(j)' =>
                        \A k \in 1..(j - 1) : ~Open(k)
<1>1. IInv /\ [Next]_vars => Ordered
  <2> SUFFICES ASSUME IInv, [Next]_vars, NEW j \in Jobs,
                      NotStarted(j), ~NotStarted(j)',
                      NEW k \in 1..(j - 1), Open(k)
               PROVE  FALSE
    OBVIOUS
  <2>1. k \in Jobs /\ k < j
    OBVIOUS
  <2>2. CASE DrainTakes
    <3>1. j = Head(queue)
      <4>1. Head(queue) \in Jobs
        BY <2>2, DrainTakesHead
      <4>2. CASE StartJob(Head(queue))
        BY <4>1, <4>2 DEF StartJob, Run, RunThrows, Settle, NotStarted,
                          IInv, TypeOK, WorkerTypeOK
      <4>3. CASE UNCHANGED workerVars
        BY <4>3 DEF workerVars, NotStarted
      <4> QED
        BY <2>2, <4>2, <4>3 DEF DrainTakes
    <3>2. Queued(k) /\ (Queued(k)' <=> Queued(k) /\ k # Head(queue))
          /\ (Queued(k)' => Head(queue) < k)
      BY <2>1, <2>2, DrainTakesHead
    <3> QED
      BY <2>1, <3>1, <3>2
  <2>3. CASE SleepDone
    <3>1. drain = "sleep" /\ jobToRun \in Jobs /\ worker = 0 /\ StartJob(jobToRun)
      BY <2>3 DEF SleepDone, IInv, DrainInv
    <3>2. j = jobToRun
      BY <3>1 DEF StartJob, Run, RunThrows, Settle, NotStarted,
                          IInv, TypeOK, WorkerTypeOK
    <3>3. Queued(k) => jobToRun < k
      BY <2>1 DEF IInv, OrderInv
    <3> QED
      BY <2>1, <3>1, <3>2, <3>3 DEF IInv, PlaceInv, Held, Running
  <2>4. CASE \E m \in Jobs : LateStep(m)
    <3>1. PICK m \in Jobs : LateStep(m)
      BY <2>4
    <3> QED
      BY <3>1, LateStepWindsDown DEF IInv, TypeOK, ThreadInv, NotStarted
  <2>5. CASE UNCHANGED workerVars
    BY <2>5 DEF workerVars, NotStarted
  <2>6. InterruptRunning => \E m \in Jobs : LateStep(m)
    BY DEF InterruptRunning, LateStep, IInv, TypeOK
  <2>7. (\E m \in Jobs : HandleWorkerEvent(m) \/ ScriptThread(m))
          => \E m \in Jobs : LateStep(m)
    BY DEF HandleWorkerEvent, ScriptThread, LateStep
  <2> QED
    BY <2>2, <2>3, <2>4, <2>5, <2>6, <2>7
    DEF Next, vars, ExecWire, ExecInline, SaveDone, SaveFails, InterruptQueued,
        DrainEnds, RunSettled, Tick
<1> QED
  BY <1>1, Invariance, PTL DEF Spec, StartsInOrder

\* The minimum interval is kept, whatever is accepted, undone or fails to
\* start in between.
THEOREM IntervalKept == Spec => MinIntervalIsKept
<1> DEFINE Kept == /\ worker # 0 /\ worker' = 0 => idleFor' = 0
                   /\ worker = 0 /\ worker' # 0 => idleFor >= MinInterval
<1>1. IInv /\ [Next]_vars => Kept
  <2> SUFFICES ASSUME IInv, [Next]_vars PROVE Kept
    OBVIOUS
  <2>1. CASE DrainTakes
    BY <2>1 DEF DrainTakes, StartJob
  <2>2. CASE SleepDone
    <3>1. worker = 0 /\ MinInterval <= idleFor + sleepLeft /\ sleepLeft = 0
      BY <2>2 DEF SleepDone, IInv, DrainInv
    <3> QED
      BY <3>1 DEF IInv, TypeOK
  <2>3. CASE RunSettled
    BY <2>3 DEF RunSettled
  <2>4. CASE UNCHANGED worker
    BY <2>4
  <2> QED
    BY <2>1, <2>2, <2>3, <2>4
    DEF Next, vars, runnerVars, ExecWire, ExecInline, SaveDone, SaveFails,
        InterruptQueued, InterruptRunning, HandleWorkerEvent, ScriptThread,
        DrainEnds, Tick
<1> QED
  BY <1>1, Invariance, PTL DEF Spec, MinIntervalIsKept

\* execJob's answer is exact: "executing" if and only if no job is open.
THEOREM AckIsExact == Spec => AckTellsThePosition
<1> DEFINE Exact == \A j \in Jobs : j \in Accepted' \ Accepted =>
                      (ack'[j] = "executing" <=> ~\E k \in Jobs : Open(k))
<1>1. ASSUME IInv, HostIdle
      PROVE  worker = 0 /\ drain = "off" <=> ~\E k \in Jobs : Open(k)
  <2>1. CASE drain = "off"
    <3>1. worker = 0 /\ \A k \in Jobs : ~Queued(k) /\ ~Held(k) /\ ~Running(k)
      BY <1>1, <2>1 DEF IInv, DrainInv, Queued, Contains, Held, Running
    <3> QED
      BY <1>1, <2>1, <3>1 DEF IInv, PlaceInv
  <2>2. CASE drain = "sleep"
    <3>1. jobToRun \in Jobs /\ Open(jobToRun)
      BY <1>1, <2>2
      DEF IInv, DrainInv, OrderInv, PlaceInv, Untouched, NotStarted, Open, Accepted
    <3> QED
      BY <2>2, <3>1
  <2>3. CASE drain = "running"
    <3>1. worker \in Jobs /\ Open(worker)
      BY <1>1, <2>3
      DEF IInv, TypeOK, DrainInv, OrderInv, PlaceInv, HostIdle, RunIsSettled,
          Open, Accepted
    <3> QED
      BY <2>3, <3>1
  <2> QED
    BY <1>1, <2>1, <2>2, <2>3 DEF IInv, TypeOK, DrainStates, HostIdle
<1>2. IInv /\ [Next]_vars => Exact
  <2> SUFFICES ASSUME IInv, [Next]_vars, NEW j \in Jobs, j \in Accepted' \ Accepted
               PROVE  ack'[j] = "executing" <=> ~\E k \in Jobs : Open(k)
    OBVIOUS
  <2>1. CASE ExecWire \/ SaveDone
    <3>1. HostIdle /\ Push(accepted + 1)
      BY <2>1 DEF ExecWire, SaveDone
    <3>2. j = accepted + 1
      BY <3>1 DEF Push, Accepted, IInv, TypeOK
    <3>3. ack'[j] = IF worker = 0 /\ drain = "off" THEN "executing" ELSE "queued"
      BY <3>1, <3>2 DEF Push, ShouldStartNow, IInv, TypeOK
    <3> QED
      BY <1>1, <3>1, <3>3
  <2>2. CASE UNCHANGED accepted
    BY <2>2 DEF Accepted
  <2> QED
    BY <2>1, <2>2
    DEF Next, vars, runnerVars, ExecInline, SaveFails, InterruptQueued,
        InterruptRunning, DrainTakes, DrainEnds, SleepDone, RunSettled,
        HandleWorkerEvent, ScriptThread, Tick
<1> QED
  BY <1>2, Invariance, PTL DEF Spec, AckTellsThePosition

=============================================================================
