--------------------------- MODULE JobQueueProofs ---------------------------
(***************************************************************************)
(* Theorems about JobQueue, for any sets of jobs, workers and merchants    *)
(* and any bounds: type correctness; no interleaving strands a queued job; *)
(* no job is given up before its last attempt; jobs:processing counts the  *)
(* holders of an id; an id has one carrier at a time, so that a job runs   *)
(* once, ends once and repeats its effects only after a crash; and the     *)
(* rows follow JobLifecycle.                                               *)
(***************************************************************************)
EXTENDS JobQueue, FiniteSetTheorems, TLAPS

-----------------------------------------------------------------------------
\* The strengthening the retry bound needs.

\* An id travels only once its row has been inserted, and the row is inserted
\* by the one dispatch that made the id.
IdsAreCreated ==
  /\ \A j \in Jobs : dispatch[j] \in {"none", "create"} => status[j] = "none"
  /\ \A j \in Jobs : InQueue(j) \/ j \in stuck \/ dispatch[j] = "push" =>
       status[j] # "none"
  /\ \A w \in Workers : pc[w] # "idle" => status[job[w]] # "none"
  /\ requeuing # NoJob => status[requeuing] # "none"
  /\ \A j \in old : status[j] # "none"

\* No call was lost for this job; a crash may have lost what carried it.
Lossless(j) == faults = 0 \/ j \notin faulted

\* The retry count a worker read is never ahead of the row, and is behind it
\* once the worker has counted its own failure.
SeenIsBehind ==
  \A w \in Workers : pc[w] # "idle" /\ HasRow(job[w]) /\ Lossless(job[w]) =>
    /\ pc[w] \in {"mark", "process", "increment"} => seen[w] <= retries[job[w]]
    /\ pc[w] = "settle" => seen[w] + 1 <= retries[job[w]]

RetryInv == IdsAreCreated /\ SeenIsBehind /\ FailedIsExhausted

-----------------------------------------------------------------------------
\* The calls keep the types of what they change.

LEMMA FaultType ==
  ASSUME TypeOK, NEW j \in Jobs, SilentFault(j) \/ NoFault
  PROVE  faults' \in Nat /\ faulted' \subseteq Jobs
BY DEF TypeOK, SilentFault, NoFault

LEMMA UpdateStatusType ==
  ASSUME TypeOK, NEW j \in Jobs, NEW s \in Statuses, UpdateStatus(j, s)
  PROVE  /\ status' \in [Jobs -> Statuses] /\ old' \subseteq Jobs
         /\ retries' = retries /\ installed' = installed
         /\ faults' \in Nat /\ faulted' \subseteq Jobs
<1>1. SilentFault(j) \/ NoFault
  BY DEF UpdateStatus
<1>2. faults' \in Nat /\ faulted' \subseteq Jobs
  BY <1>1, FaultType
<1>3. QED
  BY <1>2 DEF UpdateStatus, TypeOK, HasRow, SilentFault, NoFault

LEMMA IncrementRetriesType ==
  ASSUME TypeOK, NEW j \in Jobs, IncrementRetries(j)
  PROVE  /\ retries' \in [Jobs -> Nat] /\ old' \subseteq Jobs
         /\ status' = status /\ installed' = installed
         /\ faults' \in Nat /\ faulted' \subseteq Jobs
<1>1. SilentFault(j) \/ NoFault
  BY DEF IncrementRetries
<1>2. faults' \in Nat /\ faulted' \subseteq Jobs
  BY <1>1, FaultType
<1>3. retries' \in [Jobs -> Nat]
  BY DEF IncrementRetries, TypeOK, HasRow, SilentFault, NoFault
<1>4. old' \subseteq Jobs
  BY DEF IncrementRetries, TypeOK
<1>5. QED
  BY <1>2, <1>3, <1>4 DEF IncrementRetries

LEMMA PushType ==
  ASSUME TypeOK, NEW j \in Jobs, Push(j)
  PROVE  queue' \in Seq(Jobs) /\ faults' \in Nat /\ faulted' \subseteq Jobs
<1>1. SilentFault(j) \/ NoFault
  BY DEF Push
<1>2. faults' \in Nat /\ faulted' \subseteq Jobs
  BY <1>1, FaultType
<1>3. queue \in Seq(Jobs)
  BY DEF TypeOK
<1>4. queue' = Append(queue, j) \/ queue' = queue
  BY DEF Push
<1>5. QED
  BY <1>2, <1>3, <1>4

\* The variables are typed in every reachable state (all of jobs/ and queue/).
THEOREM TypeCorrect == Spec => []TypeOK
<1>1. Init => TypeOK
  BY JobQueueAssumption DEF Init, TypeOK, Statuses, DispatchStage, WorkerPC
<1>2. TypeOK /\ [Next]_vars => TypeOK'
  <2> SUFFICES ASSUME TypeOK, [Next]_vars PROVE TypeOK'
    OBVIOUS
  <2> USE JobQueueAssumption
  <2>1. ASSUME NEW j \in Jobs, BeginDispatch(j) PROVE TypeOK'
    <3>1. SilentFault(j) \/ NoFault
      BY <2>1 DEF BeginDispatch
    <3>2. faults' \in Nat /\ faulted' \subseteq Jobs
      BY <3>1, FaultType
    <3>3. QED
      BY <2>1, <3>2 DEF BeginDispatch, SilentFault, NoFault, TypeOK, DispatchStage,
         dbVars, redisVars, workVars, sweepVars
  <2>2. ASSUME NEW j \in Jobs, CreateRow(j) PROVE TypeOK'
    <3>1. SilentFault(j) \/ NoFault
      BY <2>2 DEF CreateRow
    <3>2. faults' \in Nat /\ faulted' \subseteq Jobs
      BY <3>1, FaultType
    <3>3. status' \in [Jobs -> Statuses]
      BY <2>2 DEF CreateRow, TypeOK, Statuses
    <3>4. dispatch' \in [Jobs -> DispatchStage]
      BY <2>2 DEF CreateRow, TypeOK, DispatchStage
    <3>5. QED
      BY <2>2, <3>2, <3>3, <3>4 DEF CreateRow, TypeOK, redisVars, workVars, sweepVars
  <2>3. ASSUME NEW j \in Jobs, PushNew(j) PROVE TypeOK'
    BY <2>3, PushType DEF PushNew, TypeOK, DispatchStage, dbVars, workVars, sweepVars
  <2>4. ASSUME NEW j \in Jobs, Age(j) PROVE TypeOK'
    BY <2>4 DEF Age, TypeOK, NoFault, redisVars, workVars, sweepVars
  <2>5. ASSUME NEW w \in Workers, WorkerStep(w) PROVE TypeOK'
    <3> USE DEF Goto
    <3>1. CASE Pop(w)
      <4>1. Head(queue) \in Jobs /\ queue' \in Seq(Jobs)
        BY <3>1 DEF Pop, TypeOK
      <4>2. pc' \in [Workers -> WorkerPC] /\ job' \in [Workers -> Jobs \cup {NoJob}]
        BY <3>1, <4>1 DEF Pop, TypeOK, WorkerPC
      <4>3. \A v \in Workers : pc'[v] = "idle" <=> job'[v] = NoJob
        BY <3>1, <4>1 DEF Pop, TypeOK
      <4>4. inflight' \in [Jobs -> Nat]
        BY <3>1, <4>1 DEF Pop, TypeOK
      <4>5. QED
        BY <3>1, <4>1, <4>2, <4>3, <4>4 DEF Pop, TypeOK, NoFault, dbVars, sweepVars
    <3> SUFFICES ASSUME pc[w] # "idle" PROVE TypeOK'
      BY <2>5, <3>1 DEF WorkerStep, Find, Mark, ProcessSucceeds, Report, Complete,
         ProcessFails, Increment, GiveUp, Retry, PushRetry, Acknowledge
    <3>2. job[w] \in Jobs
      BY DEF TypeOK
    <3>3. CASE Find(w)
      <4>1. SilentFault(job[w]) \/ NoFault
        BY <3>3 DEF Find
      <4>2. faults' \in Nat /\ faulted' \subseteq Jobs
        BY <3>2, <4>1, FaultType
      <4>3. QED
        BY <3>2, <3>3, <4>2 DEF Find, TypeOK, WorkerPC,
           dbVars, redisVars, sweepVars
    <3>4. CASE Mark(w)
      BY <3>2, <3>4, UpdateStatusType DEF Mark, TypeOK, WorkerPC, Statuses,
         redisVars, sweepVars
    <3>5. CASE ProcessSucceeds(w)
      BY <3>2, <3>5 DEF ProcessSucceeds, TypeOK, WorkerPC, NoFault,
         dbVars, redisVars, sweepVars
    <3>6. CASE Report(w)
      BY <3>2, <3>6, UpdateStatusType DEF Report, TypeOK, WorkerPC, Statuses,
         redisVars, sweepVars
    <3>7. CASE Complete(w)
      BY <3>2, <3>7, UpdateStatusType DEF Complete, TypeOK, WorkerPC, Statuses,
         redisVars, sweepVars
    <3>8. CASE ProcessFails(w)
      BY <3>2, <3>8 DEF ProcessFails, TypeOK, WorkerPC, NoFault,
         dbVars, redisVars, sweepVars
    <3>9. CASE Increment(w)
      BY <3>2, <3>9, IncrementRetriesType DEF Increment, TypeOK, WorkerPC,
         redisVars, sweepVars
    <3>10. CASE GiveUp(w)
      BY <3>2, <3>10, UpdateStatusType DEF GiveUp, TypeOK, WorkerPC, Statuses,
         redisVars, sweepVars
    <3>11. CASE Retry(w)
      BY <3>2, <3>11, UpdateStatusType DEF Retry, TypeOK, WorkerPC, Statuses,
         redisVars, sweepVars
    <3>12. CASE PushRetry(w)
      BY <3>2, <3>12, PushType DEF PushRetry, TypeOK, WorkerPC, dbVars, sweepVars
    <3>13. CASE Acknowledge(w)
      <4>1. SilentFault(job[w]) \/ NoFault
        BY <3>13 DEF Acknowledge
      <4>2. inflight' \in [Jobs -> Nat]
        <5>1. CASE Remove(job[w])
          <6>1. \A k \in Jobs : inflight'[k] \in Nat
            BY <3>2, <5>1 DEF Remove, TypeOK
          <6>2. QED
            BY <3>2, <5>1, <6>1 DEF Remove, TypeOK
        <5>2. CASE UNCHANGED inflight
          BY <5>2 DEF TypeOK
        <5>3. QED
          BY <3>13, <5>1, <5>2 DEF Acknowledge
      <4>3. faults' \in Nat /\ faulted' \subseteq Jobs
        BY <3>2, <4>1, FaultType
      <4>4. QED
        BY <3>2, <3>13, <4>2, <4>3 DEF Acknowledge, Remove, SilentFault, NoFault, TypeOK, WorkerPC,
           dbVars, sweepVars
    <3>14. QED
      BY <2>5, <3>1, <3>3, <3>4, <3>5, <3>6, <3>7, <3>8, <3>9, <3>10, <3>11, <3>12,
         <3>13 DEF WorkerStep
  <2>6. CASE SweepList
    BY <2>6 DEF SweepList, ListStuckJobs, TypeOK, NoFault, dbVars, redisVars, workVars
  <2>7. ASSUME NEW j \in Jobs, SweepReset(j) PROVE TypeOK'
    BY <2>7, UpdateStatusType DEF SweepReset, TypeOK, Statuses, redisVars, workVars
  <2>8. CASE SweepPush
    BY <2>8, PushType DEF SweepPush, TypeOK, dbVars, workVars
  <2>9. CASE Crash
    BY <2>9 DEF Crash, TypeOK, WorkerPC, DispatchStage, dbVars, redisVars
  <2>10. ASSUME NEW m \in Merchants, DeleteMerchant(m) PROVE TypeOK'
    BY <2>10 DEF DeleteMerchant, TypeOK, Statuses, NoFault, redisVars, workVars, sweepVars
  <2>11. CASE UNCHANGED vars
    BY <2>11 DEF vars, dbVars, redisVars, workVars, sweepVars, TypeOK
  <2>12. QED
    BY <2>1, <2>2, <2>3, <2>4, <2>5, <2>6, <2>7, <2>8, <2>9, <2>10, <2>11
       DEF Next, SweepStep
<1>3. QED
  BY <1>1, <1>2, PTL DEF Spec

-----------------------------------------------------------------------------
\* What a push and a pop do to membership of the Redis list.

LEMMA AppendInQueue ==
  ASSUME TypeOK, NEW j \in Jobs, NEW k \in Jobs, queue' = Append(queue, j)
  PROVE  InQueue(k)' <=> InQueue(k) \/ k = j
<1>1. /\ Len(queue') = Len(queue) + 1 /\ Len(queue) \in Nat
      /\ queue'[Len(queue) + 1] = j
      /\ \A i \in 1..Len(queue) : queue'[i] = queue[i]
  BY DEF TypeOK
<1>2. QED
  BY <1>1 DEF InQueue

LEMMA PopInQueue ==
  ASSUME TypeOK, NEW k \in Jobs, queue # <<>>, queue' = Tail(queue)
  PROVE  /\ Head(queue) \in Jobs /\ InQueue(Head(queue))
         /\ InQueue(k)' => InQueue(k)
         /\ InQueue(k) => InQueue(k)' \/ k = Head(queue)
<1>1. /\ Len(queue) \in Nat \ {0} /\ Len(queue') = Len(queue) - 1
      /\ Head(queue) = queue[1] /\ Head(queue) \in Jobs
      /\ \A i \in 1..Len(queue') : queue'[i] = queue[i + 1]
  BY DEF TypeOK
<1>2. InQueue(Head(queue))
  BY <1>1 DEF InQueue
<1>3. InQueue(k)' => InQueue(k)
  <2> SUFFICES ASSUME NEW i \in 1..Len(queue'), queue'[i] = k PROVE InQueue(k)
    BY DEF InQueue
  <2>1. i + 1 \in 1..Len(queue) /\ queue[i + 1] = k
    BY <1>1
  <2>2. QED
    BY <2>1 DEF InQueue
<1>4. InQueue(k) => InQueue(k)' \/ k = Head(queue)
  <2> SUFFICES ASSUME NEW i \in 1..Len(queue), queue[i] = k, i # 1
               PROVE  InQueue(k)'
    BY <1>1 DEF InQueue
  <2>1. i - 1 \in 1..Len(queue') /\ queue'[i - 1] = k
    BY <1>1
  <2>2. QED
    BY <2>1 DEF InQueue
<1>5. QED
  BY <1>1, <1>2, <1>3, <1>4

LEMMA HeadInQueue ==
  ASSUME TypeOK, queue # <<>>
  PROVE  Head(queue) \in Jobs /\ InQueue(Head(queue))
<1>1. Len(queue) \in Nat \ {0} /\ Head(queue) = queue[1] /\ Head(queue) \in Jobs
  BY DEF TypeOK
<1>2. QED
  BY <1>1 DEF InQueue

-----------------------------------------------------------------------------
\* No interleaving strands a queued job.

\* A carried id stays carried as long as no carrier lets go of it.
LEMMA StillCarried ==
  ASSUME NEW k \in Jobs, InQueue(k) \/ CarriedInMemory(k),
         InQueue(k) => InQueue(k)',
         dispatch[k] = "push" => dispatch'[k] = "push",
         requeuing = k => requeuing' = k,
         \A v \in Workers : job[v] = k /\ pc[v] \in {"find", "mark", "push"} =>
           job'[v] = k /\ pc'[v] \in {"find", "mark", "push"}
  PROVE  InQueue(k)' \/ CarriedInMemory(k)'
BY DEF CarriedInMemory

\* Every write of the status of one job leaves the others alone.
LEMMA UpdateStatusOf ==
  ASSUME TypeOK, NEW j \in Jobs, NEW k \in Jobs, NEW s, UpdateStatus(j, s),
         status'[k] = "queued", k \notin faulted'
  PROVE  /\ k \notin faulted
         /\ status[k] = "queued" \/ (k = j /\ s = "queued")
         /\ k = j => s = "queued"
<1>1. CASE /\ status' = IF HasRow(j) THEN [status EXCEPT ![j] = s] ELSE status
           /\ UNCHANGED faulted
  BY <1>1 DEF TypeOK, HasRow
<1>2. CASE faulted' = faulted \cup {j} /\ UNCHANGED status
  BY <1>2
<1>3. QED
  BY <1>1, <1>2 DEF UpdateStatus, SilentFault, NoFault

LEMMA FaultedGrows ==
  ASSUME [Next]_vars
  PROVE  faulted \subseteq faulted'
<1>1. ASSUME NEW j, SilentFault(j) \/ NoFault PROVE faulted \subseteq faulted'
  BY <1>1 DEF SilentFault, NoFault
<1>2. QED
  BY <1>1 DEF Next, WorkerStep, SweepStep, vars, BeginDispatch, CreateRow, PushNew,
     Age, Pop, Find, Mark, ProcessSucceeds, Report, Complete, ProcessFails, Increment,
     GiveUp, Retry, PushRetry, Acknowledge, SweepList, SweepReset, SweepPush, Crash,
     DeleteMerchant, UpdateStatus, IncrementRetries, Push

\* A queued job whose id is in nobody's hands is one that a crash or a lost
\* call hit (dispatcher.go, worker.go); everything else keeps it on its way.
THEOREM QueuedCarried == Spec => []QueuedIsCarried
<1>1. Init => QueuedIsCarried
  BY DEF Init, QueuedIsCarried
<1>2. TypeOK /\ QueuedIsCarried /\ [Next]_vars => QueuedIsCarried'
  <2> SUFFICES ASSUME TypeOK, QueuedIsCarried, [Next]_vars,
                      NEW k \in Jobs, status'[k] = "queued", k \notin faulted'
               PROVE  InQueue(k)' \/ CarriedInMemory(k)'
    BY DEF QueuedIsCarried
  <2> USE JobQueueAssumption
  <2>0. k \notin faulted
    BY FaultedGrows
  <2>a. status[k] = "queued" => InQueue(k) \/ CarriedInMemory(k)
    BY <2>0 DEF QueuedIsCarried
  <2>1. ASSUME NEW j \in Jobs, BeginDispatch(j)
        PROVE  InQueue(k)' \/ CarriedInMemory(k)'
    <3>1. /\ UNCHANGED <<status, queue, requeuing, job, pc>>
          /\ dispatch[k] = "push" => dispatch'[k] = "push"
      BY <2>1 DEF BeginDispatch, TypeOK, dbVars, redisVars, workVars, sweepVars
    <3>2. QED
      BY <2>a, <3>1, StillCarried DEF InQueue
  <2>2. ASSUME NEW j \in Jobs, CreateRow(j)
        PROVE  InQueue(k)' \/ CarriedInMemory(k)'
    <3>1. UNCHANGED <<queue, requeuing, job, pc>>
      BY <2>2 DEF CreateRow, redisVars, workVars, sweepVars
    <3>2. CASE k = j /\ status' # status
      <4>1. dispatch' = [dispatch EXCEPT ![j] = "push"]
        BY <2>2, <3>2 DEF CreateRow
      <4>2. QED
        BY <3>2, <4>1 DEF CarriedInMemory, TypeOK
    <3>3. CASE ~(k = j /\ status' # status)
      <4>1. status[k] = "queued" /\ (dispatch[k] = "push" => dispatch'[k] = "push")
        BY <2>2, <3>3 DEF CreateRow, TypeOK
      <4>2. QED
        BY <2>a, <3>1, <4>1, StillCarried DEF InQueue
    <3>4. QED
      BY <3>2, <3>3
  <2>3. ASSUME NEW j \in Jobs, PushNew(j)
        PROVE  InQueue(k)' \/ CarriedInMemory(k)'
    <3>1. UNCHANGED <<status, requeuing, job, pc>>
      BY <2>3 DEF PushNew, dbVars, workVars, sweepVars
    <3>2. CASE queue' = Append(queue, j)
      <4>1. k # j => dispatch'[k] = dispatch[k]
        BY <2>3 DEF PushNew, TypeOK
      <4>2. InQueue(k)' <=> InQueue(k) \/ k = j
        BY <3>2, AppendInQueue
      <4>3. QED
        BY <2>a, <3>1, <4>1, <4>2, StillCarried
    <3>3. CASE faulted' = faulted \cup {j} /\ UNCHANGED queue
      <4>1. dispatch'[k] = dispatch[k]
        BY <2>3, <3>3 DEF PushNew, TypeOK
      <4>2. QED
        BY <2>a, <3>1, <3>3, <4>1, StillCarried DEF InQueue
    <3>4. QED
      BY <2>3, <3>2, <3>3 DEF PushNew, Push, SilentFault
  <2>4. ASSUME NEW j \in Jobs, Age(j)
        PROVE  InQueue(k)' \/ CarriedInMemory(k)'
    BY <2>a, <2>4, StillCarried DEF Age, InQueue, redisVars, workVars, sweepVars
  <2>5. ASSUME NEW w \in Workers, WorkerStep(w)
        PROVE  InQueue(k)' \/ CarriedInMemory(k)'
    <3> USE DEF Goto
    <3>1. CASE Pop(w)
      <4>1. UNCHANGED <<status, dispatch, requeuing>> /\ queue # <<>> /\ queue' = Tail(queue)
        BY <3>1 DEF Pop, dbVars, sweepVars
      <4>2. CASE k = Head(queue)
        <5>1. job'[w] = k /\ pc'[w] = "find"
          BY <3>1, <4>2 DEF Pop, TypeOK
        <5>2. QED
          BY <5>1 DEF CarriedInMemory
      <4>3. CASE k # Head(queue)
        <5>1. InQueue(k) => InQueue(k)'
          BY <4>1, <4>3, PopInQueue
        <5>2. ASSUME NEW v \in Workers, job[v] = k, pc[v] \in {"find", "mark", "push"}
              PROVE  job'[v] = k /\ pc'[v] \in {"find", "mark", "push"}
          BY <3>1, <5>2 DEF Pop, TypeOK
        <5>3. QED
          BY <2>a, <4>1, <5>1, <5>2, StillCarried
      <4>4. QED
        BY <4>2, <4>3
    <3> SUFFICES ASSUME pc[w] # "idle" PROVE InQueue(k)' \/ CarriedInMemory(k)'
      BY <2>5, <3>1 DEF WorkerStep, Find, Mark, ProcessSucceeds, Report, Complete,
         ProcessFails, Increment, GiveUp, Retry, PushRetry, Acknowledge
    <3>2. job[w] \in Jobs
      BY DEF TypeOK
    <3>3. CASE Find(w)
      <4>1. UNCHANGED <<status, queue, dispatch, requeuing, job>>
        BY <3>3 DEF Find, dbVars, redisVars, sweepVars
      <4>2. ASSUME job[w] = k PROVE pc'[w] = "mark"
        BY <2>0, <3>3, <4>1, <4>2 DEF Find, TypeOK, HasRow, Terminal, SilentFault
      <4>3. \A v \in Workers : v # w => pc'[v] = pc[v]
        BY <3>3 DEF Find, TypeOK
      <4>4. QED
        BY <2>a, <4>1, <4>2, <4>3, StillCarried DEF InQueue
    <3>4. CASE Mark(w) \/ Report(w) \/ Complete(w) \/ GiveUp(w)
      <4>1. PICK s \in {"processing", "completed", "failed"} : UpdateStatus(job[w], s)
        BY <3>4 DEF Mark, Report, Complete, GiveUp
      <4>2. status[k] = "queued" /\ k # job[w]
        BY <3>2, <4>1, UpdateStatusOf
      <4>3. UNCHANGED <<queue, dispatch, requeuing, job>>
        BY <3>4 DEF Mark, Report, Complete, GiveUp, redisVars, sweepVars
      <4>4. \A v \in Workers : v # w => pc'[v] = pc[v]
        BY <3>4 DEF Mark, Report, Complete, GiveUp, TypeOK
      <4>5. QED
        BY <2>a, <4>2, <4>3, <4>4, StillCarried DEF InQueue
    <3>5. CASE ProcessSucceeds(w) \/ ProcessFails(w) \/ Increment(w) \/ Acknowledge(w)
      <4>1. UNCHANGED <<status, queue, dispatch, requeuing>>
        BY <3>5 DEF ProcessSucceeds, ProcessFails, Increment, Acknowledge, IncrementRetries,
           dbVars, redisVars, sweepVars
      <4>2. pc[w] \notin {"find", "mark", "push"}
        BY <3>5 DEF ProcessSucceeds, ProcessFails, Increment, Acknowledge
      <4>3. \A v \in Workers : v # w => pc'[v] = pc[v] /\ job'[v] = job[v]
        BY <3>5 DEF ProcessSucceeds, ProcessFails, Increment, Acknowledge, TypeOK
      <4>4. QED
        BY <2>a, <4>1, <4>2, <4>3, StillCarried DEF InQueue
    <3>6. CASE Retry(w)
      <4>1. UNCHANGED <<queue, dispatch, requeuing, job>> /\ pc[w] = "settle"
        BY <3>6 DEF Retry, redisVars, sweepVars
      <4>2. pc'[w] = "push" /\ \A v \in Workers : v # w => pc'[v] = pc[v]
        BY <3>6 DEF Retry, TypeOK
      <4>3. CASE k = job[w]
        BY <4>1, <4>2, <4>3 DEF CarriedInMemory
      <4>4. CASE k # job[w]
        <5>1. status[k] = "queued"
          BY <3>2, <3>6, <4>4, UpdateStatusOf DEF Retry
        <5>2. QED
          BY <2>a, <4>1, <4>2, <4>4, <5>1, StillCarried DEF InQueue
      <4>5. QED
        BY <4>3, <4>4
    <3>7. CASE PushRetry(w)
      <4>1. UNCHANGED <<status, dispatch, requeuing, job>>
        BY <3>7 DEF PushRetry, dbVars, sweepVars
      <4>2. \A v \in Workers : v # w => pc'[v] = pc[v]
        BY <3>7 DEF PushRetry, TypeOK
      <4>3. CASE queue' = Append(queue, job[w])
        <5>1. InQueue(k)' <=> InQueue(k) \/ k = job[w]
          BY <3>2, <4>3, AppendInQueue
        <5>2. QED
          BY <2>a, <4>1, <4>2, <5>1, StillCarried
      <4>4. CASE faulted' = faulted \cup {job[w]} /\ UNCHANGED queue
        BY <2>a, <4>1, <4>2, <4>4, StillCarried DEF InQueue
      <4>5. QED
        BY <3>7, <4>3, <4>4 DEF PushRetry, Push, SilentFault
    <3>8. QED
      BY <2>5, <3>1, <3>3, <3>4, <3>5, <3>6, <3>7 DEF WorkerStep
  <2>6. CASE SweepList
    BY <2>a, <2>6, StillCarried DEF SweepList, InQueue, dbVars, redisVars, workVars
  <2>7. ASSUME NEW j \in Jobs, SweepReset(j)
        PROVE  InQueue(k)' \/ CarriedInMemory(k)'
    <3>1. UNCHANGED <<queue, dispatch, job, pc>> /\ requeuing = NoJob /\ requeuing' = j
      BY <2>7 DEF SweepReset, redisVars, workVars
    <3>2. CASE k = j
      BY <3>1, <3>2 DEF CarriedInMemory
    <3>3. CASE k # j
      <4>1. status[k] = "queued"
        BY <2>7, <3>3, UpdateStatusOf DEF SweepReset
      <4>2. QED
        BY <2>a, <3>1, <4>1, StillCarried DEF InQueue
    <3>4. QED
      BY <3>2, <3>3
  <2>8. CASE SweepPush
    <3>1. UNCHANGED <<status, dispatch, job, pc>> /\ requeuing \in Jobs
      BY <2>8 DEF SweepPush, dbVars, workVars, TypeOK
    <3>2. CASE queue' = Append(queue, requeuing)
      <4>1. InQueue(k)' <=> InQueue(k) \/ k = requeuing
        BY <3>1, <3>2, AppendInQueue
      <4>2. QED
        BY <2>a, <3>1, <4>1, StillCarried
    <3>3. CASE faulted' = faulted \cup {requeuing} /\ UNCHANGED queue
      BY <2>a, <3>1, <3>3, StillCarried DEF InQueue
    <3>4. QED
      BY <2>8, <3>2, <3>3 DEF SweepPush, Push, SilentFault
  <2>9. CASE Crash
    <3>1. UNCHANGED <<status, queue>>
      BY <2>9 DEF Crash, dbVars, redisVars
    <3>2. InQueue(k)
      BY <2>a, <2>9, <3>1 DEF Crash
    <3>3. QED
      BY <3>1, <3>2 DEF InQueue
  <2>10. ASSUME NEW m \in Merchants, DeleteMerchant(m)
         PROVE  InQueue(k)' \/ CarriedInMemory(k)'
    <3>1. UNCHANGED <<queue, dispatch, requeuing, job, pc>>
      BY <2>10 DEF DeleteMerchant, redisVars, workVars, sweepVars
    <3>2. status[k] = "queued"
      BY <2>10 DEF DeleteMerchant, TypeOK
    <3>3. QED
      BY <2>a, <3>1, <3>2, StillCarried DEF InQueue
  <2>11. CASE UNCHANGED vars
    BY <2>a, <2>11, StillCarried DEF vars, dbVars, redisVars, workVars, sweepVars, InQueue
  <2>12. QED
    BY <2>1, <2>2, <2>3, <2>4, <2>5, <2>6, <2>7, <2>8, <2>9, <2>10, <2>11
       DEF Next, SweepStep
<1>3. QED
  BY <1>1, <1>2, TypeCorrect, PTL DEF Spec

-----------------------------------------------------------------------------
\* No job is given up before its last attempt.

LEMMA UpdateStatusKeepsRows ==
  ASSUME TypeOK, NEW j \in Jobs, NEW k \in Jobs, NEW s \in Statuses \ {"none"},
         UpdateStatus(j, s)
  PROVE  status'[k] = "none" <=> status[k] = "none"
BY DEF UpdateStatus, HasRow, TypeOK, SilentFault, NoFault

\* A row appears by the INSERT of its dispatch and never disappears without
\* leaving a trace.
LEMMA RowsAppearByInsert ==
  ASSUME TypeOK, [Next]_vars, NEW k \in Jobs
  PROVE  \/ status'[k] = "none" <=> status[k] = "none"
         \/ status'[k] # "none" /\ dispatch[k] = "create" /\ dispatch'[k] = "push"
<1> DEFINE Same == status'[k] = "none" <=> status[k] = "none"
<1>1. ASSUME NEW j \in Jobs, CreateRow(j)
      PROVE  Same \/ (status'[k] # "none" /\ dispatch[k] = "create" /\ dispatch'[k] = "push")
  <2>1. CASE j = k
    BY <1>1, <2>1 DEF CreateRow, TypeOK
  <2>2. CASE j # k
    BY <1>1, <2>2 DEF CreateRow, TypeOK
  <2>3. QED
    BY <2>1, <2>2
<1>2. ASSUME NEW w \in Workers, Mark(w) \/ Report(w) \/ Complete(w) \/ GiveUp(w) \/ Retry(w)
      PROVE  Same
  <2>1. job[w] \in Jobs
    BY <1>2 DEF TypeOK, Mark, Report, Complete, GiveUp, Retry
  <2>2. PICK s \in Statuses \ {"none"} : UpdateStatus(job[w], s)
    BY <1>2 DEF Mark, Report, Complete, GiveUp, Retry, Statuses
  <2>3. QED
    BY <2>1, <2>2, UpdateStatusKeepsRows
<1>3. ASSUME NEW j \in Jobs, SweepReset(j) PROVE Same
  BY <1>3, UpdateStatusKeepsRows DEF SweepReset, Statuses
<1>4. ASSUME NEW m \in Merchants, DeleteMerchant(m) PROVE Same
  BY <1>4 DEF DeleteMerchant, HasRow, TypeOK
<1>5. ASSUME UNCHANGED status PROVE Same
  BY <1>5
<1>6. QED
  BY <1>1, <1>2, <1>3, <1>4, <1>5 DEF Next, WorkerStep, SweepStep, vars, dbVars,
     BeginDispatch, PushNew, Age, Pop, Find, ProcessSucceeds, ProcessFails, Increment,
     IncrementRetries, PushRetry, Acknowledge, SweepList, SweepPush, Crash

\* An id in the list or in somebody's hands is of a row that was inserted
\* (Dispatcher.Dispatch inserts, then pushes).
THEOREM IdsCreated == Spec => []IdsAreCreated
<1>1. Init => IdsAreCreated
  BY JobQueueAssumption DEF Init, IdsAreCreated, InQueue
<1>2. TypeOK /\ TypeOK' /\ IdsAreCreated /\ [Next]_vars => IdsAreCreated'
  <2> SUFFICES ASSUME TypeOK, TypeOK', IdsAreCreated, [Next]_vars PROVE IdsAreCreated'
    OBVIOUS
  <2> USE JobQueueAssumption
  <2>1. ASSUME NEW j \in Jobs, dispatch'[j] \in {"none", "create"}
        PROVE  status'[j] = "none"
    <3>1. dispatch[j] \in {"none", "create"}
      <4> dispatch \in [Jobs -> DispatchStage]
        BY DEF TypeOK
      <4>1. ASSUME NEW i \in Jobs, BeginDispatch(i) \/ CreateRow(i) \/ PushNew(i)
            PROVE  dispatch[j] \in {"none", "create"}
        BY <2>1, <4>1 DEF BeginDispatch, CreateRow, PushNew
      <4>2. CASE Crash
        BY <2>1, <4>2 DEF Crash
      <4>3. CASE UNCHANGED dispatch
        BY <2>1, <4>3
      <4>4. QED
        BY <4>1, <4>2, <4>3 DEF Next, WorkerStep, SweepStep, vars, Age, Pop, Find, Mark,
           ProcessSucceeds, Report, Complete, ProcessFails, Increment, GiveUp, Retry,
           PushRetry, Acknowledge, SweepList, SweepReset, SweepPush, DeleteMerchant
    <3>2. QED
      BY <2>1, <3>1, RowsAppearByInsert DEF IdsAreCreated
  <2>2. ASSUME NEW j \in Jobs, InQueue(j)' PROVE status'[j] # "none"
    <3>1. InQueue(j) \/ dispatch[j] = "push" \/ requeuing = j
            \/ \E w \in Workers : pc[w] # "idle" /\ job[w] = j
      <4>1. CASE UNCHANGED queue
        BY <2>2, <4>1 DEF InQueue
      <4>2. CASE \E w \in Workers : Pop(w)
        BY <2>2, <4>2, PopInQueue DEF Pop
      <4>3. ASSUME NEW i \in Jobs, PushNew(i), queue' = Append(queue, i)
            PROVE  InQueue(j) \/ dispatch[j] = "push"
        BY <2>2, <4>3, AppendInQueue DEF PushNew
      <4>4. ASSUME NEW w \in Workers, PushRetry(w), queue' = Append(queue, job[w])
            PROVE  InQueue(j) \/ (pc[w] # "idle" /\ job[w] = j)
        <5>1. job[w] \in Jobs /\ pc[w] # "idle"
          BY <4>4 DEF PushRetry, TypeOK
        <5>2. QED
          BY <2>2, <4>4, <5>1, AppendInQueue
      <4>5. ASSUME SweepPush, queue' = Append(queue, requeuing)
            PROVE  InQueue(j) \/ requeuing = j
        <5>1. requeuing \in Jobs
          BY <4>5 DEF SweepPush, TypeOK
        <5>2. QED
          BY <2>2, <4>5, <5>1, AppendInQueue
      <4>6. QED
        BY <4>1, <4>2, <4>3, <4>4, <4>5 DEF Next, WorkerStep, SweepStep, vars, redisVars,
           BeginDispatch, CreateRow, PushNew, Age, Find, Mark, ProcessSucceeds, Report,
           Complete, ProcessFails, Increment, GiveUp, Retry, PushRetry, Acknowledge,
           SweepList, SweepReset, SweepPush, Crash, DeleteMerchant, Push
    <3>2. status[j] # "none"
      BY <3>1 DEF IdsAreCreated
    <3>3. QED
      BY <3>2, RowsAppearByInsert
  <2>3. ASSUME NEW j \in Jobs, j \in stuck' PROVE status'[j] # "none"
    <3>1. j \in stuck \/ j \in old
      BY <2>3 DEF Next, WorkerStep, SweepStep, vars, sweepVars, BeginDispatch, CreateRow,
         PushNew, Age, Pop, Find, Mark, ProcessSucceeds, Report, Complete, ProcessFails,
         Increment, GiveUp, Retry, PushRetry, Acknowledge, SweepList, ListStuckJobs,
         SweepReset, SweepPush, Crash, DeleteMerchant
    <3>2. QED
      BY <3>1, RowsAppearByInsert DEF IdsAreCreated
  <2>4. ASSUME NEW j \in Jobs, dispatch'[j] = "push" PROVE status'[j] # "none"
    <3>1. CASE dispatch[j] = "push"
      BY <3>1, RowsAppearByInsert DEF IdsAreCreated
    <3>2. CASE dispatch[j] # "push"
      <4>1. CreateRow(j)
        <5>1. ASSUME NEW i \in Jobs, BeginDispatch(i) PROVE FALSE
          BY <2>4, <3>2, <5>1 DEF BeginDispatch, TypeOK
        <5>2. ASSUME NEW i \in Jobs, PushNew(i) PROVE FALSE
          BY <2>4, <3>2, <5>2 DEF PushNew, TypeOK
        <5>3. ASSUME NEW i \in Jobs, CreateRow(i) PROVE i = j
          BY <2>4, <3>2, <5>3 DEF CreateRow, TypeOK
        <5>4. ASSUME Crash PROVE FALSE
          BY <2>4, <3>2, <5>4 DEF Crash, TypeOK
        <5>5. QED
          BY <2>4, <3>2, <5>1, <5>2, <5>3, <5>4 DEF Next, WorkerStep, SweepStep, vars,
             Age, Pop, Find, Mark, ProcessSucceeds, Report, Complete, ProcessFails,
             Increment, GiveUp, Retry, PushRetry, Acknowledge, SweepList, SweepReset,
             SweepPush, DeleteMerchant
      <4>2. QED
        BY <2>4, <4>1 DEF CreateRow, TypeOK
    <3>3. QED
      BY <3>1, <3>2
  <2>5. ASSUME NEW w \in Workers, pc'[w] # "idle" PROVE status'[job'[w]] # "none"
    <3>1. CASE pc[w] # "idle" /\ job'[w] = job[w]
      <4>1. job[w] \in Jobs
        BY <3>1 DEF TypeOK
      <4>2. QED
        BY <3>1, <4>1, RowsAppearByInsert DEF IdsAreCreated
    <3>2. CASE ~(pc[w] # "idle" /\ job'[w] = job[w])
      <4>1. Pop(w)
        <5>1. ASSUME NEW v \in Workers, v # w, WorkerStep(v) PROVE FALSE
          BY <2>5, <3>2, <5>1 DEF WorkerStep, Goto, TypeOK, Pop, Find, Mark, ProcessSucceeds,
             Report, Complete, ProcessFails, Increment, GiveUp, Retry, PushRetry, Acknowledge
        <5>2. ASSUME WorkerStep(w) PROVE Pop(w)
          BY <2>5, <3>2, <5>2 DEF WorkerStep, Goto, TypeOK, Find, Mark, ProcessSucceeds,
             Report, Complete, ProcessFails, Increment, GiveUp, Retry, PushRetry, Acknowledge
        <5>3. QED
          BY <2>5, <3>2, <5>1, <5>2 DEF Next, SweepStep, vars, workVars, BeginDispatch,
             CreateRow, PushNew, Age, SweepList, SweepReset, SweepPush, Crash, DeleteMerchant
      <4>2. job'[w] = Head(queue) /\ Head(queue) \in Jobs /\ InQueue(Head(queue))
        BY <4>1, HeadInQueue DEF Pop, TypeOK
      <4>3. QED
        BY <4>2, RowsAppearByInsert DEF IdsAreCreated
    <3>3. QED
      BY <3>1, <3>2
  <2>6. ASSUME requeuing' # NoJob PROVE status'[requeuing'] # "none"
    <3>1. requeuing' \in Jobs
      BY <2>6 DEF TypeOK
    <3>2. requeuing' = requeuing \/ requeuing' \in stuck
      BY <2>6 DEF Next, WorkerStep, SweepStep, vars, sweepVars, BeginDispatch,
         CreateRow, PushNew, Age, Pop, Find, Mark, ProcessSucceeds, Report, Complete,
         ProcessFails, Increment, GiveUp, Retry, PushRetry, Acknowledge, SweepList,
         SweepReset, SweepPush, Crash, DeleteMerchant
    <3>3. QED
      BY <2>6, <3>1, <3>2, RowsAppearByInsert DEF IdsAreCreated
  <2>7. ASSUME NEW j \in Jobs, j \in old' PROVE status'[j] # "none"
    <3>1. j \in old \/ status[j] = "processing"
      BY <2>7 DEF Next, WorkerStep, SweepStep, vars, dbVars, BeginDispatch, CreateRow,
         PushNew, Age, Pop, Find, Mark, ProcessSucceeds, Report, Complete, ProcessFails,
         Increment, GiveUp, Retry, PushRetry, Acknowledge, SweepList, SweepReset, SweepPush,
         Crash, DeleteMerchant, UpdateStatus, IncrementRetries
    <3>2. QED
      BY <3>1, RowsAppearByInsert DEF IdsAreCreated
  <2>8. old' \subseteq Jobs
    BY DEF TypeOK
  <2>9. QED
    BY <2>1, <2>2, <2>3, <2>4, <2>5, <2>6, <2>7, <2>8 DEF IdsAreCreated
<1>3. QED
  BY <1>1, <1>2, TypeCorrect, PTL DEF Spec

LEMMA RetriesGrow ==
  ASSUME TypeOK, [Next]_vars, NEW k \in Jobs
  PROVE  retries[k] <= retries'[k]
<1> retries \in [Jobs -> Nat]
  BY DEF TypeOK
<1>1. ASSUME NEW w \in Workers, Increment(w) PROVE retries[k] <= retries'[k]
  BY <1>1 DEF Increment, IncrementRetries
<1>2. CASE UNCHANGED retries
  BY <1>2
<1>3. QED
  BY <1>1, <1>2 DEF Next, WorkerStep, SweepStep, vars, dbVars, BeginDispatch, CreateRow,
     PushNew, Age, Pop, Find, Mark, ProcessSucceeds, Report, Complete, ProcessFails,
     GiveUp, Retry, PushRetry, Acknowledge, SweepList, SweepReset, SweepPush, Crash,
     DeleteMerchant, UpdateStatus

LEMMA GoneForGood ==
  ASSUME TypeOK, IdsAreCreated, [Next]_vars, NEW k \in Jobs, status[k] = "gone"
  PROVE  status'[k] = "gone"
<1> status \in [Jobs -> Statuses]
  BY DEF TypeOK
<1>1. ASSUME NEW j, NEW s, UpdateStatus(j, s) PROVE status'[k] = "gone"
  BY <1>1 DEF UpdateStatus, HasRow
<1>2. ASSUME NEW j \in Jobs, CreateRow(j) PROVE status'[k] = "gone"
  BY <1>2 DEF CreateRow, IdsAreCreated
<1>3. ASSUME NEW m \in Merchants, DeleteMerchant(m) PROVE status'[k] = "gone"
  BY <1>3 DEF DeleteMerchant, HasRow
<1>4. CASE UNCHANGED status
  BY <1>4
<1>5. QED
  BY <1>1, <1>2, <1>3, <1>4 DEF Next, WorkerStep, SweepStep, vars, dbVars, BeginDispatch,
     PushNew, Age, Pop, Find, Mark, ProcessSucceeds, Report, Complete, ProcessFails,
     Increment, IncrementRetries, GiveUp, Retry, PushRetry, Acknowledge, SweepList,
     SweepReset, SweepPush, Crash

LEMMA FailsByGiveUp ==
  ASSUME TypeOK, [Next]_vars, NEW k \in Jobs, status[k] # "failed", status'[k] = "failed"
  PROVE  \E w \in Workers : GiveUp(w) /\ job[w] = k /\ HasRow(k)
<1> status \in [Jobs -> Statuses]
  BY DEF TypeOK
<1>1. ASSUME NEW j, NEW s, UpdateStatus(j, s)
      PROVE  j = k /\ s = "failed" /\ HasRow(k)
  BY <1>1 DEF UpdateStatus, HasRow
<1>2. ASSUME NEW j \in Jobs, CreateRow(j) PROVE FALSE
  BY <1>2 DEF CreateRow
<1>3. ASSUME NEW m \in Merchants, DeleteMerchant(m) PROVE FALSE
  BY <1>3 DEF DeleteMerchant
<1>4. ASSUME NEW w \in Workers, Mark(w) \/ Report(w) \/ Complete(w) \/ Retry(w)
      PROVE  FALSE
  BY <1>1, <1>4 DEF Mark, Report, Complete, Retry
<1>5. ASSUME NEW j \in Jobs, SweepReset(j) PROVE FALSE
  BY <1>1, <1>5 DEF SweepReset
<1>6. ASSUME NEW w \in Workers, GiveUp(w) PROVE job[w] = k /\ HasRow(k)
  BY <1>1, <1>6 DEF GiveUp
<1>7. ~ UNCHANGED status
  OBVIOUS
<1>8. QED
  BY <1>2, <1>3, <1>4, <1>5, <1>6, <1>7 DEF Next, WorkerStep, SweepStep, vars, dbVars,
     BeginDispatch, PushNew, Age, Pop, Find, ProcessSucceeds, ProcessFails, Increment,
     IncrementRetries, PushRetry, Acknowledge, SweepList, SweepPush, Crash

\* A worker that is busy after a step either took it, or kept its own state.
LEMMA WorkersAreLocal ==
  ASSUME TypeOK, [Next]_vars, NEW w \in Workers, pc'[w] # "idle"
  PROVE  WorkerStep(w) \/ (pc'[w] = pc[w] /\ job'[w] = job[w] /\ seen'[w] = seen[w])
<1>1. /\ pc \in [Workers -> WorkerPC]
      /\ job \in [Workers -> Jobs \cup {NoJob}] /\ seen \in [Workers -> Nat]
  BY DEF TypeOK
<1>2. ASSUME NEW v \in Workers, v # w, WorkerStep(v)
      PROVE  pc'[w] = pc[w] /\ job'[w] = job[w] /\ seen'[w] = seen[w]
  BY <1>1, <1>2 DEF WorkerStep, Goto, Pop, Find, Mark, ProcessSucceeds, Report, Complete,
     ProcessFails, Increment, GiveUp, Retry, PushRetry, Acknowledge
<1>3. CASE UNCHANGED workVars
  BY <1>3 DEF workVars
<1>4. CASE Crash
  BY <1>4 DEF Crash
<1>5. QED
  BY <1>2, <1>3, <1>4 DEF Next, SweepStep, vars, BeginDispatch, CreateRow, PushNew, Age,
     SweepList, SweepReset, SweepPush, DeleteMerchant

LEMMA NotLost ==
  ASSUME TypeOK, NEW j \in Jobs, Lossless(j)'
  PROVE  ~SilentFault(j)
<1>1. faults \in Nat
  BY DEF TypeOK
<1>2. QED
  BY <1>1 DEF Lossless, SilentFault

LEMMA LosslessBefore ==
  ASSUME TypeOK, [Next]_vars, NEW j \in Jobs, Lossless(j)'
  PROVE  Lossless(j)
<1>1. faults \in Nat
  BY DEF TypeOK
<1>2. faulted \subseteq faulted'
  BY FaultedGrows
<1>3. ASSUME NEW k, SilentFault(k) \/ NoFault PROVE faults' = 0 => faults = 0
  BY <1>1, <1>3 DEF SilentFault, NoFault
<1>4. faults' = 0 => faults = 0
  BY <1>3 DEF Next, WorkerStep, SweepStep, vars, BeginDispatch, CreateRow, PushNew,
     Age, Pop, Find, Mark, ProcessSucceeds, Report, Complete, ProcessFails, Increment,
     GiveUp, Retry, PushRetry, Acknowledge, SweepList, SweepReset, SweepPush, Crash,
     DeleteMerchant, UpdateStatus, IncrementRetries, Push
<1>5. QED
  BY <1>2, <1>4 DEF Lossless

LEMMA SeenStaysBehind ==
  ASSUME TypeOK, TypeOK', IdsAreCreated, SeenIsBehind, [Next]_vars
  PROVE  SeenIsBehind'
<1> SUFFICES ASSUME NEW w \in Workers, pc'[w] # "idle", HasRow(job[w])',
                    Lossless(job[w])'
             PROVE  /\ pc'[w] \in {"mark", "process", "increment"} =>
                         seen'[w] <= retries'[job'[w]]
                    /\ pc'[w] = "settle" => seen'[w] + 1 <= retries'[job'[w]]
  BY DEF SeenIsBehind
<1>0. /\ pc \in [Workers -> WorkerPC] /\ retries \in [Jobs -> Nat]
      /\ seen \in [Workers -> Nat] /\ retries' \in [Jobs -> Nat]
      /\ seen' \in [Workers -> Nat] /\ job'[w] \in Jobs
  BY DEF TypeOK
<1>1. CASE pc[w] # "idle" /\ job'[w] = job[w]
  <2>1. /\ job[w] \in Jobs /\ Lossless(job[w]) /\ Lossless(job[w])'
        /\ retries[job[w]] <= retries'[job[w]]
    BY <1>0, <1>1, RetriesGrow, LosslessBefore DEF Lossless
  <2>2. HasRow(job[w])
    BY <1>1, <2>1, GoneForGood DEF HasRow, IdsAreCreated
  <2>3. /\ pc[w] \in {"mark", "process", "increment"} => seen[w] <= retries[job[w]]
        /\ pc[w] = "settle" => seen[w] + 1 <= retries[job[w]]
    BY <1>1, <2>1, <2>2 DEF SeenIsBehind
  <2>4. CASE pc'[w] = pc[w] /\ seen'[w] = seen[w]
    BY <1>0, <1>1, <2>1, <2>3, <2>4
  <2>5. CASE Find(w)
    BY <1>0, <1>1, <2>1, <2>5 DEF Find, Goto, dbVars
  <2>6. CASE Mark(w) \/ ProcessFails(w)
    BY <1>0, <1>1, <2>1, <2>3, <2>6 DEF Mark, ProcessFails, Goto
  <2>7. CASE Increment(w)
    <3>1. retries'[job[w]] = retries[job[w]] + 1 /\ seen[w] <= retries[job[w]]
      BY <1>0, <1>1, <2>1, <2>2, <2>3, <2>7, NotLost DEF Increment, IncrementRetries
    <3>2. QED
      BY <1>0, <1>1, <2>7, <3>1 DEF Increment, Goto
  <2>8. ASSUME Pop(w) \/ ProcessSucceeds(w) \/ Report(w) \/ Complete(w) \/ GiveUp(w)
               \/ Retry(w) \/ PushRetry(w) \/ Acknowledge(w)
        PROVE  pc'[w] \notin {"mark", "process", "increment", "settle"}
    BY <1>0, <2>8 DEF Pop, ProcessSucceeds, Report, Complete, GiveUp, Retry, PushRetry,
       Acknowledge, Goto
  <2>9. QED
    BY <1>1, <2>4, <2>5, <2>6, <2>7, <2>8, WorkersAreLocal DEF WorkerStep
<1>2. CASE ~(pc[w] # "idle" /\ job'[w] = job[w])
  <2>1. WorkerStep(w)
    BY <1>2, WorkersAreLocal
  <2>2. Pop(w)
    BY <1>2, <2>1, <1>0 DEF WorkerStep, Find, Mark, ProcessSucceeds, Report, Complete,
       ProcessFails, Increment, GiveUp, Retry, PushRetry, Acknowledge, Goto
  <2>3. pc'[w] = "find"
    BY <1>0, <2>2 DEF Pop, Goto
  <2>4. QED
    BY <2>3
<1>3. QED
  BY <1>1, <1>2

LEMMA RetryHolds == Spec => []RetryInv
<1>1. Init => RetryInv
  <2>1. Init => IdsAreCreated
    BY JobQueueAssumption DEF Init, IdsAreCreated, InQueue
  <2>2. QED
    BY <2>1 DEF Init, RetryInv, SeenIsBehind, FailedIsExhausted
<1>2. TypeOK /\ TypeOK' /\ RetryInv /\ [Next]_vars => SeenIsBehind' /\ FailedIsExhausted'
  <2> SUFFICES ASSUME TypeOK, TypeOK', RetryInv, [Next]_vars
               PROVE  SeenIsBehind' /\ FailedIsExhausted'
    OBVIOUS
  <2>1. SeenIsBehind'
    BY SeenStaysBehind DEF RetryInv
  <2>2. ASSUME NEW k \in Jobs, status'[k] = "failed", k \notin faulted'
        PROVE  retries'[k] >= MaxRetries
    <3>1. k \notin faulted /\ retries[k] <= retries'[k]
      BY <2>2, FaultedGrows, RetriesGrow
    <3>2. retries[k] >= MaxRetries
      <4>1. CASE status[k] = "failed"
        BY <3>1, <4>1 DEF RetryInv, FailedIsExhausted
      <4>2. CASE status[k] # "failed"
        <5>1. PICK w \in Workers : GiveUp(w) /\ job[w] = k /\ HasRow(k)
          BY <2>2, <4>2, FailsByGiveUp
        <5>2. seen[w] + 1 <= retries[k]
          BY <3>1, <5>1 DEF GiveUp, RetryInv, SeenIsBehind, Lossless
        <5>3. QED
          BY <5>1, <5>2, JobQueueAssumption DEF GiveUp, LastAttempt, TypeOK
      <4>3. QED
        BY <4>1, <4>2
    <3>3. QED
      BY <3>1, <3>2, JobQueueAssumption DEF TypeOK
  <2>3. QED
    BY <2>1, <2>2 DEF FailedIsExhausted
<1>3. RetryInv <=> IdsAreCreated /\ SeenIsBehind /\ FailedIsExhausted
  BY DEF RetryInv
<1>4. QED
  BY <1>1, <1>2, <1>3, TypeCorrect, IdsCreated, PTL DEF Spec

\* A job reported as failed has used all its attempts, for any number of
\* workers, duplicates and sweeps, unless a lost call hid one (processJob).
THEOREM FailedExhausted == Spec => []FailedIsExhausted
<1>1. RetryInv => FailedIsExhausted
  BY DEF RetryInv
<1>2. QED
  BY <1>1, RetryHolds, PTL

-----------------------------------------------------------------------------
\* The list jobs:processing.

\* A set of workers that changes by one of them.
LEMMA HoldersChange ==
  ASSUME NEW S \in SUBSET Workers, NEW T \in SUBSET Workers,
         NEW w, S \ {w} = T \ {w}
  PROVE  /\ Cardinality(S) \in Nat /\ Cardinality(T) \in Nat
         /\ w \notin S /\ w \in T => Cardinality(T) = Cardinality(S) + 1
         /\ w \in S /\ w \notin T => Cardinality(S) = Cardinality(T) + 1
<1>1. IsFiniteSet(S) /\ IsFiniteSet(T)
  BY JobQueueAssumption, FS_Subset DEF JobQueueAssumption
<1>2. Cardinality(S) \in Nat /\ Cardinality(T) \in Nat
  BY <1>1, FS_CardinalityType
<1>3. w \notin S /\ w \in T => Cardinality(T) = Cardinality(S) + 1
  <2>1. w \notin S /\ w \in T => T = S \cup {w}
    OBVIOUS
  <2> QED
    BY <1>1, <2>1, FS_AddElement
<1>4. w \in S /\ w \notin T => Cardinality(S) = Cardinality(T) + 1
  <2>1. w \in S /\ w \notin T => S = T \cup {w}
    OBVIOUS
  <2> QED
    BY <1>1, <2>1, FS_AddElement
<1> QED
  BY <1>2, <1>3, <1>4

\* A worker that goes on with its job holds it before and after.
LEMMA HoldersKept ==
  ASSUME TypeOK, NEW w \in Workers, NEW p, p # "idle", pc[w] # "idle", Goto(w, p),
         job' = job, NEW j
  PROVE  Holders(j)' = Holders(j)
<1>1. \A v \in Workers : pc'[v] # "idle" <=> pc[v] # "idle"
  BY DEF Goto, TypeOK
<1> QED
  BY <1>1 DEF Holders

\* What a step does to jobs:processing and to the workers that hold an id.
LEMMA InFlightSteps ==
  ASSUME TypeOK, [Next]_vars, NEW j \in Jobs
  PROVE  \/ inflight'[j] = inflight[j] /\ Holders(j)' = Holders(j) /\ crashes' = crashes
         \/ \E w \in Workers : Pop(w) \/ Acknowledge(w)
         \/ Crash
<1> DEFINE Same == inflight'[j] = inflight[j] /\ Holders(j)' = Holders(j) /\ crashes' = crashes
<1>1. ASSUME NEW w \in Workers,
             Find(w) \/ Mark(w) \/ ProcessSucceeds(w) \/ ProcessFails(w) \/ Report(w)
             \/ Complete(w) \/ Increment(w) \/ GiveUp(w) \/ Retry(w) \/ PushRetry(w)
      PROVE  Same
  <2>1. UNCHANGED <<inflight, job, crashes>> /\ pc[w] # "idle"
    BY <1>1 DEF Find, Mark, ProcessSucceeds, ProcessFails, Report, Complete, Increment,
       GiveUp, Retry, PushRetry, redisVars
  <2>2. \E p \in {"mark", "ack", "process", "report", "complete", "increment", "settle", "push"} :
          Goto(w, p)
    BY <1>1 DEF Find, Mark, ProcessSucceeds, ProcessFails, Report, Complete, Increment,
       GiveUp, Retry, PushRetry
  <2> QED
    BY <2>1, <2>2, HoldersKept
<1>2. ASSUME UNCHANGED <<inflight, workVars, crashes>> PROVE Same
  BY <1>2 DEF workVars, Holders
<1> QED
  BY <1>1, <1>2 DEF Next, WorkerStep, SweepStep, vars, BeginDispatch, CreateRow, PushNew, Age,
     SweepList, SweepReset, SweepPush, DeleteMerchant, redisVars

\* The LREM of a worker that ends its job removes its own entry of
\* jobs:processing, for any number of workers that hold the same id
\* (queue.Pop, queue.Acknowledge).
THEOREM InFlightCounts == Spec => []InFlightMatchesHolders
<1>1. Init => InFlightMatchesHolders
  <2> SUFFICES ASSUME Init, NEW j \in Jobs PROVE Cardinality(Holders(j)) = 0 /\ inflight[j] = 0
    BY DEF InFlightMatchesHolders
  <2>1. Holders(j) = {}
    BY DEF Init, Holders
  <2> QED
    BY <2>1, FS_EmptySet DEF Init
<1>2. TypeOK /\ TypeOK' /\ InFlightMatchesHolders /\ [Next]_vars => InFlightMatchesHolders'
  <2> SUFFICES ASSUME TypeOK, TypeOK', InFlightMatchesHolders, [Next]_vars, NEW j \in Jobs
               PROVE  /\ Cardinality(Holders(j)') <= inflight'[j]
                      /\ crashes' = 0 /\ j \notin faulted' =>
                           inflight'[j] = Cardinality(Holders(j)')
    BY DEF InFlightMatchesHolders
  <2>1. /\ Cardinality(Holders(j)) <= inflight[j]
        /\ crashes = 0 /\ j \notin faulted => inflight[j] = Cardinality(Holders(j))
    BY DEF InFlightMatchesHolders
  <2>2. /\ j \notin faulted' => j \notin faulted
        /\ inflight[j] \in Nat /\ inflight'[j] \in Nat
    BY FaultedGrows DEF TypeOK
  <2>3. Holders(j) \in SUBSET Workers /\ Holders(j)' \in SUBSET Workers
    BY DEF Holders
  <2>4. ASSUME NEW w \in Workers, Pop(w) \/ Acknowledge(w)
        PROVE  /\ Cardinality(Holders(j)') <= inflight'[j]
               /\ crashes' = 0 /\ j \notin faulted' =>
                    inflight'[j] = Cardinality(Holders(j)')
    <3>1. crashes' = crashes
      BY <2>4 DEF Pop, Acknowledge
    <3>2. Holders(j) \ {w} = Holders(j)' \ {w}
      BY <2>4 DEF Pop, Acknowledge, Holders, TypeOK, Goto
    <3>3. /\ Cardinality(Holders(j)) \in Nat /\ Cardinality(Holders(j)') \in Nat
          /\ w \notin Holders(j) /\ w \in Holders(j)' =>
               Cardinality(Holders(j)') = Cardinality(Holders(j)) + 1
          /\ w \in Holders(j) /\ w \notin Holders(j)' =>
               Cardinality(Holders(j)) = Cardinality(Holders(j)') + 1
      BY <2>3, <3>2, HoldersChange
    <3>4. CASE Pop(w)
      <4>1. w \notin Holders(j) /\ (w \in Holders(j)' <=> Head(queue) = j)
        BY <3>4 DEF Pop, Holders, TypeOK, Goto
      <4>2. inflight'[j] = inflight[j] + (IF Head(queue) = j THEN 1 ELSE 0)
        <5>1. inflight' = [inflight EXCEPT ![Head(queue)] = @ + 1] /\ queue # <<>>
          BY <3>4 DEF Pop
        <5>2. Head(queue) \in Jobs /\ inflight \in [Jobs -> Nat]
          BY <5>1, HeadInQueue DEF TypeOK
        <5> QED
          BY <5>1, <5>2
      <4>3. CASE Head(queue) = j
        BY <2>1, <2>2, <3>1, <3>3, <4>1, <4>2, <4>3
      <4>4. CASE Head(queue) # j
        <5>1. Holders(j)' = Holders(j)
          BY <3>2, <4>1, <4>4
        <5> QED
          BY <2>1, <2>2, <3>1, <4>2, <4>4, <5>1
      <4> QED
        BY <4>3, <4>4
    <3>5. CASE Acknowledge(w)
      <4>1. /\ w \notin Holders(j)' /\ (w \in Holders(j) <=> job[w] = j)
            /\ job[w] \in Jobs
        BY <3>5 DEF Acknowledge, Holders, TypeOK, Goto
      <4>2. CASE job[w] # j
        <5>1. Holders(j)' = Holders(j)
          BY <3>2, <4>1, <4>2
        <5>2. inflight'[j] = inflight[j]
          BY <3>5, <4>1, <4>2 DEF Acknowledge, Remove, TypeOK
        <5> QED
          BY <2>1, <2>2, <3>1, <5>1, <5>2
      <4>3. CASE job[w] = j /\ Remove(j)
        <5>1. inflight[j] # 0
          BY <2>1, <2>2, <3>3, <4>1, <4>3
        <5>2. inflight'[j] = inflight[j] - 1
          BY <2>2, <4>3, <5>1 DEF Remove, TypeOK
        <5> QED
          BY <2>1, <2>2, <3>1, <3>3, <4>1, <4>3, <5>2
      <4>4. CASE job[w] = j /\ SilentFault(j) /\ UNCHANGED inflight
        <5>1. j \in faulted'
          BY <4>4 DEF SilentFault
        <5> QED
          BY <2>1, <2>2, <3>3, <4>1, <4>4, <5>1
      <4> QED
        BY <3>5, <4>2, <4>3, <4>4 DEF Acknowledge
    <3> QED
      BY <2>4, <3>4, <3>5
  <2>5. CASE Crash
    <3>1. Holders(j)' = {} /\ inflight' = inflight /\ crashes \in Nat /\ crashes' = crashes + 1
      BY <2>5 DEF Crash, Holders, redisVars, TypeOK
    <3>2. Cardinality(Holders(j)') = 0 /\ crashes' # 0
      BY <3>1, FS_EmptySet
    <3> QED
      BY <2>2, <3>2
  <2>6. CASE inflight'[j] = inflight[j] /\ Holders(j)' = Holders(j) /\ crashes' = crashes
    BY <2>1, <2>2, <2>6
  <2> QED
    BY <2>4, <2>5, <2>6, InFlightSteps
<1> QED
  BY <1>1, <1>2, TypeCorrect, PTL DEF Spec

-----------------------------------------------------------------------------
\* One carrier for each id.

\* No call was lost for this job, and no job outlived stuckJobAge.
Calm(j) == overruns = 0 /\ Lossless(j)

\* The worker has the job to do, not merely to acknowledge.
Runs(w, j) == job[w] = j /\ pc[w] \notin {"idle", "ack"}
Running(j) == \E w \in Workers : Runs(w, j)

OnceInQueue(j) ==
  \A i, k \in 1..Len(queue) : queue[i] = j /\ queue[k] = j => i = k

\* The id is in one place: not dispatched yet, in the list, with one worker,
\* with the sweep, or nowhere.
OneCarrier(j) ==
  /\ OnceInQueue(j)
  /\ \A v, w \in Workers : Runs(v, j) /\ Runs(w, j) => v = w
  /\ InQueue(j) => ~Running(j)
  /\ requeuing = j => ~InQueue(j) /\ ~Running(j)
  /\ j \in old \cup stuck => ~InQueue(j) /\ ~Running(j) /\ requeuing # j
  /\ InQueue(j) \/ Running(j) \/ requeuing = j \/ j \in old \cup stuck =>
       dispatch[j] = "done"

\* The statuses of a job that a worker at p may work on.
Fits(p, s) ==
  \/ s = "gone"
  \/ s = "queued" /\ p \in {"find", "mark", "push"}
  \/ s = "processing" /\ p \in {"process", "report", "complete", "increment", "settle"}
  \/ s = "completed" /\ p = "complete"

\* The row says where the id is.
RowFits(j) ==
  /\ dispatch[j] \in {"none", "create", "skipped"} => status[j] = "none"
  /\ InQueue(j) \/ dispatch[j] = "push" \/ requeuing = j =>
       status[j] \in {"queued", "gone"}
  /\ \A w \in Workers : Runs(w, j) => Fits(pc[w], status[j])
  /\ j \in old \cup stuck => status[j] \in {"processing", "gone"}

Storing(j) == \E w \in Workers : Runs(w, j) /\ pc[w] \in {"report", "complete"}

\* The job has succeeded once more than there were crashes only if that is
\* being stored or has been.
SuccFits(j) ==
  /\ succ[j] <= 1 + crashes
  /\ status[j] \in {"none", "queued", "processing"} /\ ~Storing(j) => succ[j] <= crashes
  /\ \A w \in Workers : Runs(w, j) /\ pc[w] \in {"mark", "process"} => succ[j] <= crashes

JobFits(j) == OneCarrier(j) /\ RowFits(j) /\ SuccFits(j)
HandoffInv == \A j \in Jobs : Calm(j) => JobFits(j)

\* Once a job is no longer calm, it never is again.
LEMMA CalmBefore ==
  ASSUME TypeOK, [Next]_vars, NEW j \in Jobs, Calm(j)'
  PROVE  Calm(j)
<1>1. Lossless(j)
  BY LosslessBefore DEF Calm
<1>2. overruns \in Nat
  BY DEF TypeOK
<1>3. overruns' = 0 => overruns = 0
  BY <1>2 DEF Next, WorkerStep, SweepStep, vars, BeginDispatch, CreateRow, PushNew,
     Age, Pop, Find, Mark, ProcessSucceeds, Report, Complete, ProcessFails, Increment,
     GiveUp, Retry, PushRetry, Acknowledge, SweepList, SweepReset, SweepPush, Crash,
     DeleteMerchant
<1> QED
  BY <1>1, <1>3 DEF Calm

\* A push and a pop leave an id at most once in the list.
LEMMA PushOnce ==
  ASSUME TypeOK, NEW k \in Jobs, NEW j \in Jobs, queue' = Append(queue, k),
         OnceInQueue(j), k = j => ~InQueue(j)
  PROVE  OnceInQueue(j)'
<1>1. /\ Len(queue') = Len(queue) + 1 /\ Len(queue) \in Nat
      /\ queue'[Len(queue) + 1] = k
      /\ \A i \in 1..Len(queue) : queue'[i] = queue[i]
  BY DEF TypeOK
<1> SUFFICES ASSUME NEW i \in 1..Len(queue'), NEW m \in 1..Len(queue'),
                    queue'[i] = j, queue'[m] = j
             PROVE  i = m
  BY DEF OnceInQueue
<1>2. CASE k = j
  <2>1. \A n \in 1..Len(queue) : queue[n] # j
    BY <1>2 DEF InQueue
  <2>2. i = Len(queue) + 1 /\ m = Len(queue) + 1
    BY <1>1, <2>1
  <2> QED
    BY <2>2
<1>3. CASE k # j
  <2>1. i \in 1..Len(queue) /\ m \in 1..Len(queue)
    BY <1>1, <1>3
  <2> QED
    BY <1>1, <2>1 DEF OnceInQueue
<1> QED
  BY <1>2, <1>3

LEMMA PopOnce ==
  ASSUME TypeOK, NEW j \in Jobs, queue # <<>>, queue' = Tail(queue), OnceInQueue(j)
  PROVE  OnceInQueue(j)' /\ (Head(queue) = j => ~InQueue(j)')
<1>1. /\ Len(queue) \in Nat \ {0} /\ Len(queue') = Len(queue) - 1
      /\ Head(queue) = queue[1]
      /\ \A i \in 1..Len(queue') : queue'[i] = queue[i + 1]
  BY DEF TypeOK
<1>2. \A i \in 1..Len(queue') : i + 1 \in 1..Len(queue) /\ i + 1 # 1 /\ 1 \in 1..Len(queue)
  BY <1>1
<1>3. OnceInQueue(j)'
  <2> SUFFICES ASSUME NEW i \in 1..Len(queue'), NEW m \in 1..Len(queue'),
                      queue'[i] = j, queue'[m] = j
               PROVE  i = m
    BY DEF OnceInQueue
  <2>1. i + 1 = m + 1
    BY <1>1, <1>2 DEF OnceInQueue
  <2> QED
    BY <1>1, <2>1
<1>4. Head(queue) = j => ~InQueue(j)'
  BY <1>1, <1>2 DEF OnceInQueue, InQueue
<1> QED
  BY <1>3, <1>4

\* A call that is not lost does what it says, and to its own job only.
LEMMA UpdateOf ==
  ASSUME TypeOK, NEW k \in Jobs, NEW j \in Jobs, NEW s, UpdateStatus(k, s), Lossless(j)'
  PROVE  /\ status'[j] = IF j = k /\ HasRow(j) THEN s ELSE status[j]
         /\ j \in old' => j \in old /\ j # k
<1>1. CASE /\ status' = IF HasRow(k) THEN [status EXCEPT ![k] = s] ELSE status
           /\ old' = old \ {k}
  BY <1>1 DEF TypeOK
<1>2. CASE SilentFault(k) /\ UNCHANGED <<status, old>>
  BY <1>2, NotLost
<1> QED
  BY <1>1, <1>2 DEF UpdateStatus

LEMMA PushOf ==
  ASSUME TypeOK, NEW k \in Jobs, NEW j \in Jobs, Push(k), Lossless(j)',
         OnceInQueue(j), k = j => ~InQueue(j)
  PROVE  OnceInQueue(j)' /\ (InQueue(j)' <=> InQueue(j) \/ j = k)
<1>1. CASE queue' = Append(queue, k)
  BY <1>1, PushOnce, AppendInQueue
<1>2. CASE SilentFault(k) /\ UNCHANGED queue
  <2>1. k # j
    BY <1>2, NotLost
  <2> QED
    BY <1>2, <2>1 DEF OnceInQueue, InQueue
<1> QED
  BY <1>1, <1>2 DEF Push

\* A step that leaves a job, its carrier and its worker alone.
LEMMA JobLeftAlone ==
  ASSUME TypeOK, NEW j \in Jobs, JobFits(j),
         status'[j] = status[j], dispatch'[j] = dispatch[j], succ'[j] = succ[j],
         OnceInQueue(j)', InQueue(j)' => InQueue(j),
         \A w \in Workers : Runs(w, j)' <=> Runs(w, j),
         \A w \in Workers : Runs(w, j) => pc'[w] = pc[w],
         requeuing' = j => requeuing = j,
         j \in old' \cup stuck' => j \in old \cup stuck,
         crashes' = crashes
  PROVE  JobFits(j)'
<1>1. OneCarrier(j)'
  BY DEF JobFits, OneCarrier, Running
<1>2. RowFits(j)'
  BY DEF JobFits, RowFits
<1>3. SuccFits(j)'
  BY DEF JobFits, SuccFits, Storing
<1> QED
  BY <1>1, <1>2, <1>3 DEF JobFits

\* Where a running job is.
LEMMA RunnerFacts ==
  ASSUME TypeOK, NEW j \in Jobs, JobFits(j), NEW w \in Workers, Runs(w, j)
  PROVE  /\ ~InQueue(j) /\ requeuing # j /\ j \notin old \cup stuck /\ dispatch[j] = "done"
         /\ Fits(pc[w], status[j])
         /\ \A v \in Workers : Runs(v, j) => v = w
         /\ OnceInQueue(j)
<1>1. Running(j)
  BY DEF Running
<1> QED
  BY <1>1 DEF JobFits, OneCarrier, RowFits

\* A worker goes on with its job.
LEMMA RunnerGoesOn ==
  ASSUME TypeOK, NEW j \in Jobs, JobFits(j), NEW w \in Workers, Runs(w, j),
         NEW p, p # "idle", Goto(w, p), UNCHANGED <<job, queue, dispatch, requeuing, stuck, crashes>>,
         old' \subseteq old,
         p # "ack" => Fits(p, status'[j]),
         succ'[j] <= 1 + crashes,
         status'[j] \in {"none", "queued", "processing"} /\ p \notin {"report", "complete"} =>
           succ'[j] <= crashes,
         p \in {"mark", "process"} => succ'[j] <= crashes
  PROVE  JobFits(j)'
<1>1. /\ ~InQueue(j) /\ requeuing # j /\ j \notin old \cup stuck /\ dispatch[j] = "done"
      /\ \A v \in Workers : Runs(v, j) => v = w
      /\ OnceInQueue(j)
  BY RunnerFacts
<1>2. /\ ~InQueue(j)' /\ requeuing' # j /\ j \notin old' \cup stuck' /\ dispatch'[j] = "done"
      /\ OnceInQueue(j)'
  BY <1>1 DEF InQueue, OnceInQueue
<1>3. /\ \A v \in Workers : Runs(v, j)' => v = w
      /\ pc'[w] = p /\ (Runs(w, j)' <=> p # "ack")
  BY <1>1 DEF Runs, Goto, TypeOK
<1>4. OneCarrier(j)'
  BY <1>2, <1>3 DEF OneCarrier, Running
<1>5. RowFits(j)'
  BY <1>2, <1>3 DEF RowFits
<1>6. SuccFits(j)'
  BY <1>3 DEF SuccFits, Storing
<1> QED
  BY <1>4, <1>5, <1>6 DEF JobFits

\* Dispatching a job.
LEMMA DispatchFits ==
  ASSUME TypeOK, NEW j \in Jobs, Calm(j)', JobFits(j), NEW k \in Jobs,
         BeginDispatch(k) \/ CreateRow(k) \/ PushNew(k)
  PROVE  JobFits(j)'
<1>1. /\ UNCHANGED <<workVars, sweepVars, old, succ, crashes>>
      /\ dispatch \in [Jobs -> DispatchStage] /\ status \in [Jobs -> Statuses]
  BY DEF BeginDispatch, CreateRow, PushNew, dbVars, TypeOK
<1>2. \A w \in Workers : (Runs(w, j)' <=> Runs(w, j)) /\ pc'[w] = pc[w]
  BY <1>1 DEF Runs, workVars
<1>3. UNCHANGED <<requeuing, stuck>> /\ Lossless(j)'
  BY <1>1 DEF sweepVars, Calm
<1>4. CASE k # j
  <2>1. status'[j] = status[j] /\ dispatch'[j] = dispatch[j]
    BY <1>1, <1>4 DEF BeginDispatch, CreateRow, PushNew, dbVars
  <2>2. OnceInQueue(j)' /\ (InQueue(j)' => InQueue(j))
    <3>1. CASE PushNew(k)
      BY <1>3, <1>4, <3>1, PushOf DEF PushNew, JobFits, OneCarrier
    <3>2. CASE BeginDispatch(k) \/ CreateRow(k)
      BY <3>2 DEF BeginDispatch, CreateRow, redisVars, OnceInQueue, InQueue, JobFits, OneCarrier
    <3> QED
      BY <3>1, <3>2
  <2> QED
    BY <1>1, <1>2, <1>3, <2>1, <2>2, JobLeftAlone
<1>5. CASE k = j
  <2>1. ~InQueue(j) /\ ~Running(j) /\ requeuing # j /\ j \notin old \cup stuck
    BY <1>5 DEF BeginDispatch, CreateRow, PushNew, JobFits, OneCarrier
  <2>2. ~Running(j)' /\ requeuing' # j /\ j \notin old' \cup stuck' /\ ~Storing(j)'
    BY <1>1, <1>2, <1>3, <2>1 DEF Running, Storing
  <2>3. OnceInQueue(j)' /\ (InQueue(j)' => dispatch[j] = "push" /\ dispatch'[j] = "done")
    <3>1. CASE PushNew(k)
      BY <1>1, <1>3, <1>5, <2>1, <3>1, PushOf DEF PushNew, JobFits, OneCarrier
    <3>2. CASE BeginDispatch(k) \/ CreateRow(k)
      BY <2>1, <3>2 DEF BeginDispatch, CreateRow, redisVars, OnceInQueue, InQueue
    <3> QED
      BY <3>1, <3>2
  <2>4. OneCarrier(j)'
    BY <2>2, <2>3 DEF OneCarrier, Running
  <2>5. /\ dispatch'[j] \in {"none", "create", "skipped"} => status'[j] = "none"
        /\ InQueue(j)' \/ dispatch'[j] = "push" => status'[j] \in {"queued", "gone"}
        /\ status'[j] # status[j] => status[j] = "none"
    <3>1. CASE BeginDispatch(j)
      BY <1>1, <2>3, <3>1 DEF BeginDispatch, dbVars, JobFits, RowFits
    <3>2. CASE CreateRow(j)
      BY <1>1, <2>3, <3>2 DEF CreateRow, JobFits, RowFits
    <3>3. CASE PushNew(j)
      BY <1>1, <3>3 DEF PushNew, dbVars, JobFits, RowFits
    <3> QED
      BY <1>5, <3>1, <3>2, <3>3
  <2>6. RowFits(j)'
    BY <2>2, <2>5 DEF RowFits, Running
  <2>7. ~Storing(j)
    BY <2>1 DEF Storing, Running
  <2>8. SuccFits(j)'
    BY <1>1, <2>2, <2>5, <2>7 DEF SuccFits, JobFits, RowFits, Running
  <2> QED
    BY <2>4, <2>6, <2>8 DEF JobFits
<1> QED
  BY <1>4, <1>5

\* Taking an id from the list.
LEMMA PopFits ==
  ASSUME TypeOK, NEW j \in Jobs, JobFits(j), NEW w \in Workers, Pop(w)
  PROVE  JobFits(j)'
<1>1. /\ UNCHANGED <<dbVars, dispatch, sweepVars, crashes, succ>>
      /\ pc[w] = "idle" /\ queue # <<>> /\ queue' = Tail(queue)
      /\ Head(queue) \in Jobs /\ InQueue(Head(queue))
  BY HeadInQueue DEF Pop
<1>2. /\ pc'[w] = "find" /\ job'[w] = Head(queue) /\ ~Runs(w, j)
      /\ \A v \in Workers \ {w} : pc'[v] = pc[v] /\ job'[v] = job[v]
  BY <1>1 DEF Pop, Goto, TypeOK, Runs
<1>3. /\ OnceInQueue(j)' /\ (Head(queue) = j => ~InQueue(j)')
      /\ InQueue(j)' => InQueue(j)
  BY <1>1, PopOnce, PopInQueue DEF JobFits, OneCarrier
<1>4. UNCHANGED <<status, old, requeuing, stuck>>
  BY <1>1 DEF dbVars, sweepVars
<1>5. CASE Head(queue) # j
  <2>1. \A v \in Workers : (Runs(v, j)' <=> Runs(v, j)) /\ (Runs(v, j) => pc'[v] = pc[v])
    BY <1>2, <1>5 DEF Runs
  <2> QED
    BY <1>1, <1>3, <1>4, <2>1, JobLeftAlone
<1>6. CASE Head(queue) = j
  <2>1. /\ InQueue(j) /\ ~Running(j) /\ requeuing # j /\ j \notin old \cup stuck
        /\ dispatch[j] = "done" /\ status[j] \in {"queued", "gone"}
    BY <1>1, <1>6 DEF JobFits, OneCarrier, RowFits
  <2>2. \A v \in Workers : Runs(v, j)' <=> v = w
    BY <1>2, <1>6, <2>1 DEF Runs, Running
  <2>3. OneCarrier(j)'
    BY <1>1, <1>3, <1>4, <1>6, <2>1, <2>2 DEF OneCarrier
  <2>4. RowFits(j)'
    BY <1>1, <1>2, <1>3, <1>4, <1>6, <2>1, <2>2 DEF RowFits, Fits
  <2>5. SuccFits(j)'
    BY <1>1, <1>2, <1>4, <2>1, <2>2 DEF JobFits, SuccFits, Storing, Running
  <2> QED
    BY <2>3, <2>4, <2>5 DEF JobFits
<1> QED
  BY <1>5, <1>6

\* What a worker does with its job.
LEMMA WorkFits ==
  ASSUME TypeOK, NEW j \in Jobs, Calm(j)', JobFits(j), NEW w \in Workers, job[w] = j,
         \/ Find(w) \/ Mark(w) \/ ProcessSucceeds(w) \/ Report(w) \/ Complete(w)
         \/ ProcessFails(w) \/ Increment(w) \/ GiveUp(w) \/ Retry(w)
  PROVE  JobFits(j)'
<1>1. /\ Runs(w, j) /\ UNCHANGED <<job, queue, dispatch, requeuing, stuck, crashes>>
      /\ pc \in [Workers -> WorkerPC] /\ Lossless(j)'
      /\ crashes \in Nat /\ succ \in [Jobs -> Nat] /\ old \subseteq Jobs
  BY DEF Find, Mark, ProcessSucceeds, Report, Complete, ProcessFails, Increment,
     GiveUp, Retry, Runs, redisVars, sweepVars, TypeOK, Calm
<1>2. /\ Fits(pc[w], status[j]) /\ \A v \in Workers : Runs(v, j) => v = w
      /\ succ[j] <= 1 + crashes
      /\ pc[w] \in {"mark", "process"} => succ[j] <= crashes
      /\ status[j] \in {"none", "queued", "processing"} /\ pc[w] \notin {"report", "complete"} =>
           succ[j] <= crashes
  BY <1>1, RunnerFacts DEF JobFits, SuccFits, Storing
<1>3. CASE Find(w)
  <2>1. UNCHANGED <<status, old, succ>>
    BY <1>3 DEF Find, dbVars
  <2>2. \/ Goto(w, "mark") /\ HasRow(j) /\ ~Terminal(j)
        \/ Goto(w, "ack") /\ (~HasRow(j) \/ Terminal(j))
    BY <1>1, <1>3, NotLost DEF Find
  <2>3. pc[w] = "find"
    BY <1>3 DEF Find
  <2> QED
    BY <1>1, <1>2, <2>1, <2>2, <2>3, RunnerGoesOn DEF Fits, HasRow, Terminal
<1>4. CASE Mark(w)
  <2>1. /\ status'[j] = IF HasRow(j) THEN "processing" ELSE status[j]
        /\ old' \subseteq old /\ succ' = succ /\ pc[w] = "mark" /\ Goto(w, "process")
    BY <1>1, <1>4, UpdateOf DEF Mark, UpdateStatus
  <2> QED
    BY <1>1, <1>2, <2>1, RunnerGoesOn DEF Fits, HasRow
<1>5. CASE ProcessSucceeds(w)
  <2>1. UNCHANGED <<status, old>> /\ succ'[j] = succ[j] + 1 /\ pc[w] = "process"
    BY <1>1, <1>5 DEF ProcessSucceeds, dbVars
  <2>2. PICK p \in {"report", "complete"} : Goto(w, p)
    BY <1>5 DEF ProcessSucceeds
  <2>3. Fits(p, status'[j]) /\ succ'[j] <= 1 + crashes
    BY <1>1, <1>2, <2>1, <2>2 DEF Fits
  <2> QED
    BY <1>1, <2>1, <2>2, <2>3, RunnerGoesOn
<1>6. CASE Report(w)
  <2>1. /\ status'[j] = IF HasRow(j) THEN "completed" ELSE status[j]
        /\ old' \subseteq old /\ succ' = succ /\ pc[w] = "report" /\ Goto(w, "complete")
    BY <1>1, <1>6, UpdateOf DEF Report, UpdateStatus
  <2> QED
    BY <1>1, <1>2, <2>1, RunnerGoesOn DEF Fits, HasRow
<1>7. CASE Complete(w)
  <2>1. /\ status'[j] = IF HasRow(j) THEN "completed" ELSE status[j]
        /\ old' \subseteq old /\ succ' = succ /\ pc[w] = "complete" /\ Goto(w, "ack")
    BY <1>1, <1>7, UpdateOf DEF Complete, UpdateStatus
  <2> QED
    BY <1>1, <1>2, <2>1, RunnerGoesOn DEF Fits, HasRow
<1>8. CASE ProcessFails(w)
  <2>1. UNCHANGED <<status, old, succ>> /\ pc[w] = "process" /\ Goto(w, "increment")
    BY <1>8 DEF ProcessFails, dbVars
  <2> QED
    BY <1>1, <1>2, <2>1, RunnerGoesOn DEF Fits
<1>9. CASE Increment(w)
  <2>1. /\ UNCHANGED <<status, succ>> /\ old' \subseteq old
        /\ pc[w] = "increment" /\ Goto(w, "settle")
    BY <1>9 DEF Increment, IncrementRetries
  <2> QED
    BY <1>1, <1>2, <2>1, RunnerGoesOn DEF Fits
<1>10. CASE GiveUp(w)
  <2>1. /\ status'[j] = IF HasRow(j) THEN "failed" ELSE status[j]
        /\ old' \subseteq old /\ succ' = succ /\ pc[w] = "settle" /\ Goto(w, "ack")
    BY <1>1, <1>10, UpdateOf DEF GiveUp, UpdateStatus
  <2> QED
    BY <1>1, <1>2, <2>1, RunnerGoesOn DEF Fits, HasRow
<1>11. CASE Retry(w)
  <2>1. /\ status'[j] = IF HasRow(j) THEN "queued" ELSE status[j]
        /\ old' \subseteq old /\ succ' = succ /\ pc[w] = "settle" /\ Goto(w, "push")
    BY <1>1, <1>11, UpdateOf DEF Retry, UpdateStatus
  <2> QED
    BY <1>1, <1>2, <2>1, RunnerGoesOn DEF Fits, HasRow
<1> QED
  BY <1>3, <1>4, <1>5, <1>6, <1>7, <1>8, <1>9, <1>10, <1>11

\* The end of a run.
LEMMA PushRetryFits ==
  ASSUME TypeOK, NEW j \in Jobs, Calm(j)', JobFits(j), NEW w \in Workers, job[w] = j, PushRetry(w)
  PROVE  JobFits(j)'
<1>1. /\ Runs(w, j) /\ UNCHANGED <<dbVars, dispatch, job, sweepVars, crashes, succ>>
      /\ pc[w] = "push" /\ Goto(w, "ack") /\ Push(j)
      /\ pc \in [Workers -> WorkerPC] /\ Lossless(j)'
  BY DEF PushRetry, Runs, TypeOK, Calm
<1>2. /\ ~InQueue(j) /\ requeuing # j /\ j \notin old \cup stuck /\ dispatch[j] = "done"
      /\ Fits(pc[w], status[j])
      /\ \A v \in Workers : Runs(v, j) => v = w
      /\ OnceInQueue(j)
  BY <1>1, RunnerFacts
<1>3. ~Running(j)' /\ ~Storing(j)' /\ ~Storing(j)
  BY <1>1, <1>2 DEF Running, Storing, Runs, Goto
<1>4. UNCHANGED <<status, old, requeuing, stuck>>
  BY <1>1 DEF dbVars, sweepVars
<1>5. OnceInQueue(j)'
  BY <1>1, <1>2, PushOf
<1>6. OneCarrier(j)'
  BY <1>1, <1>2, <1>3, <1>4, <1>5 DEF OneCarrier, Running
<1>7. RowFits(j)'
  BY <1>1, <1>2, <1>3, <1>4 DEF RowFits, Running, Fits
<1>8. SuccFits(j)'
  BY <1>1, <1>3, <1>4 DEF SuccFits, JobFits, Running
<1> QED
  BY <1>6, <1>7, <1>8 DEF JobFits

LEMMA AcknowledgeFits ==
  ASSUME TypeOK, NEW j \in Jobs, JobFits(j), NEW w \in Workers, Acknowledge(w)
  PROVE  JobFits(j)'
<1>1. /\ UNCHANGED <<dbVars, queue, dispatch, sweepVars, crashes, succ>>
      /\ pc[w] = "ack" /\ pc'[w] = "idle"
      /\ \A v \in Workers \ {w} : pc'[v] = pc[v] /\ job'[v] = job[v]
  BY DEF Acknowledge, Goto, TypeOK
<1>2. UNCHANGED <<status, old, requeuing, stuck>>
  BY <1>1 DEF dbVars, sweepVars
<1>3. \A v \in Workers : (Runs(v, j)' <=> Runs(v, j)) /\ (Runs(v, j) => pc'[v] = pc[v])
  BY <1>1 DEF Runs
<1>4. OnceInQueue(j)' /\ (InQueue(j)' => InQueue(j))
  BY <1>1 DEF OnceInQueue, InQueue, JobFits, OneCarrier
<1> QED
  BY <1>1, <1>2, <1>3, <1>4, JobLeftAlone

\* What a worker does with another job.
LEMMA OtherWorkFits ==
  ASSUME TypeOK, NEW j \in Jobs, Calm(j)', JobFits(j), NEW w \in Workers,
         job[w] # j, WorkerStep(w)
  PROVE  JobFits(j)'
<1>1. CASE Pop(w)
  BY <1>1, PopFits
<1>2. CASE Acknowledge(w)
  BY <1>2, AcknowledgeFits
<1>3. CASE ~Pop(w) /\ ~Acknowledge(w)
  <2> DEFINE k == job[w]
  <2>1. /\ UNCHANGED <<job, dispatch, sweepVars, crashes>> /\ pc[w] # "idle"
        /\ \A v \in Workers \ {w} : pc'[v] = pc[v]
        /\ Lossless(j)'
    BY <1>3 DEF WorkerStep, Find, Mark, ProcessSucceeds, Report, Complete, ProcessFails,
       Increment, GiveUp, Retry, PushRetry, Goto, TypeOK, Calm
  <2>2. k \in Jobs
    BY <2>1 DEF TypeOK
  <2>3. \A v \in Workers : (Runs(v, j)' <=> Runs(v, j)) /\ (Runs(v, j) => pc'[v] = pc[v])
    BY <2>1 DEF Runs
  <2>4. status'[j] = status[j] /\ old' \subseteq old
    <3>1. CASE UNCHANGED <<status, old>>
      BY <3>1
    <3>2. ASSUME NEW s, UpdateStatus(k, s) PROVE status'[j] = status[j] /\ old' \subseteq old
      BY <2>1, <2>2, <3>2, UpdateOf DEF UpdateStatus
    <3>3. CASE Increment(w)
      BY <3>3 DEF Increment, IncrementRetries
    <3> QED
      BY <1>3, <3>1, <3>2, <3>3 DEF WorkerStep, Find, Mark, ProcessSucceeds, Report, Complete,
         ProcessFails, GiveUp, Retry, PushRetry, dbVars
  <2>5. succ'[j] = succ[j]
    BY <1>3 DEF WorkerStep, Find, Mark, ProcessSucceeds, Report, Complete, ProcessFails,
       Increment, GiveUp, Retry, PushRetry, TypeOK
  <2>6. OnceInQueue(j)' /\ (InQueue(j)' => InQueue(j))
    <3>1. CASE PushRetry(w)
      BY <2>1, <2>2, <3>1, PushOf DEF PushRetry, JobFits, OneCarrier
    <3>2. CASE UNCHANGED queue
      BY <3>2 DEF OnceInQueue, InQueue, JobFits, OneCarrier
    <3> QED
      BY <1>3, <3>1, <3>2 DEF WorkerStep, Find, Mark, ProcessSucceeds, Report, Complete,
         ProcessFails, Increment, GiveUp, Retry, redisVars
  <2>7. UNCHANGED <<requeuing, stuck>>
    BY <2>1 DEF sweepVars
  <2> QED
    BY <2>1, <2>3, <2>4, <2>5, <2>6, <2>7, JobLeftAlone
<1> QED
  BY <1>1, <1>2, <1>3

\* The sweep.
LEMMA SweepFits ==
  ASSUME TypeOK, NEW j \in Jobs, Calm(j)', JobFits(j), SweepStep
  PROVE  JobFits(j)'
<1>1. /\ UNCHANGED <<workVars, dispatch, succ, crashes>> /\ Lossless(j)' /\ j # NoJob
      /\ stuck \subseteq Jobs /\ requeuing \in Jobs \cup {NoJob}
  BY JobQueueAssumption DEF SweepStep, SweepList, SweepReset, SweepPush, Calm,
     JobQueueAssumption, TypeOK
<1>2. \A w \in Workers : (Runs(w, j)' <=> Runs(w, j)) /\ pc'[w] = pc[w]
  BY <1>1 DEF workVars, Runs
<1>3. CASE SweepList
  <2>1. /\ UNCHANGED <<status, old, queue, requeuing>>
        /\ j \in stuck' => j \in old
    BY <1>3 DEF SweepList, ListStuckJobs, dbVars, redisVars
  <2> QED
    BY <1>1, <1>2, <2>1, JobLeftAlone DEF OnceInQueue, InQueue, JobFits, OneCarrier
<1>4. ASSUME NEW k \in Jobs, k # j, SweepReset(k) PROVE JobFits(j)'
  <2>1. /\ status'[j] = status[j] /\ (j \in old' => j \in old)
        /\ (j \in stuck' => j \in stuck) /\ requeuing' # j /\ queue' = queue
    BY <1>1, <1>4, UpdateOf DEF SweepReset, redisVars
  <2> QED
    BY <1>1, <1>2, <2>1, JobLeftAlone DEF OnceInQueue, InQueue, JobFits, OneCarrier
<1>5. CASE SweepReset(j)
  <2>1. /\ j \in stuck /\ requeuing' = j /\ j \notin stuck' /\ j \notin old' /\ queue' = queue
        /\ status'[j] = IF HasRow(j) THEN "queued" ELSE status[j]
    BY <1>1, <1>5, UpdateOf DEF SweepReset, redisVars
  <2>2. /\ OnceInQueue(j) /\ ~InQueue(j) /\ ~Running(j) /\ dispatch[j] = "done"
        /\ status[j] \in {"processing", "gone"}
    BY <2>1 DEF JobFits, OneCarrier, RowFits
  <2>3. OnceInQueue(j)' /\ ~InQueue(j)' /\ ~Running(j)' /\ ~Storing(j)' /\ ~Storing(j)
    BY <1>2, <2>1, <2>2 DEF OnceInQueue, InQueue, Running, Storing
  <2>4. OneCarrier(j)'
    BY <1>1, <2>1, <2>2, <2>3 DEF OneCarrier, Running
  <2>5. RowFits(j)'
    BY <1>1, <2>1, <2>2, <2>3 DEF RowFits, Running, HasRow
  <2>6. SuccFits(j)'
    BY <1>1, <2>1, <2>2, <2>3 DEF SuccFits, JobFits, Running, HasRow
  <2> QED
    BY <2>4, <2>5, <2>6 DEF JobFits
<1>6. CASE SweepPush
  <2>1. /\ UNCHANGED <<status, old, stuck>> /\ requeuing \in Jobs /\ requeuing' = NoJob
        /\ Push(requeuing)
    BY <1>1, <1>6 DEF SweepPush, dbVars
  <2>2. OnceInQueue(j)' /\ (InQueue(j)' <=> InQueue(j) \/ j = requeuing)
    BY <1>1, <2>1, PushOf DEF JobFits, OneCarrier
  <2>3. CASE requeuing # j
    BY <1>1, <1>2, <2>1, <2>2, <2>3, JobLeftAlone
  <2>4. CASE requeuing = j
    <3>1. /\ ~Running(j) /\ j \notin old \cup stuck /\ dispatch[j] = "done"
          /\ status[j] \in {"queued", "gone"}
      BY <2>4 DEF JobFits, OneCarrier, RowFits
    <3>2. ~Running(j)' /\ ~Storing(j)' /\ ~Storing(j)
      BY <1>2, <3>1 DEF Running, Storing
    <3>3. OneCarrier(j)'
      BY <1>1, <2>1, <2>2, <3>1, <3>2 DEF OneCarrier, Running
    <3>4. RowFits(j)'
      BY <1>1, <2>1, <2>2, <3>1, <3>2 DEF RowFits, Running
    <3>5. SuccFits(j)'
      BY <1>1, <2>1, <3>1, <3>2 DEF SuccFits, JobFits, Running
    <3> QED
      BY <3>3, <3>4, <3>5 DEF JobFits
  <2> QED
    BY <2>3, <2>4
<1> QED
  BY <1>3, <1>4, <1>5, <1>6 DEF SweepStep

\* Time, crashes and merchants that leave.
LEMMA AgeFits ==
  ASSUME TypeOK, NEW j \in Jobs, Calm(j)', JobFits(j), NEW k \in Jobs, Age(k)
  PROVE  JobFits(j)'
<1>1. /\ UNCHANGED <<status, queue, dispatch, workVars, requeuing, stuck, succ, crashes>>
      /\ status[k] = "processing" /\ old' = old \cup {k}
  BY DEF Age, redisVars, sweepVars
<1>2. \A w \in Workers : (Runs(w, j)' <=> Runs(w, j)) /\ pc'[w] = pc[w]
  BY <1>1 DEF workVars, Runs
<1>3. CASE k # j
  BY <1>1, <1>2, <1>3, JobLeftAlone DEF OnceInQueue, InQueue, JobFits, OneCarrier
<1>4. CASE k = j
  <2>1. overruns \in Nat /\ overruns' = 0
    BY DEF TypeOK, Calm
  <2>2. Holders(j) = {}
    BY <1>4, <2>1 DEF Age
  <2>3. ~Running(j) /\ ~Running(j)' /\ ~Storing(j) /\ ~Storing(j)'
    BY <1>2, <2>2 DEF Running, Runs, Holders, Storing
  <2>4. /\ ~InQueue(j) /\ dispatch[j] \notin {"push", "none", "create", "skipped"}
        /\ requeuing # j
    BY <1>1, <1>4 DEF JobFits, RowFits
  <2>5. dispatch[j] = "done"
    BY <2>4 DEF TypeOK, DispatchStage
  <2>6. ~InQueue(j)' /\ OnceInQueue(j)'
    BY <1>1, <2>4 DEF InQueue, OnceInQueue
  <2>7. OneCarrier(j)'
    BY <1>1, <2>3, <2>4, <2>5, <2>6 DEF OneCarrier, Running
  <2>8. RowFits(j)'
    BY <1>1, <1>4, <2>3, <2>4, <2>6 DEF RowFits, Running
  <2>9. SuccFits(j)'
    BY <1>1, <2>3 DEF SuccFits, JobFits, Running
  <2> QED
    BY <2>7, <2>8, <2>9 DEF JobFits
<1> QED
  BY <1>3, <1>4

LEMMA CrashFits ==
  ASSUME TypeOK, NEW j \in Jobs, JobFits(j), Crash
  PROVE  JobFits(j)'
<1>1. /\ UNCHANGED <<status, old, queue, succ>> /\ stuck' = {} /\ requeuing' # j
      /\ dispatch'[j] = IF dispatch[j] \in {"create", "push"} THEN "done" ELSE dispatch[j]
      /\ crashes' = crashes + 1 /\ crashes \in Nat /\ succ[j] \in Nat
      /\ \A w \in Workers : ~Runs(w, j)'
  BY JobQueueAssumption DEF JobQueueAssumption, Crash, dbVars, redisVars, Runs, TypeOK
<1>2. /\ OnceInQueue(j)' <=> OnceInQueue(j)
      /\ InQueue(j)' <=> InQueue(j)
  BY <1>1 DEF OnceInQueue, InQueue
<1>3. OneCarrier(j)'
  BY <1>1, <1>2 DEF JobFits, OneCarrier, Running
<1>4. RowFits(j)'
  BY <1>1, <1>2 DEF JobFits, RowFits
<1>5. SuccFits(j)'
  BY <1>1 DEF JobFits, SuccFits
<1> QED
  BY <1>3, <1>4, <1>5 DEF JobFits

LEMMA DeleteFits ==
  ASSUME TypeOK, NEW j \in Jobs, JobFits(j), NEW m \in Merchants, DeleteMerchant(m)
  PROVE  JobFits(j)'
<1>1. /\ UNCHANGED <<queue, dispatch, workVars, requeuing, stuck, succ, crashes>>
      /\ status'[j] = status[j] \/ (status'[j] = "gone" /\ status[j] # "none")
      /\ old' \subseteq old
  BY DEF DeleteMerchant, redisVars, sweepVars, HasRow, TypeOK
<1>2. \A w \in Workers : (Runs(w, j)' <=> Runs(w, j)) /\ pc'[w] = pc[w]
  BY <1>1 DEF workVars, Runs
<1>3. /\ OnceInQueue(j)' <=> OnceInQueue(j)
      /\ InQueue(j)' <=> InQueue(j)
  BY <1>1 DEF OnceInQueue, InQueue
<1>4. (Running(j)' <=> Running(j)) /\ (Storing(j)' <=> Storing(j))
  BY <1>2 DEF Running, Storing
<1>5. OneCarrier(j)'
  BY <1>1, <1>2, <1>3, <1>4 DEF JobFits, OneCarrier
<1>6. RowFits(j)'
  BY <1>1, <1>2, <1>3 DEF JobFits, RowFits, Fits
<1>7. SuccFits(j)'
  BY <1>1, <1>2, <1>4 DEF JobFits, SuccFits
<1> QED
  BY <1>5, <1>6, <1>7 DEF JobFits

\* Every id is in one place, and its row and its successes say so.
LEMMA HandoffHolds == Spec => []HandoffInv
<1>1. Init => HandoffInv
  <2> SUFFICES ASSUME Init, NEW j \in Jobs PROVE JobFits(j)
    BY DEF HandoffInv
  <2>1. /\ ~InQueue(j) /\ OnceInQueue(j) /\ requeuing # j /\ j \notin old \cup stuck
        /\ \A w \in Workers : ~Runs(w, j)
        /\ status[j] = "none" /\ succ[j] = 0 /\ crashes = 0 /\ dispatch[j] = "none"
    BY JobQueueAssumption DEF JobQueueAssumption, Init, InQueue, OnceInQueue, Runs
  <2> QED
    BY <2>1 DEF JobFits, OneCarrier, RowFits, SuccFits, Running
<1>2. TypeOK /\ HandoffInv /\ [Next]_vars => HandoffInv'
  <2> SUFFICES ASSUME TypeOK, HandoffInv, [Next]_vars, NEW j \in Jobs, Calm(j)'
               PROVE  JobFits(j)'
    BY DEF HandoffInv
  <2>1. JobFits(j)
    BY CalmBefore DEF HandoffInv
  <2>2. ASSUME NEW k \in Jobs, BeginDispatch(k) \/ CreateRow(k) \/ PushNew(k)
        PROVE  JobFits(j)'
    BY <2>1, <2>2, DispatchFits
  <2>3. ASSUME NEW k \in Jobs, Age(k) PROVE JobFits(j)'
    BY <2>1, <2>3, AgeFits
  <2>4. ASSUME NEW w \in Workers, WorkerStep(w) PROVE JobFits(j)'
    <3>1. CASE job[w] # j
      BY <2>1, <2>4, <3>1, OtherWorkFits
    <3>2. CASE job[w] = j
      BY <2>1, <2>4, <3>2, PopFits, WorkFits, PushRetryFits, AcknowledgeFits DEF WorkerStep
    <3> QED
      BY <3>1, <3>2
  <2>5. CASE SweepStep
    BY <2>1, <2>5, SweepFits
  <2>6. CASE Crash
    BY <2>1, <2>6, CrashFits
  <2>7. ASSUME NEW m \in Merchants, DeleteMerchant(m) PROVE JobFits(j)'
    BY <2>1, <2>7, DeleteFits
  <2>8. CASE UNCHANGED vars
    <3>1. UNCHANGED <<status, old, queue, dispatch, pc, job, requeuing, stuck, crashes, succ>>
      BY <2>8 DEF vars, dbVars, redisVars, workVars, sweepVars
    <3> QED
      BY <2>1, <3>1, JobLeftAlone DEF OnceInQueue, InQueue, Runs, JobFits, OneCarrier
  <2> QED
    BY <2>2, <2>3, <2>4, <2>5, <2>6, <2>7, <2>8 DEF Next
<1> QED
  BY <1>1, <1>2, TypeCorrect, PTL DEF Spec

\* Nothing in worker.go keeps two goroutines from the same job; that the id is
\* in one place does, through crashes and sweeps.
THEOREM RunsOnce == Spec => []OneRunner
<1>1. TypeOK /\ HandoffInv => OneRunner
  <2> SUFFICES ASSUME HandoffInv, NEW j \in Jobs, overruns = 0, j \notin faulted
               PROVE  Cardinality({w \in Holders(j) : pc[w] # "ack"}) <= 1
    BY DEF OneRunner
  <2> DEFINE S == {w \in Holders(j) : pc[w] # "ack"}
  <2>1. \A v, w \in S : v = w
    BY DEF HandoffInv, Calm, Lossless, JobFits, OneCarrier, Runs, Holders
  <2>2. CASE S = {}
    BY <2>2, FS_EmptySet
  <2>3. ASSUME NEW w \in S PROVE Cardinality(S) = 1
    <3>1. S = {w}
      BY <2>1
    <3> QED
      BY <3>1, FS_Singleton
  <2> QED
    BY <2>2, <2>3
<1> QED
  BY <1>1, HandoffHolds, TypeCorrect, PTL

\* At-least-once delivery repeats the effects of a job once per crash at most
\* (queue.Pop, processJob).
THEOREM SuccessPaid == Spec => []SuccessPaidByCrash
<1>1. HandoffInv => SuccessPaidByCrash
  BY DEF HandoffInv, Calm, Lossless, JobFits, SuccFits, SuccessPaidByCrash
<1> QED
  BY <1>1, HandoffHolds, PTL

\* A finished job never becomes pending again although UpdateStatus is a blind
\* UPDATE, which workers and the sweep execute on what they read before
\* (job_repo.go, worker.go).
THEOREM FinishedStays == Spec => FinishedIsFinal
<1>1. TypeOK /\ HandoffInv /\ [Next]_vars =>
        [\A j \in Jobs : overruns' = 0 /\ j \notin faulted' /\ Terminal(j) =>
           status'[j] \in {status[j], "gone"}]_vars
  <2> SUFFICES ASSUME TypeOK, HandoffInv, [Next]_vars, NEW j \in Jobs,
                      overruns' = 0, j \notin faulted', Terminal(j)
               PROVE  status'[j] \in {status[j], "gone"}
    OBVIOUS
  <2>1. JobFits(j) /\ Lossless(j)'
    BY CalmBefore DEF HandoffInv, Calm, Lossless
  <2>2. /\ dispatch[j] # "create" /\ j \notin stuck
        /\ \A w \in Workers : Runs(w, j) => pc[w] = "complete" /\ status[j] = "completed"
    BY <2>1 DEF Terminal, JobFits, RowFits, Fits
  <2>3. ASSUME NEW k \in Jobs, CreateRow(k) PROVE status'[j] = status[j]
    BY <2>2, <2>3 DEF CreateRow, TypeOK
  <2>4. ASSUME NEW w \in Workers, NEW s, pc[w] \notin {"idle", "ack"}, UpdateStatus(job[w], s),
               pc[w] = "complete" => s = "completed"
        PROVE  status'[j] = status[j]
    <3>1. job[w] \in Jobs
      BY <2>4 DEF TypeOK
    <3>2. job[w] = j => s = status[j]
      BY <2>2, <2>4 DEF Runs
    <3> QED
      BY <2>1, <2>4, <3>1, <3>2, UpdateOf
  <2>5. ASSUME NEW k \in Jobs, SweepReset(k) PROVE status'[j] = status[j]
    BY <2>1, <2>2, <2>5, UpdateOf DEF SweepReset
  <2>6. ASSUME NEW m \in Merchants, DeleteMerchant(m) PROVE status'[j] \in {status[j], "gone"}
    BY <2>6 DEF DeleteMerchant, TypeOK
  <2>7. ASSUME NEW w \in Workers, WorkerStep(w) PROVE status'[j] = status[j]
    BY <2>4, <2>7 DEF WorkerStep, Pop, Find, Mark, ProcessSucceeds, Report, Complete,
       ProcessFails, Increment, IncrementRetries, GiveUp, Retry, PushRetry, Acknowledge, dbVars
  <2>8. CASE UNCHANGED status
    BY <2>8
  <2> QED
    BY <2>3, <2>5, <2>6, <2>7, <2>8 DEF Next, SweepStep, vars, dbVars, BeginDispatch, PushNew,
       Age, SweepList, SweepPush, Crash
<1> QED
  BY <1>1, HandoffHolds, TypeCorrect, PTL DEF Spec, FinishedIsFinal

-----------------------------------------------------------------------------
\* The lifecycle that the job API promises.

Undisturbed == faults = 0 /\ overruns = 0

\* An update of the row of a job that may be gone.
LEMMA UpdateIsMove ==
  ASSUME TypeOK, Undisturbed, Undisturbed', NEW j \in Jobs, NEW s, UpdateStatus(j, s),
         status[j] \in Statuses \ {"none"}
  PROVE  /\ UNCHANGED retries
         /\ \/ status[j] = "gone" /\ UNCHANGED status
            \/ status[j] # "gone" /\ Lifecycle!Move(j, status[j], s)
<1>1. Lossless(j)'
  BY DEF Undisturbed, Lossless
<1>2. /\ UNCHANGED retries
      /\ status' = IF HasRow(j) THEN [status EXCEPT ![j] = s] ELSE status
  BY <1>1, NotLost DEF UpdateStatus
<1> QED
  BY <1>2 DEF HasRow, Lifecycle!Move

\* What a worker does to the row of its job is a step of the lifecycle.
LEMMA WorkIsLifecycle ==
  ASSUME TypeOK, Undisturbed, Undisturbed', HandoffInv, RetryInv, NEW w \in Workers, WorkerStep(w)
  PROVE  Lifecycle!Next \/ UNCHANGED Lifecycle!vars
<1> DEFINE k == job[w]
<1>1. CASE Pop(w) \/ Find(w) \/ ProcessSucceeds(w) \/ ProcessFails(w) \/ PushRetry(w) \/ Acknowledge(w)
  BY <1>1 DEF Pop, Find, ProcessSucceeds, ProcessFails, PushRetry, Acknowledge, dbVars,
     Lifecycle!vars
<1> SUFFICES ASSUME Mark(w) \/ Report(w) \/ Complete(w) \/ Increment(w) \/ GiveUp(w) \/ Retry(w)
             PROVE  Lifecycle!Next \/ UNCHANGED Lifecycle!vars
  BY <1>1 DEF WorkerStep
<1>2. k \in Jobs /\ Runs(w, k)
  BY DEF Mark, Report, Complete, Increment, GiveUp, Retry, TypeOK, Runs
<1>3. Calm(k) /\ Lossless(k) /\ Lossless(k)'
  BY DEF Undisturbed, Calm, Lossless
<1>4. Fits(pc[w], status[k])
  BY <1>2, <1>3, RunnerFacts DEF HandoffInv
<1>5. status[k] \in Statuses \ {"none"}
  BY <1>2, <1>4 DEF Fits, TypeOK
<1>6. CASE Mark(w)
  <2>1. UpdateStatus(k, "processing") /\ pc[w] = "mark"
    BY <1>6 DEF Mark
  <2> QED
    BY <1>2, <1>4, <1>5, <2>1, UpdateIsMove DEF Fits, Lifecycle!Next, Lifecycle!Start, Lifecycle!vars
<1>7. CASE Report(w) \/ Complete(w)
  <2>1. UpdateStatus(k, "completed") /\ pc[w] \in {"report", "complete"}
    BY <1>7 DEF Report, Complete
  <2>2. status[k] \in {"gone", "processing", "completed"}
    BY <1>4, <2>1 DEF Fits
  <2>3. CASE status[k] = "completed"
    <3>1. status' = [status EXCEPT ![k] = "completed"] /\ UNCHANGED retries
      BY <1>2, <1>5, <2>1, <2>3, UpdateIsMove DEF Lifecycle!Move
    <3> QED
      BY <1>2, <2>3, <3>1 DEF TypeOK, Lifecycle!vars
  <2>4. CASE status[k] # "completed"
    BY <1>2, <1>5, <2>1, <2>2, <2>4, UpdateIsMove DEF Lifecycle!Next, Lifecycle!Finish, Lifecycle!vars
  <2> QED
    BY <2>3, <2>4
<1>8. CASE Increment(w)
  <2>1. /\ UNCHANGED status
        /\ retries' = IF HasRow(k) THEN [retries EXCEPT ![k] = @ + 1] ELSE retries
        /\ pc[w] = "increment"
    BY <1>2, <1>3, <1>8, NotLost DEF Increment, IncrementRetries
  <2> QED
    BY <1>2, <1>4, <2>1 DEF Fits, HasRow, Lifecycle!Next, Lifecycle!Attempt, Lifecycle!vars
<1>9. CASE GiveUp(w)
  <2>1. UpdateStatus(k, "failed") /\ pc[w] = "settle" /\ seen[w] + 1 >= MaxRetries
    BY <1>9 DEF GiveUp, LastAttempt
  <2>2. CASE status[k] = "gone"
    BY <1>2, <1>5, <2>1, <2>2, UpdateIsMove DEF Lifecycle!vars
  <2>3. CASE status[k] = "processing"
    <3>1. seen[w] + 1 <= retries[k]
      BY <1>3, <2>1, <2>3 DEF RetryInv, SeenIsBehind, HasRow
    <3>2. retries[k] >= MaxRetries
      BY <1>2, <2>1, <3>1, JobQueueAssumption DEF JobQueueAssumption, TypeOK
    <3> QED
      BY <1>2, <1>5, <2>1, <2>3, <3>2, UpdateIsMove DEF Lifecycle!Next, Lifecycle!GiveUp
  <2> QED
    BY <1>4, <2>1, <2>2, <2>3 DEF Fits
<1>10. CASE Retry(w)
  <2>1. UpdateStatus(k, "queued") /\ pc[w] = "settle"
    BY <1>10 DEF Retry
  <2> QED
    BY <1>2, <1>4, <1>5, <2>1, UpdateIsMove DEF Fits, Lifecycle!Next, Lifecycle!Again, Lifecycle!vars
<1> QED
  BY <1>6, <1>7, <1>8, <1>9, <1>10

\* As long as no call is lost and no job outlives stuckJobAge, everything a
\* poller sees of the rows is the lifecycle, whatever crashes, duplicates of the
\* sweep and departing merchants do: JobQueue implements JobLifecycle.
THEOREM ImplementsLifecycle == Spec /\ []Undisturbed => LifecycleSpec
<1>1. Init => Lifecycle!Init
  BY DEF Init, Lifecycle!Init
<1>2. /\ TypeOK /\ HandoffInv /\ RetryInv /\ Undisturbed /\ Undisturbed'
      /\ [Next]_vars
      => [Lifecycle!Next]_(Lifecycle!vars)
  <2> SUFFICES ASSUME TypeOK, HandoffInv, RetryInv, Undisturbed, Undisturbed', [Next]_vars
               PROVE  Lifecycle!Next \/ UNCHANGED Lifecycle!vars
    OBVIOUS
  <2>1. ASSUME NEW k \in Jobs, CreateRow(k) PROVE Lifecycle!Next \/ UNCHANGED Lifecycle!vars
    <3>1. status[k] = "none" /\ UNCHANGED retries
      BY <2>1 DEF CreateRow, RetryInv, IdsAreCreated
    <3>2. status' = [status EXCEPT ![k] = "queued"] \/ UNCHANGED status
      BY <2>1 DEF CreateRow
    <3> QED
      BY <3>1, <3>2 DEF Lifecycle!Next, Lifecycle!Submit, Lifecycle!Move, Lifecycle!vars
  <2>2. ASSUME NEW w \in Workers, WorkerStep(w) PROVE Lifecycle!Next \/ UNCHANGED Lifecycle!vars
    BY <2>2, WorkIsLifecycle
  <2>3. ASSUME NEW k \in Jobs, SweepReset(k) PROVE Lifecycle!Next \/ UNCHANGED Lifecycle!vars
    <3>1. UpdateStatus(k, "queued") /\ k \in stuck
      BY <2>3 DEF SweepReset
    <3>2. status[k] \in {"processing", "gone"}
      BY <3>1 DEF HandoffInv, Undisturbed, Calm, Lossless, JobFits, RowFits
    <3> QED
      BY <3>1, <3>2, UpdateIsMove DEF Statuses, Lifecycle!Next, Lifecycle!Again, Lifecycle!vars
  <2>4. ASSUME NEW m \in Merchants, DeleteMerchant(m) PROVE Lifecycle!Next
    <3> DEFINE S == {j \in Jobs : MerchantOf[j] = m}
    <3>1. UNCHANGED retries /\ \A j \in Jobs : status[j] = "gone" => ~HasRow(j)
      BY <2>4 DEF DeleteMerchant, HasRow
    <3>2. status' = [j \in Jobs |-> IF j \in S /\ status[j] # "none" THEN "gone" ELSE status[j]]
      BY <2>4 DEF DeleteMerchant, HasRow
    <3>3. Lifecycle!Forget(S)
      BY <3>1, <3>2 DEF Lifecycle!Forget
    <3> QED
      BY <3>3 DEF Lifecycle!Next
  <2>5. CASE UNCHANGED <<status, retries>>
    BY <2>5 DEF Lifecycle!vars
  <2> QED
    BY <2>1, <2>2, <2>3, <2>4, <2>5 DEF Next, SweepStep, vars, dbVars, BeginDispatch, PushNew,
       Age, SweepList, SweepPush, Crash
<1> QED
  BY <1>1, <1>2, HandoffHolds, RetryHolds, TypeCorrect, PTL DEF Spec, LifecycleSpec, Lifecycle!Spec
=============================================================================
