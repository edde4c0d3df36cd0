------------------------------ MODULE JobQueue ------------------------------
(***************************************************************************)
(* The background job machinery of the backend: jobs are rows of the       *)
(* PostgreSQL table "jobs" and their ids travel through the Redis list     *)
(* "jobs".  Dispatcher.Dispatch inserts the row and pushes the id,         *)
(* Worker.runLoop moves an id to "jobs:processing", runs the job and       *)
(* acknowledges it, and a recovery sweep pushes again the ids of rows that *)
(* stay "processing" for longer than stuckJobAge.                          *)
(*                                                                         *)
(* Every call to PostgreSQL or Redis is a step of its own: requests, the   *)
(* worker goroutines and the sweep interleave between any two of them, and *)
(* the process may die there.  The errors of most of these calls are       *)
(* ignored by the code, so a call may also fail silently.                  *)
(***************************************************************************)
EXTENDS Naturals, Sequences, FiniteSets

CONSTANTS
  Jobs,         \* ids the table may ever hold
  DetectJobs,   \* those whose type is detect_duplicates
  Merchants,
  MerchantOf,   \* the merchant of each job
  Workers,      \* worker goroutines
  NoJob,        \* a value that is not a job
  MaxRetries,   \* maxRetries: failed runs before a job is given up
  MaxCrashes,   \* bound: how often the process dies
  MaxFaults,    \* bound: how many calls fail without an effect
  MaxOverruns,  \* bound: how often a running job outlives stuckJobAge
  MaxQueue      \* bound: the sweep waits while the Redis list is longer

ASSUME JobQueueAssumption ==
  /\ DetectJobs \subseteq Jobs
  /\ MerchantOf \in [Jobs -> Merchants]
  /\ NoJob \notin Jobs
  /\ IsFiniteSet(Workers)
  /\ MaxRetries \in Nat \ {0}
  /\ MaxCrashes \in Nat /\ MaxFaults \in Nat
  /\ MaxOverruns \in Nat /\ MaxQueue \in Nat

VARIABLES
  status,     \* jobs.status; "none": no row yet, "gone": row deleted
  retries,    \* jobs.retries
  old,        \* rows whose updated_at is before now - stuckJobAge
  installed,  \* merchants that have a row
  queue,      \* the Redis list "jobs", oldest id first
  inflight,   \* how often each id is in the Redis list "jobs:processing"
  dispatch,   \* how far the Dispatch call that makes each job has come
  pc,         \* the call each worker makes next
  job,        \* the id each worker holds
  seen,       \* job.Retries as each worker read it
  stuck,      \* rows listed by the running sweep and not handled yet
  requeuing,  \* the row the sweep has reset and is about to push
  crashes, faults, overruns,  \* how much of the bounds is used
  \* History, read by the properties only:
  faulted,    \* jobs that lost a call or the process that carried them
  succ        \* how often Process succeeded for each job

dbVars    == <<status, retries, old, installed>>
redisVars == <<queue, inflight>>
workVars  == <<pc, job, seen>>
sweepVars == <<stuck, requeuing>>
vars == <<dbVars, redisVars, dispatch, workVars, sweepVars,
          crashes, faults, overruns, faulted, succ>>

Statuses      == {"none", "queued", "processing", "completed", "failed", "gone"}
DispatchStage == {"none", "create", "push", "skipped", "done"}
WorkerPC      == {"idle", "find", "mark", "process", "report", "complete",
                  "increment", "settle", "push", "ack"}

HasRow(j)   == status[j] \notin {"none", "gone"}
Terminal(j) == status[j] \in {"completed", "failed"}
InQueue(j)  == \E i \in 1..Len(queue) : queue[i] = j
Holders(j)  == {w \in Workers : pc[w] # "idle" /\ job[w] = j}

\* Whoever owes the queue an id, or took it out and has not yet read the row
\* or moved it on to "processing".
CarriedInMemory(j) ==
  \/ dispatch[j] = "push"
  \/ \E w \in Workers : job[w] = j /\ pc[w] \in {"find", "mark", "push"}
  \/ requeuing = j

-----------------------------------------------------------------------------
\* The calls.

\* A call whose error the caller ignores or only logs.
SilentFault(j) ==
  /\ faults < MaxFaults
  /\ faults' = faults + 1
  /\ faulted' = faulted \cup {j}

NoFault == UNCHANGED <<faults, faulted>>

\* Variant: the UPDATE forgets updated_at.
UpdateStatusKeepingAge(j, s) ==
  /\ UNCHANGED <<retries, installed, old>> /\ NoFault
  /\ status' = IF HasRow(j) THEN [status EXCEPT ![j] = s] ELSE status

\* UpdateStatus: a blind UPDATE; it also refreshes updated_at, and touches
\* nothing when the row is gone.
UpdateStatus(j, s) ==
  /\ UNCHANGED <<retries, installed>>
  /\ \/ /\ status' = IF HasRow(j) THEN [status EXCEPT ![j] = s] ELSE status
        /\ old' = old \ {j}
        /\ NoFault
     \/ /\ SilentFault(j)
        /\ UNCHANGED <<status, old>>

IncrementRetries(j) ==
  /\ UNCHANGED <<status, installed>>
  /\ \/ /\ retries' = IF HasRow(j) THEN [retries EXCEPT ![j] = @ + 1] ELSE retries
        /\ old' = old \ {j}
        /\ NoFault
     \/ /\ SilentFault(j)
        /\ UNCHANGED <<retries, old>>

\* Variant: running jobs count too.
UnfinishedDetect(m) ==
  {j \in DetectJobs : MerchantOf[j] = m /\ status[j] \in {"queued", "processing"}}

\* CountPendingByType counts queued rows only.
PendingDetect(m) ==
  {j \in DetectJobs : MerchantOf[j] = m /\ status[j] = "queued"}

\* Variants: the age of the row is not looked at; the wrong status is listed.
ListAllProcessing == {j \in Jobs : status[j] = "processing"}
ListStuckQueued   == {j \in old : status[j] = "queued"}

ListStuckJobs == {j \in old : status[j] = "processing"}

\* LPUSH; the lists are read from the other end.
Push(j) ==
  \/ queue' = Append(queue, j) /\ NoFault
  \/ SilentFault(j) /\ UNCHANGED queue

-----------------------------------------------------------------------------
\* Dispatcher.Dispatch, called by request handlers, webhooks, the scheduler
\* and by a sync job that ends well.

\* The debounce of detect jobs; when the count itself fails, the dispatch
\* goes on.
BeginDispatch(j) ==
  /\ dispatch[j] = "none"
  /\ \/ /\ j \notin DetectJobs \/ PendingDetect(MerchantOf[j]) = {}
        /\ dispatch' = [dispatch EXCEPT ![j] = "create"]
        /\ NoFault
     \/ /\ j \in DetectJobs /\ PendingDetect(MerchantOf[j]) # {}
        /\ dispatch' = [dispatch EXCEPT ![j] = "skipped"]
        /\ NoFault
     \/ /\ j \in DetectJobs /\ PendingDetect(MerchantOf[j]) # {}
        /\ dispatch' = [dispatch EXCEPT ![j] = "create"]
        /\ SilentFault(j)
  /\ UNCHANGED <<dbVars, redisVars, workVars, sweepVars, crashes, overruns, succ>>

\* The INSERT; it fails when the merchant is gone (foreign key), and the
\* caller is told.
CreateRow(j) ==
  /\ dispatch[j] = "create"
  /\ \/ /\ MerchantOf[j] \in installed
        /\ status' = [status EXCEPT ![j] = "queued"]
        /\ dispatch' = [dispatch EXCEPT ![j] = "push"]
        /\ NoFault
     \/ /\ MerchantOf[j] \notin installed
        /\ dispatch' = [dispatch EXCEPT ![j] = "done"]
        /\ UNCHANGED status /\ NoFault
     \/ /\ MerchantOf[j] \in installed
        /\ SilentFault(j)
        /\ dispatch' = [dispatch EXCEPT ![j] = "done"]
        /\ UNCHANGED status
  /\ UNCHANGED <<retries, old, installed, redisVars, workVars, sweepVars,
                 crashes, overruns, succ>>

\* The push; its error is logged and the caller sees a dispatched job.
PushNew(j) ==
  /\ dispatch[j] = "push"
  /\ Push(j)
  /\ dispatch' = [dispatch EXCEPT ![j] = "done"]
  /\ UNCHANGED <<dbVars, inflight, workVars, sweepVars, crashes, overruns, succ>>

-----------------------------------------------------------------------------
\* Worker.runLoop and Worker.processJob.

Goto(w, p) == pc' = [pc EXCEPT ![w] = p]

\* BRPOPLPUSH: one atomic move from "jobs" to "jobs:processing".
Pop(w) ==
  /\ pc[w] = "idle" /\ queue # <<>>
  /\ job' = [job EXCEPT ![w] = Head(queue)]
  /\ queue' = Tail(queue)
  /\ inflight' = [inflight EXCEPT ![Head(queue)] = @ + 1]
  /\ Goto(w, "find")
  /\ UNCHANGED <<dbVars, dispatch, seen, sweepVars, crashes, overruns, succ>>
  /\ NoFault

\* FindByID; the id is dropped when the row is finished, is gone, or could
\* not be read.
Find(w) ==
  /\ pc[w] = "find"
  /\ \/ /\ HasRow(job[w]) /\ ~Terminal(job[w])
        /\ seen' = [seen EXCEPT ![w] = retries[job[w]]]
        /\ Goto(w, "mark") /\ NoFault
     \/ /\ ~HasRow(job[w]) \/ Terminal(job[w])
        /\ Goto(w, "ack") /\ NoFault
        /\ UNCHANGED seen
     \/ /\ SilentFault(job[w])
        /\ Goto(w, "ack")
        /\ UNCHANGED seen
  /\ UNCHANGED <<dbVars, redisVars, dispatch, job, sweepVars, crashes, overruns, succ>>

Mark(w) ==
  /\ pc[w] = "mark"
  /\ UpdateStatus(job[w], "processing")
  /\ Goto(w, "process")
  /\ UNCHANGED <<redisVars, dispatch, job, seen, sweepVars, crashes, overruns, succ>>

\* Processor.Process returned nil.  A detect job then reports its result
\* itself, before it returns to the worker.
ProcessSucceeds(w) ==
  /\ pc[w] = "process"
  /\ Goto(w, IF job[w] \in DetectJobs THEN "report" ELSE "complete")
  /\ succ' = [succ EXCEPT ![job[w]] = @ + 1]
  /\ UNCHANGED <<dbVars, redisVars, dispatch, job, seen, sweepVars, crashes, overruns>>
  /\ NoFault

ProcessFails(w) ==
  /\ pc[w] = "process"
  /\ Goto(w, "increment")
  /\ UNCHANGED <<dbVars, redisVars, dispatch, job, seen, sweepVars, crashes, overruns, succ>>
  /\ NoFault

\* processDetect stores groups_found with status completed.
Report(w) ==
  /\ pc[w] = "report"
  /\ UpdateStatus(job[w], "completed")
  /\ Goto(w, "complete")
  /\ UNCHANGED <<redisVars, dispatch, job, seen, sweepVars, crashes, overruns, succ>>

\* Variant: an error after Process is taken for a failed run.
CompleteAsFailure(w) ==
  /\ pc[w] = "complete"
  /\ Goto(w, "increment")
  /\ UNCHANGED <<dbVars, redisVars, dispatch, job, seen, sweepVars, crashes, overruns, succ>>
  /\ NoFault

Complete(w) ==
  /\ pc[w] = "complete"
  /\ UpdateStatus(job[w], "completed")
  /\ Goto(w, "ack")
  /\ UNCHANGED <<redisVars, dispatch, job, seen, sweepVars, crashes, overruns, succ>>

Increment(w) ==
  /\ pc[w] = "increment"
  /\ IncrementRetries(job[w])
  /\ Goto(w, "settle")
  /\ UNCHANGED <<redisVars, dispatch, job, seen, sweepVars, crashes, overruns, succ>>

\* Variant: one attempt too few.
LastAttemptEarly(w) == seen[w] + 2 >= MaxRetries

\* The decision uses the retry count read before the run.
LastAttempt(w) == seen[w] + 1 >= MaxRetries

GiveUp(w) ==
  /\ pc[w] = "settle" /\ LastAttempt(w)
  /\ UpdateStatus(job[w], "failed")
  /\ Goto(w, "ack")
  /\ UNCHANGED <<redisVars, dispatch, job, seen, sweepVars, crashes, overruns, succ>>

\* Variant: the id is not pushed again.
RetryWithoutPush(w) ==
  /\ pc[w] = "settle" /\ ~LastAttempt(w)
  /\ UpdateStatus(job[w], "queued")
  /\ Goto(w, "ack")
  /\ UNCHANGED <<redisVars, dispatch, job, seen, sweepVars, crashes, overruns, succ>>

Retry(w) ==
  /\ pc[w] = "settle" /\ ~LastAttempt(w)
  /\ UpdateStatus(job[w], "queued")
  /\ Goto(w, "push")
  /\ UNCHANGED <<redisVars, dispatch, job, seen, sweepVars, crashes, overruns, succ>>

PushRetry(w) ==
  /\ pc[w] = "push"
  /\ Push(job[w])
  /\ Goto(w, "ack")
  /\ UNCHANGED <<dbVars, inflight, dispatch, job, seen, sweepVars, crashes, overruns, succ>>

\* Variant: LREM with count 0.
RemoveAll(j) == inflight' = [inflight EXCEPT ![j] = 0]

\* LREM removes one occurrence of the id.
Remove(j) == inflight' = [inflight EXCEPT ![j] = IF @ = 0 THEN 0 ELSE @ - 1]

Acknowledge(w) ==
  /\ pc[w] = "ack"
  /\ \/ Remove(job[w]) /\ NoFault
     \/ SilentFault(job[w]) /\ UNCHANGED inflight
  /\ Goto(w, "idle")
  /\ job' = [job EXCEPT ![w] = NoJob]
  /\ UNCHANGED <<dbVars, queue, dispatch, seen, sweepVars, crashes, overruns, succ>>

WorkerStep(w) ==
  \/ Pop(w) \/ Find(w) \/ Mark(w)
  \/ ProcessSucceeds(w) \/ Report(w) \/ Complete(w)
  \/ ProcessFails(w) \/ Increment(w) \/ GiveUp(w) \/ Retry(w) \/ PushRetry(w)
  \/ Acknowledge(w)

-----------------------------------------------------------------------------
\* Worker.runRecoverySweep, every recoverySweepInterval.

SweepList ==
  /\ stuck = {} /\ requeuing = NoJob
  /\ ListStuckJobs # {}
  /\ Len(queue) <= MaxQueue
  /\ stuck' = ListStuckJobs
  /\ UNCHANGED <<dbVars, redisVars, dispatch, workVars, requeuing, crashes, overruns, succ>>
  /\ NoFault

SweepReset(j) ==
  /\ j \in stuck /\ requeuing = NoJob
  /\ UpdateStatus(j, "queued")
  /\ stuck' = stuck \ {j}
  /\ requeuing' = j
  /\ UNCHANGED <<redisVars, dispatch, workVars, crashes, overruns, succ>>

\* Variant: pushes an empty id when nothing is to be re-queued.
SweepPushAlways ==
  /\ Push(requeuing)
  /\ requeuing' = NoJob
  /\ UNCHANGED <<dbVars, inflight, dispatch, workVars, stuck, crashes, overruns, succ>>

SweepPush ==
  /\ requeuing # NoJob
  /\ Push(requeuing)
  /\ requeuing' = NoJob
  /\ UNCHANGED <<dbVars, inflight, dispatch, workVars, stuck, crashes, overruns, succ>>

SweepStep == SweepList \/ (\E j \in Jobs : SweepReset(j)) \/ SweepPush

-----------------------------------------------------------------------------
\* The environment.

\* Time: a row stays "processing" for stuckJobAge.  For a row whose worker is
\* alive that means the job really runs that long.
Age(j) ==
  /\ status[j] = "processing" /\ j \notin old
  /\ \/ Holders(j) = {} /\ UNCHANGED overruns
     \/ /\ Holders(j) # {} /\ overruns < MaxOverruns
        /\ overruns' = overruns + 1
  /\ old' = old \cup {j}
  /\ UNCHANGED <<status, retries, installed, redisVars, dispatch, workVars,
                 sweepVars, crashes, succ>>
  /\ NoFault

\* The process dies and starts again: goroutines and their local state are
\* lost, PostgreSQL and Redis keep theirs.  A shutdown by signal does the same:
\* cancelWorker cancels the context all later calls of a worker use, and main
\* does not wait for the workers.  Nothing is read back at start; Queue.Requeue
\* has no caller.
Crash ==
  /\ crashes < MaxCrashes
  /\ crashes' = crashes + 1
  /\ pc' = [w \in Workers |-> "idle"]
  /\ job' = [w \in Workers |-> NoJob]
  /\ dispatch' = [j \in Jobs |->
       IF dispatch[j] \in {"create", "push"} THEN "done" ELSE dispatch[j]]
  /\ stuck' = {} /\ requeuing' = NoJob
  /\ faulted' = faulted \cup
       {j \in Jobs : CarriedInMemory(j) /\ status[j] = "queued" /\ ~InQueue(j)}
  /\ UNCHANGED <<dbVars, redisVars, seen, faults, overruns, succ>>

\* app/uninstalled and shop/redact delete the merchant; its jobs go with it
\* (ON DELETE CASCADE) while their ids stay in Redis.
DeleteMerchant(m) ==
  /\ m \in installed
  /\ installed' = installed \ {m}
  /\ status' = [j \in Jobs |->
       IF MerchantOf[j] = m /\ HasRow(j) THEN "gone" ELSE status[j]]
  /\ old' = {j \in old : MerchantOf[j] # m}
  /\ UNCHANGED <<retries, redisVars, dispatch, workVars, sweepVars, crashes, overruns, succ>>
  /\ NoFault

-----------------------------------------------------------------------------
Init ==
  /\ status = [j \in Jobs |-> "none"]
  /\ retries = [j \in Jobs |-> 0]
  /\ old = {} /\ installed = Merchants
  /\ queue = <<>> /\ inflight = [j \in Jobs |-> 0]
  /\ dispatch = [j \in Jobs |-> "none"]
  /\ pc = [w \in Workers |-> "idle"]
  /\ job = [w \in Workers |-> NoJob]
  /\ seen = [w \in Workers |-> 0]
  /\ stuck = {} /\ requeuing = NoJob
  /\ crashes = 0 /\ faults = 0 /\ overruns = 0
  /\ faulted = {} /\ succ = [j \in Jobs |-> 0]

Next ==
  \/ \E j \in Jobs : BeginDispatch(j) \/ CreateRow(j) \/ PushNew(j) \/ Age(j)
  \/ \E w \in Workers : WorkerStep(w)
  \/ SweepStep
  \/ Crash
  \/ \E m \in Merchants : DeleteMerchant(m)

Spec == Init /\ [][Next]_vars

\* Goroutines that can run do run, the ticker of the sweep fires, and time
\* passes for a row nobody works on.  Users, crashes and overruns owe nothing.
Fairness ==
  /\ \A j \in Jobs : WF_vars(CreateRow(j) \/ PushNew(j))
  /\ \A w \in Workers : WF_vars(WorkerStep(w))
  /\ WF_vars(SweepStep)
  /\ \A j \in Jobs : WF_vars(Holders(j) = {} /\ Age(j))

FairSpec == Spec /\ Fairness

-----------------------------------------------------------------------------
\* Properties.

\* Every variable stays within its type; the Redis list holds job ids only.
TypeOK ==
  /\ status \in [Jobs -> Statuses]
  /\ retries \in [Jobs -> Nat]
  /\ old \subseteq Jobs /\ installed \subseteq Merchants
  /\ queue \in Seq(Jobs)
  /\ inflight \in [Jobs -> Nat]
  /\ dispatch \in [Jobs -> DispatchStage]
  /\ pc \in [Workers -> WorkerPC]
  /\ job \in [Workers -> Jobs \cup {NoJob}]
  /\ \A w \in Workers : pc[w] = "idle" <=> job[w] = NoJob
  /\ seen \in [Workers -> Nat]
  /\ stuck \subseteq Jobs /\ requeuing \in Jobs \cup {NoJob}
  /\ crashes \in Nat /\ faults \in Nat /\ overruns \in Nat
  /\ faulted \subseteq Jobs
  /\ succ \in [Jobs -> Nat]

\* A row that says "queued" is really on its way to a worker: its id is in the
\* Redis list, or somebody still has to push it or to mark the row.  No
\* interleaving of dispatches, workers, retries, duplicates and sweeps strands
\* a job; only a lost call or a crash does (Dispatch, processJob, the sweep).
QueuedIsCarried ==
  \A j \in Jobs : status[j] = "queued" /\ j \notin faulted =>
    InQueue(j) \/ CarriedInMemory(j)

\* No job is given up early: a failed row has used all its attempts, although
\* the decision relies on a retry count read before the run and two workers
\* may have run the job at once (worker.processJob).
FailedIsExhausted ==
  \A j \in Jobs : status[j] = "failed" /\ j \notin faulted =>
    retries[j] >= MaxRetries

\* jobs:processing lists every id a worker holds, as often as it is held: the
\* LREM of one worker never removes the entry of another that holds the same
\* id (retry popped before the acknowledgement, duplicates of the sweep).
\* Without crashes and lost calls it lists nothing else.
InFlightMatchesHolders ==
  \A j \in Jobs :
    /\ Cardinality(Holders(j)) <= inflight[j]
    /\ crashes = 0 /\ j \notin faulted => inflight[j] = Cardinality(Holders(j))

\* A job runs on one worker at a time, crashes and sweeps included, as long as
\* it ends within stuckJobAge: nothing else in worker.go keeps two goroutines
\* from the same job.
OneRunner ==
  \A j \in Jobs : overruns = 0 /\ j \notin faulted =>
    Cardinality({w \in Holders(j) : pc[w] # "ack"}) <= 1

\* Under the same condition the effects of a job happen once, and once more
\* for each crash at most (at-least-once delivery, queue.Pop).
SuccessPaidByCrash ==
  \A j \in Jobs : overruns = 0 /\ j \notin faulted => succ[j] <= 1 + crashes

\* Under the same condition a job that GET /jobs/:id reported as finished
\* never becomes pending again (blind UpdateStatus calls).
FinishedIsFinal ==
  [][\A j \in Jobs : overruns' = 0 /\ j \notin faulted' /\ Terminal(j) =>
       status'[j] \in {status[j], "gone"}]_vars

\* A queued job is eventually finished, whatever crashes, retries and sweeps
\* do, unless it is one that lost the call or the process that carried it.
EventuallyFinished ==
  \A j \in Jobs :
    status[j] = "queued" ~> (Terminal(j) \/ status[j] = "gone" \/ j \in faulted)

\* A row found "processing" is eventually finished or handed out again, also
\* after a crash: the recovery sweep sees to it.
ProcessingIsRecovered ==
  \A j \in Jobs : status[j] = "processing" ~> (status[j] # "processing")

-----------------------------------------------------------------------------
\* The lifecycle a poller of GET /jobs/:id sees, over the rows of the table:
\* as long as no call is lost and no job outlives stuckJobAge, workers, sweeps
\* and crashes together keep what JobLifecycle promises.
Lifecycle     == INSTANCE JobLifecycle WITH state <- status, attempts <- retries
LifecycleSpec == Lifecycle!Spec
=============================================================================
