-------------------------- MODULE ScanTriggersProofs --------------------------
(***************************************************************************)
(* Theorems about ScanTriggers, for any jobs, workers, shops and groups and *)
(* any bounds.  What JobQueueProofs proves of the jobs holds here too, for   *)
(* every step is one of JobQueue or leaves its variables alone.             *)
(***************************************************************************)
EXTENDS ScanTriggers, JobQueueProofs

\* Every behaviour is one of JobQueue (Worker, Dispatcher, the sweep).
THEOREM ScansAreJobs == ScanSpec => Spec
<1>1. ScanInit => Init
  BY DEF ScanInit
<1>2. [ScanNext]_scanVars => [Next]_vars
  <2>1. ASSUME NEW j \in Jobs, Ask(j) PROVE Next
    BY <2>1 DEF Ask, Next
  <2>2. ASSUME NEW w \in Workers, JobStep(w) PROVE Next
    BY <2>2 DEF JobStep, Next
  <2>3. ASSUME NEW w \in Workers, DetectStep(w) PROVE UNCHANGED vars
    BY <2>3 DEF DetectStep, Load, Clear, Create, Notify, Announce
  <2>4. CASE Elsewhere
    BY <2>4 DEF Elsewhere, Next
  <2>5. CASE GroupsAge \/ \E g \in Groups : Close(g)
    BY <2>5 DEF GroupsAge, Close
  <2>6. CASE ScanCrash
    BY <2>6 DEF ScanCrash, Next
  <2>7. ASSUME NEW m \in Merchants, ScanUninstall(m) PROVE Next
    BY <2>7 DEF ScanUninstall, Next
  <2>8. CASE UNCHANGED scanVars
    BY <2>8 DEF scanVars
  <2> QED
    BY <2>1, <2>2, <2>3, <2>4, <2>5, <2>6, <2>7, <2>8 DEF ScanNext
<1> QED
  BY <1>1, <1>2, PTL DEF ScanSpec, Spec

-----------------------------------------------------------------------------
\* Types, and where a detection stands while its worker makes each call.

\* Only detect jobs have a detection; their result is stored after it, and they
\* are acknowledged after it or without one.
StagesFit ==
  \A w \in Workers :
    /\ ~Detects(w) => work[w] = Fresh
    /\ Detects(w) /\ pc[w] \in {"report", "complete"} =>
         work[w].at \in {"done", "announce", "told"}
    /\ Detects(w) /\ pc[w] = "ack" => work[w].at \in {"load", "told"}

ScanTyped == ScanTypeOK /\ StagesFit

\* The part of ScanTyped about one worker.
WorkerFits(w) ==
  /\ work[w].at # "load" => pc[w] \in {"process", "report", "complete", "ack"}
  /\ work[w].found # {} => Detects(w) /\ work[w].found \subseteq OfShop(Shop(w))
  /\ ~Detects(w) => work[w] = Fresh
  /\ Detects(w) /\ pc[w] \in {"report", "complete"} =>
       work[w].at \in {"done", "announce", "told"}
  /\ Detects(w) /\ pc[w] = "ack" => work[w].at \in {"load", "told"}

GroupsFit ==
  /\ pending \subseteq Groups /\ recent \subseteq pending /\ due \subseteq recent
  /\ unseen \subseteq DetectJobs

LEMMA TypedParts ==
  LET Parts == /\ work \in [Workers -> [at : Stages, found : SUBSET Groups]]
               /\ GroupsFit
               /\ \A w \in Workers : WorkerFits(w)
  IN  (ScanTyped <=> Parts) /\ (ScanTyped' <=> Parts')
BY DEF ScanTyped, ScanTypeOK, StagesFit, GroupsFit, WorkerFits

\* What a step of one worker does to the others, and to itself.
LEMMA OneWorkerSteps ==
  ASSUME TypeOK, NEW w \in Workers, WorkerStep(w)
  PROVE  /\ \A v \in Workers \ {w} : pc'[v] = pc[v] /\ job'[v] = job[v]
         /\ UNCHANGED <<dispatch, installed, overruns, crashes, sweepVars>>
         /\ \/ /\ pc[w] = "idle" /\ pc'[w] = "find"
               /\ queue # <<>> /\ job'[w] = Head(queue) /\ UNCHANGED status
            \/ /\ pc[w] = "ack" /\ pc'[w] = "idle" /\ job'[w] = NoJob /\ UNCHANGED status
            \/ /\ job'[w] = job[w]
               /\ \/ pc[w] = "find" /\ pc'[w] \in {"mark", "ack"} /\ UNCHANGED status
                  \/ pc[w] = "mark" /\ pc'[w] = "process" /\ UpdateStatus(job[w], "processing")
                  \/ pc[w] = "process" /\ pc'[w] = "increment" /\ UNCHANGED status
                  \/ pc[w] = "process" /\ pc'[w] \in {"report", "complete"} /\ UNCHANGED status
                       /\ (job[w] \in DetectJobs <=> pc'[w] = "report")
                  \/ pc[w] = "report" /\ pc'[w] = "complete" /\ UpdateStatus(job[w], "completed")
                  \/ pc[w] = "complete" /\ pc'[w] = "ack" /\ UpdateStatus(job[w], "completed")
                  \/ pc[w] = "increment" /\ pc'[w] = "settle" /\ UNCHANGED status
                  \/ pc[w] = "settle" /\ pc'[w] = "ack" /\ UpdateStatus(job[w], "failed")
                  \/ pc[w] = "settle" /\ pc'[w] = "push" /\ UpdateStatus(job[w], "queued")
                  \/ pc[w] = "push" /\ pc'[w] = "ack" /\ UNCHANGED status
<1> USE DEF TypeOK, Goto
<1>1. CASE Pop(w)
  BY <1>1 DEF Pop, dbVars, NoFault
<1>2. CASE Acknowledge(w)
  BY <1>2 DEF Acknowledge, dbVars
<1>3. CASE Find(w)
  BY <1>3 DEF Find, dbVars
<1>4. CASE Mark(w)
  BY <1>4 DEF Mark, UpdateStatus
<1>5. CASE ProcessFails(w)
  BY <1>5 DEF ProcessFails, dbVars
<1>6. CASE ProcessSucceeds(w)
  BY <1>6 DEF ProcessSucceeds, dbVars
<1>7. CASE Report(w)
  BY <1>7 DEF Report, UpdateStatus
<1>8. CASE Complete(w)
  BY <1>8 DEF Complete, UpdateStatus
<1>9. CASE Increment(w)
  BY <1>9 DEF Increment, IncrementRetries
<1>10. CASE GiveUp(w)
  BY <1>10 DEF GiveUp, UpdateStatus
<1>11. CASE Retry(w)
  BY <1>11 DEF Retry, UpdateStatus
<1>12. CASE PushRetry(w)
  BY <1>12 DEF PushRetry, dbVars
<1> QED
  BY <1>1, <1>2, <1>3, <1>4, <1>5, <1>6, <1>7, <1>8, <1>9, <1>10, <1>11, <1>12
     DEF WorkerStep

\* A step that moves no worker on.
LEMMA TypedAside ==
  ASSUME ScanTyped, UNCHANGED <<pc, job, work>>, GroupsFit'
  PROVE  ScanTyped'
<1>1. \A w \in Workers : WorkerFits(w)'
  BY TypedParts DEF WorkerFits, Detects, Shop, OfShop
<1> QED
  BY <1>1, TypedParts

\* A worker whose job is no detection, or that has none, has nothing under way.
LEMMA JobStepTyped ==
  ASSUME TypeOK, ScanTyped, NEW w \in Workers, JobStep(w)
  PROVE  ScanTyped'
<1>1. /\ work \in [Workers -> [at : Stages, found : SUBSET Groups]] /\ GroupsFit
      /\ \A v \in Workers : WorkerFits(v)
  BY TypedParts
<1>2. Fresh \in [at : Stages, found : SUBSET Groups]
  BY DEF Fresh, Stages
<1>3. /\ work' = IF pc'[w] = "idle" THEN [work EXCEPT ![w] = Fresh] ELSE work
      /\ UNCHANGED <<pending, recent, due, unseen>>
  BY DEF JobStep, groupVars
<1>4. work' \in [Workers -> [at : Stages, found : SUBSET Groups]]
  BY <1>1, <1>2, <1>3
<1>5. GroupsFit'
  BY <1>1, <1>3 DEF GroupsFit
<1>6. ASSUME NEW v \in Workers, v # w PROVE WorkerFits(v)'
  <2>1. work'[v] = work[v] /\ pc'[v] = pc[v] /\ job'[v] = job[v]
    BY <1>1, <1>3, <1>6, OneWorkerSteps DEF JobStep
  <2> QED
    BY <1>1, <2>1 DEF WorkerFits, Detects, Shop, OfShop
<1>7. WorkerFits(w)'
  <2>1. WorkerFits(w) /\ NoJob \notin DetectJobs
    BY <1>1, JobQueueAssumption DEF JobQueueAssumption
  <2>2. CASE pc'[w] = "idle"
    <3>1. work'[w] = Fresh
      BY <1>1, <1>3, <2>2
    <3> QED
      BY <2>2, <3>1 DEF WorkerFits, Fresh
  <2>3. CASE pc'[w] # "idle"
    <3>1. work'[w] = work[w]
      BY <1>3, <2>3
    <3>2. CASE pc[w] = "idle" /\ pc'[w] = "find"
      <4>1. ~Detects(w)
        BY <2>1, <3>2 DEF TypeOK, Detects
      <4>2. work'[w] = Fresh
        BY <2>1, <3>1, <4>1 DEF WorkerFits
      <4> QED
        BY <3>2, <4>2 DEF WorkerFits, Fresh
    <3>3. CASE pc[w] # "idle"
      <4>1. job'[w] = job[w]
        BY <2>3, <3>3, OneWorkerSteps DEF JobStep
      <4>2. /\ (Detects(w)' <=> Detects(w))
            /\ Shop(w)' = Shop(w)
        BY <4>1 DEF Detects, Shop
      <4>3. Detects(w) => /\ pc'[w] = "increment" => work[w].at = "load"
                          /\ pc'[w] = "report" => work[w].at = "done"
                          /\ pc[w] = "complete" => work[w].at = "told"
        BY DEF JobStep, MayFail
      <4>4. work'[w].at # "load" => pc'[w] \in {"process", "report", "complete", "ack"}
        <5>1. CASE ~Detects(w)
          BY <2>1, <3>1, <5>1 DEF WorkerFits, Fresh
        <5>2. CASE Detects(w)
          BY <2>1, <2>3, <3>1, <3>3, <4>3, <5>2, OneWorkerSteps DEF WorkerFits, JobStep
        <5> QED
          BY <5>1, <5>2
      <4>5. Detects(w) /\ pc'[w] \in {"report", "complete"} =>
              work'[w].at \in {"done", "announce", "told"}
        BY <2>1, <2>3, <3>1, <3>3, <4>3, OneWorkerSteps DEF WorkerFits, Detects, JobStep
      <4>6. Detects(w) /\ pc'[w] = "ack" => work'[w].at \in {"load", "told"}
        BY <2>1, <2>3, <3>1, <3>3, <4>3, OneWorkerSteps DEF WorkerFits, Detects, JobStep
      <4> QED
        BY <2>1, <3>1, <4>2, <4>4, <4>5, <4>6 DEF WorkerFits, OfShop
    <3> QED
      BY <2>3, <3>2, <3>3, OneWorkerSteps DEF JobStep
  <2> QED
    BY <2>2, <2>3
<1> QED
  BY <1>4, <1>5, <1>6, <1>7, TypedParts

\* Within a detection.
LEMMA DetectStepTyped ==
  ASSUME TypeOK, ScanTyped, NEW w \in Workers, DetectStep(w)
  PROVE  ScanTyped'
<1>1. /\ work \in [Workers -> [at : Stages, found : SUBSET Groups]] /\ GroupsFit
      /\ \A v \in Workers : WorkerFits(v)
  BY TypedParts
<1>2. UNCHANGED <<pc, job>>
  BY DEF DetectStep, Load, Clear, Create, Notify, Announce, vars, workVars
\* The worker is where the next stage belongs, and finds groups of its shop.
<1>3. ASSUME NEW x \in [at : Stages, found : SUBSET Groups], work' = [work EXCEPT ![w] = x],
             Detects(w), pc[w] \in {"process", "complete"},
             pc[w] = "complete" => x.at \in {"done", "announce", "told"},
             x.found \subseteq OfShop(Shop(w)), GroupsFit'
      PROVE  ScanTyped'
  <2>1. work' \in [Workers -> [at : Stages, found : SUBSET Groups]]
    BY <1>1, <1>3
  <2>2. ASSUME NEW v \in Workers, v # w PROVE WorkerFits(v)'
    BY <1>1, <1>2, <1>3, <2>2 DEF WorkerFits, Detects, Shop, OfShop
  <2>3. WorkerFits(w)'
    BY <1>1, <1>2, <1>3 DEF WorkerFits, Detects, Shop, OfShop
  <2> QED
    BY <1>3, <2>1, <2>2, <2>3, TypedParts
<1>f. work[w] \in [at : Stages, found : SUBSET Groups]
  BY <1>1
<1>s. Detects(w) => work[w].found \subseteq OfShop(Shop(w))
  BY <1>1 DEF WorkerFits
\* The next stage alone.
<1>4. ASSUME NEW p \in Stages, Reach(w, p), Detects(w), pc[w] \in {"process", "complete"},
             pc[w] = "complete" => p \in {"done", "announce", "told"}, GroupsFit'
      PROVE  ScanTyped'
  <2>0. PICK found : found = work[w].found
    OBVIOUS
  <2> DEFINE x == [at |-> p, found |-> found]
  <2>1. x \in [at : Stages, found : SUBSET Groups]
    BY <1>f, <1>4, <2>0
  <2>2. work' = [work EXCEPT ![w] = x]
    <3>1. [work[w] EXCEPT !.at = p] = x
      BY <1>f, <1>4, <2>0
    <3> QED
      BY <1>4, <3>1 DEF Reach
  <2> QED
    BY <1>3, <1>4, <1>s, <2>0, <2>1, <2>2
<1>5. CASE Load(w)
  <2>1. GroupsFit'
    BY <1>1, <1>5 DEF Load, groupVars, GroupsFit
  <2>2. Detects(w) /\ pc[w] = "process"
    BY <1>5 DEF Load, At
  <2>3. CASE Reach(w, "done")
    BY <1>4, <2>1, <2>2, <2>3 DEF Stages
  <2>4. ASSUME NEW found \in SUBSET OfShop(Shop(w)),
               work' = [work EXCEPT ![w] = [at |-> "clear", found |-> found]]
        PROVE  ScanTyped'
    <3>1. [at |-> "clear", found |-> found] \in [at : Stages, found : SUBSET Groups]
      BY DEF Stages, OfShop
    <3> QED
      BY <1>3, <2>1, <2>2, <2>4, <3>1
  <2> QED
    BY <1>5, <2>3, <2>4 DEF Load
<1>6. CASE Clear(w)
  <2>1. GroupsFit'
    BY <1>1, <1>6 DEF Clear, Drop, groupVars, GroupsFit
  <2> QED
    BY <1>4, <1>6, <2>1 DEF Clear, At, Stages
<1>7. CASE Create(w)
  <2>1. Detects(w) /\ pc[w] = "process" /\ work[w].at = "create"
    BY <1>7 DEF Create, At
  <2>2. CASE Reach(w, "done") /\ UNCHANGED groupVars
    <3>1. GroupsFit'
      BY <1>1, <1>7, <2>2 DEF Create, groupVars, GroupsFit
    <3> QED
      BY <1>4, <2>1, <2>2, <3>1 DEF Stages
  <2>3. ASSUME NEW g \in work[w].found, work' = [work EXCEPT ![w].found = @ \ {g}],
               \/ pending' = pending \cup {g} /\ recent' = recent \cup {g} /\ due' = due \cup {g}
               \/ UNCHANGED groupVars
        PROVE  ScanTyped'
    <3>0. PICK found : found = work[w].found \ {g}
      OBVIOUS
    <3> DEFINE x == [at |-> "create", found |-> found]
    <3>1. x \in [at : Stages, found : SUBSET Groups]
      BY <1>f, <3>0 DEF Stages
    <3>2. work' = [work EXCEPT ![w] = x]
      <4>1. [work[w] EXCEPT !.found = @ \ {g}] = x
        BY <1>f, <2>1, <3>0
      <4> QED
        BY <2>3, <4>1
    <3>3. GroupsFit'
      BY <1>1, <1>7, <1>f, <2>3 DEF Create, groupVars, GroupsFit
    <3>4. x.found \subseteq OfShop(Shop(w))
      BY <1>s, <2>1, <3>0
    <3> QED
      BY <1>3, <2>1, <3>1, <3>2, <3>3, <3>4
  <2> QED
    BY <1>7, <2>2, <2>3 DEF Create
<1>8. CASE Notify(w)
  <2>1. GroupsFit'
    BY <1>1, <1>8 DEF Notify, Excuse, GroupsFit
  <2> QED
    BY <1>4, <1>8, <2>1 DEF Notify, At, Stages
<1>9. CASE Announce(w)
  <2>1. GroupsFit'
    BY <1>1, <1>9 DEF Announce, Excuse, GroupsFit
  <2> QED
    BY <1>4, <1>9, <2>1 DEF Announce, At, Stages
<1> QED
  BY <1>5, <1>6, <1>7, <1>8, <1>9 DEF DetectStep

LEMMA ScanTyping == ScanSpec => []ScanTyped
<1>1. ScanInit => ScanTyped
  <2> SUFFICES ASSUME ScanInit PROVE ScanTyped
    OBVIOUS
  <2>1. Fresh \in [at : Stages, found : SUBSET Groups]
    BY DEF Fresh, Stages
  <2>2. work = [w \in Workers |-> Fresh] /\ GroupsFit
    BY DEF ScanInit, GroupsFit
  <2>3. \A w \in Workers : ~Detects(w)
    BY JobQueueAssumption DEF JobQueueAssumption, ScanInit, Init, Detects
  <2>4. \A w \in Workers : WorkerFits(w)
    BY <2>2, <2>3 DEF WorkerFits, Fresh
  <2> QED
    BY <2>1, <2>2, <2>4, TypedParts
<1>2. TypeOK /\ ScanTyped /\ [ScanNext]_scanVars => ScanTyped'
  <2> SUFFICES ASSUME TypeOK, ScanTyped, [ScanNext]_scanVars PROVE ScanTyped'
    OBVIOUS
  <2>0. GroupsFit
    BY TypedParts
  <2>1. ASSUME NEW j \in Jobs, Ask(j) PROVE ScanTyped'
    <3>1. UNCHANGED <<pc, job, work, pending, recent, due>>
      BY <2>1 DEF Ask, BeginDispatch, workVars, groupVars
    <3>2. unseen' \subseteq DetectJobs
      BY <2>0, <2>1 DEF Ask, PendingDetect, GroupsFit
    <3> QED
      BY <2>0, <3>1, <3>2, TypedAside DEF GroupsFit
  <2>2. ASSUME NEW w \in Workers, JobStep(w) \/ DetectStep(w) PROVE ScanTyped'
    BY <2>2, JobStepTyped, DetectStepTyped
  <2>3. CASE Elsewhere
    <3>1. UNCHANGED <<pc, job, work, pending, recent, due, unseen>>
      BY <2>3 DEF Elsewhere, SweepStep, SweepList, SweepReset, SweepPush, CreateRow, PushNew,
         Age, workVars, groupVars
    <3> QED
      BY <2>0, <3>1, TypedAside DEF GroupsFit
  <2>4. CASE GroupsAge \/ \E g \in Groups : Close(g)
    <3>1. UNCHANGED <<pc, job, work>> /\ GroupsFit'
      BY <2>0, <2>4 DEF GroupsAge, Close, Drop, Excuse, vars, workVars, GroupsFit
    <3> QED
      BY <3>1, TypedAside
  <2>5. CASE ScanCrash
    <3>1. Fresh \in [at : Stages, found : SUBSET Groups]
      BY DEF Fresh, Stages
    <3>2. work' = [w \in Workers |-> Fresh] /\ GroupsFit'
      BY <2>0, <2>5 DEF ScanCrash, Excuse, GroupsFit
    <3>3. \A w \in Workers : pc'[w] = "idle"
      BY <2>5 DEF ScanCrash, Crash
    <3>4. \A w \in Workers : WorkerFits(w)'
      BY <3>2, <3>3 DEF WorkerFits, Fresh
    <3> QED
      BY <3>1, <3>2, <3>4, TypedParts
  <2>6. ASSUME NEW m \in Merchants, ScanUninstall(m) PROVE ScanTyped'
    <3>1. UNCHANGED <<pc, job, work>> /\ GroupsFit'
      BY <2>0, <2>6 DEF ScanUninstall, DeleteMerchant, Drop, workVars, GroupsFit
    <3> QED
      BY <3>1, TypedAside
  <2>7. CASE UNCHANGED scanVars
    BY <2>0, <2>7, TypedAside DEF scanVars, vars, workVars, groupVars, GroupsFit
  <2> QED
    BY <2>1, <2>2, <2>3, <2>4, <2>5, <2>6, <2>7 DEF ScanNext
<1> QED
  BY <1>1, <1>2, ScansAreJobs, TypeCorrect, PTL DEF ScanSpec

\* Every reachable state is well typed, and a job that is tried again has
\* written no group (RunDetection, processDetect).
THEOREM ScanTypeCorrect == ScanSpec => []ScanTypeOK
BY ScanTyping, PTL DEF ScanTyped

-----------------------------------------------------------------------------
\* No change is lost to the debounce.

\* The jobs whose row is gone are those whose shop is.
GoneInv == \A j \in Jobs : status[j] = "gone" => MerchantOf[j] \notin installed

LEMMA GoneHolds == Spec => []GoneInv
<1>1. Init => GoneInv
  BY DEF Init, GoneInv
<1>2. TypeOK /\ GoneInv /\ [Next]_vars => GoneInv'
  <2> SUFFICES ASSUME TypeOK, GoneInv, [Next]_vars, NEW j \in Jobs, status'[j] = "gone"
               PROVE  MerchantOf[j] \notin installed'
    BY DEF GoneInv
  <2> status \in [Jobs -> Statuses]
    BY DEF TypeOK
  <2>0. status[j] = "gone" => MerchantOf[j] \notin installed
    BY DEF GoneInv
  <2>1. ASSUME NEW k, NEW s, s # "gone", UpdateStatus(k, s)
        PROVE  MerchantOf[j] \notin installed'
    BY <2>0, <2>1 DEF UpdateStatus, HasRow
  <2>2. ASSUME NEW k \in Jobs, CreateRow(k) PROVE MerchantOf[j] \notin installed'
    BY <2>0, <2>2 DEF CreateRow
  <2>3. ASSUME NEW m \in Merchants, DeleteMerchant(m) PROVE MerchantOf[j] \notin installed'
    BY <2>0, <2>3 DEF DeleteMerchant
  <2>4. CASE UNCHANGED <<status, installed>>
    BY <2>0, <2>4
  <2> QED
    BY <2>1, <2>2, <2>3, <2>4 DEF Next, WorkerStep, SweepStep, vars, dbVars, BeginDispatch,
       PushNew, Age, Pop, Find, Mark, ProcessSucceeds, Report, Complete, ProcessFails, Increment,
       IncrementRetries, GiveUp, Retry, PushRetry, Acknowledge, SweepList, SweepReset, SweepPush,
       Crash
<1> QED
  BY <1>1, <1>2, TypeCorrect, PTL DEF Spec

\* The load a change waits for is still to come, or the job ended without it.
Awaited(j) ==
  \/ dispatch[j] = "create"
  \/ status[j] \in {"queued", "failed", "gone"}
  \/ status[j] = "processing" /\ \A w \in Workers : Runs(w, j) => work[w].at = "load"
  \/ MerchantOf[j] \notin installed

UnseenInv == \A j \in unseen : Calm(j) => Awaited(j)

\* A step that leaves the row and the runner of a job alone.
LEMMA StillAwaited ==
  ASSUME NEW j \in Jobs, Awaited(j), status'[j] = status[j],
         dispatch[j] = "create" => dispatch'[j] = "create" \/ status'[j] = "queued",
         installed' \subseteq installed,
         \A w \in Workers : Runs(w, j)' /\ status[j] = "processing" =>
           Runs(w, j) /\ work'[w].at = work[w].at
  PROVE  Awaited(j)'
BY DEF Awaited

\* What a worker does to the job it runs: only the end of a detection that has
\* loaded takes the job out of reach.
LEMMA JobStepAwaited ==
  ASSUME TypeOK, ScanTyped, NEW j \in DetectJobs, Calm(j)', JobFits(j), Awaited(j),
         NEW w \in Workers, JobStep(w)
  PROVE  Awaited(j)'
<1> j \in Jobs
  BY JobQueueAssumption DEF JobQueueAssumption
<1>1. /\ WorkerStep(w) /\ Lossless(j)'
      /\ UNCHANGED <<dispatch, installed>>
      /\ \A v \in Workers \ {w} : pc'[v] = pc[v] /\ job'[v] = job[v]
  BY OneWorkerSteps DEF JobStep, Calm
<1>2. /\ \A v \in Workers \ {w} : work'[v] = work[v] /\ (Runs(v, j)' <=> Runs(v, j))
      /\ pc'[w] # "idle" => work'[w] = work[w]
  BY <1>1, TypedParts DEF JobStep, Runs
<1>3. CASE pc[w] = "idle"
  <2>1. pc'[w] = "find" /\ UNCHANGED status /\ queue # <<>> /\ job'[w] = Head(queue)
    BY <1>1, <1>3, OneWorkerSteps
  <2>2. CASE Head(queue) = j
    <3>1. status[j] \in {"queued", "gone"}
      BY <2>1, <2>2, HeadInQueue DEF JobFits, RowFits
    <3> QED
      BY <2>1, <3>1 DEF Awaited
  <2>3. CASE Head(queue) # j
    <3>1. ~Runs(w, j)'
      BY <2>1, <2>3 DEF Runs
    <3> QED
      BY <1>1, <1>2, <2>1, <3>1, StillAwaited
  <2> QED
    BY <2>2, <2>3
<1>4. CASE pc[w] = "ack"
  <2>1. pc'[w] = "idle" /\ UNCHANGED status
    BY <1>1, <1>4, OneWorkerSteps
  <2>2. ~Runs(w, j)'
    BY <2>1 DEF Runs
  <2> QED
    BY <1>1, <1>2, <2>1, <2>2, StillAwaited
<1>5. CASE pc[w] \notin {"idle", "ack"} /\ job[w] # j
  <2>1. job'[w] = job[w] /\ pc'[w] # "idle" /\ job[w] \in Jobs
    BY <1>1, <1>5, OneWorkerSteps DEF TypeOK
  <2>2. status'[j] = status[j]
    BY <1>1, <1>5, <2>1, OneWorkerSteps, UpdateOf
  <2>3. ~Runs(w, j)'
    BY <1>5, <2>1 DEF Runs
  <2> QED
    BY <1>1, <1>2, <2>2, <2>3, StillAwaited
<1>6. CASE pc[w] \notin {"idle", "ack"} /\ job[w] = j
  <2>1. job'[w] = j /\ pc'[w] # "idle" /\ Runs(w, j)
    BY <1>1, <1>6, OneWorkerSteps DEF Runs
  <2>2. /\ Fits(pc[w], status[j]) /\ dispatch[j] = "done"
        /\ \A v \in Workers : Runs(v, j) => v = w
    BY <2>1, RunnerFacts
  <2>3. \A v \in Workers : Runs(v, j)' => v = w
    BY <1>2, <2>2
  <2>4. CASE UNCHANGED status
    BY <1>1, <1>2, <2>1, <2>3, <2>4, StillAwaited
  <2>5. CASE pc[w] = "mark" /\ UpdateStatus(j, "processing")
    <3>1. status[j] \in {"queued", "gone"} /\ work[w].at = "load"
      BY <2>2, <2>5, TypedParts DEF Fits, WorkerFits
    <3>2. status'[j] \in {"processing", "gone"}
      BY <1>1, <2>5, <3>1, UpdateOf DEF HasRow
    <3> QED
      BY <1>2, <2>1, <2>3, <3>1, <3>2 DEF Awaited
  <2>6. CASE pc[w] \in {"report", "complete"} /\ UpdateStatus(j, "completed")
    <3>1. work[w].at # "load"
      BY <1>6, <2>6, TypedParts DEF WorkerFits, Detects
    <3>2. status[j] = "gone" \/ MerchantOf[j] \notin installed
      BY <2>1, <2>2, <2>6, <3>1 DEF Fits, Awaited
    <3>3. status[j] = "gone" => status'[j] = "gone"
      BY <1>1, <2>6, UpdateOf DEF HasRow
    <3> QED
      BY <1>1, <3>2, <3>3 DEF Awaited
  <2>7. ASSUME NEW s \in {"failed", "queued"}, pc[w] = "settle", UpdateStatus(j, s)
        PROVE  Awaited(j)'
    <3>1. status[j] \in {"processing", "gone"}
      BY <2>2, <2>7 DEF Fits
    <3>2. status'[j] \in {"failed", "queued", "gone"}
      BY <1>1, <2>7, <3>1, UpdateOf DEF HasRow
    <3> QED
      BY <3>2 DEF Awaited
  <2> QED
    BY <1>1, <1>6, <2>4, <2>5, <2>6, <2>7, OneWorkerSteps
<1> QED
  BY <1>3, <1>4, <1>5, <1>6

\* A detection that loads has the changes of its shop; afterwards its job is no
\* longer one a change waits for.
LEMMA DetectStepAwaited ==
  ASSUME TypeOK, ScanTyped, NEW j \in DetectJobs, j \in unseen', Awaited(j),
         NEW w \in Workers, DetectStep(w)
  PROVE  Awaited(j)'
<1> j \in Jobs
  BY JobQueueAssumption DEF JobQueueAssumption
<1>1. /\ UNCHANGED <<status, dispatch, installed, pc, job>>
      /\ \A v \in Workers \ {w} : work'[v] = work[v]
  <2>1. work \in [Workers -> [at : Stages, found : SUBSET Groups]]
    BY TypedParts
  <2>2. UNCHANGED vars
    BY DEF DetectStep, Load, Clear, Create, Notify, Announce
  <2> QED
    BY <2>1, <2>2 DEF DetectStep, Load, Clear, Create, Notify, Announce, Reach, vars, dbVars, workVars
<1>2. \A v \in Workers : Runs(v, j)' <=> Runs(v, j)
  BY <1>1 DEF Runs
<1>3. CASE job[w] # j
  <2>1. ~Runs(w, j)
    BY <1>3 DEF Runs
  <2> QED
    BY <1>1, <1>2, <2>1, StillAwaited
<1>4. CASE job[w] = j
  <2>1. ~Load(w)
    BY <1>4 DEF Load, Shop
  <2>2. Runs(w, j) /\ work[w].at # "load"
    BY <1>4, <2>1 DEF DetectStep, Clear, Create, Notify, Announce, At, Runs
  <2> QED
    BY <1>1, <2>2 DEF Awaited
<1> QED
  BY <1>3, <1>4

LEMMA UnseenHolds == ScanSpec => []UnseenInv
<1>1. ScanInit => UnseenInv
  BY DEF ScanInit, UnseenInv
<1>2. /\ TypeOK /\ HandoffInv /\ IdsAreCreated /\ ScanTyped /\ ScanTyped' /\ UnseenInv
      /\ [ScanNext]_scanVars /\ [Next]_vars
      => UnseenInv'
  <2> SUFFICES ASSUME TypeOK, HandoffInv, IdsAreCreated, ScanTyped, ScanTyped', UnseenInv,
                      [ScanNext]_scanVars, [Next]_vars,
                      NEW j \in unseen', Calm(j)'
               PROVE  Awaited(j)'
    BY DEF UnseenInv
  <2>0. /\ j \in DetectJobs /\ j \in Jobs /\ Lossless(j)'
        /\ NoJob # j
    BY TypedParts, JobQueueAssumption DEF JobQueueAssumption, GroupsFit, Calm
  <2>f. Calm(j) /\ JobFits(j)
    BY <2>0, CalmBefore DEF HandoffInv
  <2>a. j \in unseen => Awaited(j)
    BY <2>f DEF UnseenInv
  \* A step of the rest.
  <2>s. ASSUME j \in unseen, status'[j] = status[j], installed' \subseteq installed,
               dispatch[j] = "create" => dispatch'[j] = "create" \/ status'[j] = "queued",
               UNCHANGED <<pc, job, work>>
        PROVE  Awaited(j)'
    BY <2>0, <2>a, <2>s, StillAwaited DEF Runs
  <2>1. ASSUME NEW k \in Jobs, Ask(k) PROVE Awaited(j)'
    <3>1. /\ UNCHANGED <<status, installed, pc, job, work>> /\ dispatch[k] = "none"
          /\ \/ dispatch' = [dispatch EXCEPT ![k] = "create"]
             \/ dispatch' = [dispatch EXCEPT ![k] = "skipped"]
      BY <2>1 DEF Ask, BeginDispatch, dbVars, workVars
    <3>2. dispatch \in [Jobs -> DispatchStage]
      BY DEF TypeOK
    <3>3. CASE j \in unseen
      <4>1. dispatch[j] = "create" => dispatch'[j] = "create"
        BY <2>0, <3>1, <3>2
      <4> QED
        BY <2>s, <3>1, <3>3, <4>1
    <3>4. CASE j \in PendingDetect(MerchantOf[k])
      BY <3>1, <3>4 DEF PendingDetect, Awaited
    <3>5. CASE j = k /\ dispatch'[k] # "skipped"
      BY <3>1, <3>2, <3>5 DEF Awaited
    <3> QED
      BY <2>1, <3>3, <3>4, <3>5 DEF Ask
  <2>2. ASSUME NEW w \in Workers, JobStep(w) PROVE Awaited(j)'
    BY <2>0, <2>2, <2>a, <2>f, JobStepAwaited DEF JobStep
  <2>3. ASSUME NEW w \in Workers, DetectStep(w) PROVE Awaited(j)'
    <3>1. j \in unseen
      BY <2>3 DEF DetectStep, Load, Clear, Create, Notify, Announce, groupVars
    <3> QED
      BY <2>0, <2>3, <2>a, <3>1, DetectStepAwaited
  <2>4. CASE Elsewhere
    <3>1. UNCHANGED <<installed, pc, job, work>> /\ j \in unseen
      BY <2>4 DEF Elsewhere, SweepStep, SweepList, SweepReset, SweepPush, UpdateStatus, CreateRow,
         PushNew, Age, workVars, dbVars
    <3>2. ASSUME NEW k \in Jobs, CreateRow(k) PROVE Awaited(j)'
      <4>1. CASE k # j
        <5>1. status'[j] = status[j] /\ dispatch'[j] = dispatch[j]
          BY <2>0, <3>2, <4>1 DEF CreateRow, TypeOK
        <5> QED
          BY <2>s, <3>1, <5>1
      <4>2. CASE k = j
        <5>1. ~SilentFault(k)
          BY <2>0, <4>2, NotLost
        <5>2. CASE MerchantOf[j] \notin installed
          BY <3>1, <5>2 DEF Awaited
        <5>3. CASE status' = [status EXCEPT ![j] = "queued"]
          BY <2>0, <5>3 DEF Awaited, TypeOK
        <5> QED
          BY <3>2, <4>2, <5>1, <5>2, <5>3 DEF CreateRow
      <4> QED
        BY <4>1, <4>2
    <3>3. ASSUME NEW k \in Jobs, PushNew(k) \/ Age(k) PROVE Awaited(j)'
      <4>1. status'[j] = status[j]
        BY <3>3 DEF PushNew, Age, dbVars
      <4>2. dispatch[j] = "create" => dispatch'[j] = "create"
        BY <2>0, <3>3 DEF PushNew, Age, TypeOK
      <4> QED
        BY <2>s, <3>1, <4>1, <4>2
    <3>4. ASSUME NEW k \in Jobs, SweepReset(k) PROVE Awaited(j)'
      <4>1. /\ UpdateStatus(k, "queued") /\ UNCHANGED dispatch
            /\ status'[j] = IF j = k /\ HasRow(j) THEN "queued" ELSE status[j]
        BY <2>0, <3>4, UpdateOf DEF SweepReset
      <4>2. CASE status'[j] = "queued"
        BY <4>2 DEF Awaited
      <4> QED
        BY <2>s, <3>1, <4>1, <4>2
    <3>5. CASE SweepList \/ SweepPush
      BY <2>s, <3>1, <3>5 DEF SweepList, SweepPush, dbVars
    <3> QED
      BY <2>4, <3>2, <3>3, <3>4, <3>5 DEF Elsewhere, SweepStep
  <2>5. CASE GroupsAge \/ \E g \in Groups : Close(g)
    BY <2>5, <2>s DEF GroupsAge, Close, vars, dbVars, workVars
  <2>6. CASE ScanCrash
    <3>1. /\ j \in unseen /\ dispatch[j] # "create" /\ UNCHANGED <<status, installed>>
          /\ \A w \in Workers : ~Runs(w, j)'
      BY <2>0, <2>6 DEF ScanCrash, Crash, Runs, dbVars
    <3> QED
      BY <2>0, <2>a, <3>1, StillAwaited
  <2>7. ASSUME NEW m \in Merchants, ScanUninstall(m) PROVE Awaited(j)'
    <3>1. /\ j \in unseen /\ installed' \subseteq installed
          /\ UNCHANGED <<dispatch, pc, job, work>>
          /\ status'[j] \in {status[j], "gone"}
      BY <2>0, <2>7 DEF ScanUninstall, DeleteMerchant, TypeOK, workVars
    <3>2. CASE status'[j] = "gone"
      BY <3>2 DEF Awaited
    <3> QED
      BY <2>s, <3>1, <3>2
  <2>8. CASE UNCHANGED scanVars
    BY <2>8, <2>s DEF scanVars, vars, dbVars, workVars
  <2> QED
    BY <2>1, <2>2, <2>3, <2>4, <2>5, <2>6, <2>7, <2>8 DEF ScanNext
<1> QED
  BY <1>1, <1>2, ScansAreJobs, ScanTyping, TypeCorrect, HandoffHolds, IdsCreated, PTL
     DEF ScanSpec, Spec

\* The queued job a change is left to still has to load the cache, through
\* retries, sweeps, crashes and overlapping detections (Dispatcher.Dispatch,
\* CountPendingByType, processJob).
THEOREM ChangesScanned == ScanSpec => []ChangesAreScanned
<1>1. UnseenInv /\ ScanTyped /\ GoneInv /\ FailedIsExhausted => ChangesAreScanned
  <2> SUFFICES ASSUME UnseenInv, ScanTyped, GoneInv, FailedIsExhausted, NEW j \in unseen,
                      overruns = 0, j \notin faulted, MerchantOf[j] \in installed
               PROVE  \/ dispatch[j] = "create"
                      \/ status[j] = "queued"
                      \/ status[j] = "processing"
                           /\ \A w \in Holders(j) : pc[w] = "ack" \/ work[w].at = "load"
                      \/ status[j] = "failed" /\ retries[j] >= MaxRetries
    BY DEF ChangesAreScanned
  <2>1. j \in Jobs
    BY TypedParts, JobQueueAssumption DEF JobQueueAssumption, GroupsFit
  <2>2. Awaited(j)
    BY DEF UnseenInv, Calm, Lossless
  <2>3. status[j] # "gone" /\ (status[j] = "failed" => retries[j] >= MaxRetries)
    BY <2>1 DEF GoneInv, FailedIsExhausted
  <2> QED
    BY <2>2, <2>3 DEF Awaited, Holders, Runs
<1> QED
  BY <1>1, UnseenHolds, ScanTyping, ScansAreJobs, GoneHolds, FailedExhausted, PTL

-----------------------------------------------------------------------------
\* Every new group is announced.

\* The worker will still count the new groups of this one's shop.
Tells(w, g) ==
  Detects(w) /\ Shop(w) = OwnerOf[g] /\ work[w].at \in {"create", "done", "announce"}

\* Every new group is announced (Service.OnDetectComplete), for any number of
\* overlapping detections: who creates a group counts all new ones afterwards.
THEOREM GroupsAnnounced == ScanSpec => []NewGroupsAreAnnounced
<1>1. ScanInit => NewGroupsAreAnnounced
  BY DEF ScanInit, NewGroupsAreAnnounced
<1>2. /\ TypeOK /\ ScanTyped /\ ScanTyped' /\ NewGroupsAreAnnounced /\ [ScanNext]_scanVars
      => NewGroupsAreAnnounced'
  <2> SUFFICES ASSUME TypeOK, ScanTyped, ScanTyped', NewGroupsAreAnnounced, [ScanNext]_scanVars,
                      NEW g \in due'
               PROVE  \E w \in Workers : Tells(w, g)'
    BY DEF NewGroupsAreAnnounced, Tells
  <2>0. /\ g \in Groups
        /\ work \in [Workers -> [at : Stages, found : SUBSET Groups]]
        /\ \A w \in Workers : WorkerFits(w)
        /\ pending \subseteq Groups /\ recent \subseteq pending /\ due \subseteq recent
    BY TypedParts DEF GroupsFit
  <2>a. g \in due => \E w \in Workers : Tells(w, g)
    BY DEF NewGroupsAreAnnounced, Tells
  <2>s. ASSUME g \in due, UNCHANGED <<job, work>> PROVE \E w \in Workers : Tells(w, g)'
    BY <2>a, <2>s DEF Tells, Detects, Shop
  <2>1. ASSUME NEW j \in Jobs, Ask(j) PROVE \E w \in Workers : Tells(w, g)'
    BY <2>1, <2>s DEF Ask, BeginDispatch, workVars, groupVars
  \* No call of a worker ends a detection that has still to tell.
  <2>2. ASSUME NEW w \in Workers, JobStep(w) PROVE \E v \in Workers : Tells(v, g)'
    <3>1. g \in due
      BY <2>2 DEF JobStep, groupVars
    <3>2. PICK v \in Workers : Tells(v, g)
      BY <2>a, <3>1
    <3>3. CASE v # w
      <4>1. work'[v] = work[v] /\ job'[v] = job[v]
        BY <2>0, <2>2, <3>3, OneWorkerSteps DEF JobStep
      <4> QED
        BY <3>2, <4>1 DEF Tells, Detects, Shop
    <3>4. CASE v = w
      <4>1. pc[w] \in {"process", "report", "complete"}
        BY <2>0, <3>2, <3>4 DEF Tells, WorkerFits
      <4>2. work'[w] = work[w] /\ job'[w] = job[w]
        BY <2>0, <2>2, <4>1, OneWorkerSteps DEF JobStep
      <4> QED
        BY <3>2, <3>4, <4>2 DEF Tells, Detects, Shop
    <3> QED
      BY <3>3, <3>4
  <2>3. ASSUME NEW w \in Workers, DetectStep(w) PROVE \E v \in Workers : Tells(v, g)'
    <3>1. UNCHANGED job /\ \A v \in Workers \ {w} : work'[v] = work[v]
      BY <2>0, <2>3 DEF DetectStep, Load, Clear, Create, Notify, Announce, Reach, vars, workVars
    <3>2. ASSUME NEW v \in Workers \ {w}, Tells(v, g) PROVE Tells(v, g)'
      BY <3>1, <3>2 DEF Tells, Detects, Shop
    \* The step keeps what others have to tell, and w itself goes on or is done.
    <3>3. ASSUME g \in due, Tells(w, g) => Tells(w, g)' PROVE \E v \in Workers : Tells(v, g)'
      BY <2>a, <3>2, <3>3
    <3>4. CASE Load(w)
      BY <3>3, <3>4 DEF Load, At, Tells, groupVars
    <3>5. CASE Clear(w)
      BY <3>3, <3>5 DEF Clear, At, Tells, Drop, groupVars
    <3>6. CASE Create(w)
      <4>1. work'[w].at \in {"create", "done"} /\ Detects(w)' /\ Shop(w)' = Shop(w)
        BY <2>0, <3>1, <3>6 DEF Create, Reach, At, Detects, Shop
      <4>2. CASE g \in due
        BY <3>3, <4>1, <4>2 DEF Tells
      <4>3. CASE g \notin due
        <5>1. g \in work[w].found
          BY <3>6, <4>3 DEF Create, groupVars
        <5>2. OwnerOf[g] = Shop(w)
          BY <2>0, <5>1 DEF WorkerFits, OfShop
        <5> QED
          BY <4>1, <5>2 DEF Tells
      <4> QED
        BY <4>2, <4>3
    <3>7. CASE Notify(w)
      <4>1. g \in due
        BY <3>7 DEF Notify, Excuse
      <4>2. CASE Reach(w, "announce")
        BY <2>0, <3>1, <3>3, <4>1, <4>2 DEF Tells, Reach, Detects, Shop
      <4>3. CASE Excuse(OfShop(Shop(w)))
        BY <2>0, <3>3, <4>1, <4>3 DEF Tells, Excuse, OfShop
      <4> QED
        BY <3>7, <4>2, <4>3 DEF Notify
    <3>8. CASE Announce(w)
      <4>1. g \in due /\ OwnerOf[g] # Shop(w)
        BY <2>0, <3>8 DEF Announce, Excuse, NewDuplicates, OfShop
      <4> QED
        BY <3>3, <4>1 DEF Tells
    <3> QED
      BY <2>3, <3>4, <3>5, <3>6, <3>7, <3>8 DEF DetectStep
  <2>4. CASE Elsewhere
    BY <2>4, <2>s DEF Elsewhere, SweepStep, SweepList, SweepReset, SweepPush, CreateRow, PushNew,
       Age, workVars, groupVars
  <2>5. CASE GroupsAge \/ \E h \in Groups : Close(h)
    BY <2>5, <2>s DEF GroupsAge, Close, Drop, Excuse, vars, workVars
  <2>6. CASE ScanCrash
    BY <2>6 DEF ScanCrash, Excuse
  <2>7. ASSUME NEW m \in Merchants, ScanUninstall(m) PROVE \E w \in Workers : Tells(w, g)'
    BY <2>7, <2>s DEF ScanUninstall, DeleteMerchant, Drop, workVars
  <2>8. CASE UNCHANGED scanVars
    BY <2>8, <2>s DEF scanVars, vars, workVars, groupVars
  <2> QED
    BY <2>1, <2>2, <2>3, <2>4, <2>5, <2>6, <2>7, <2>8 DEF ScanNext
<1> QED
  BY <1>1, <1>2, ScansAreJobs, ScanTyping, TypeCorrect, PTL DEF ScanSpec
=============================================================================
