------------------------- MODULE WordPressMergeProofs -------------------------
(***************************************************************************)
(* Proofs about WordPressMerge, for any customers, jobs, retries and bounds. *)
(***************************************************************************)
EXTENDS WordPressMerge, TLAPS

Stages   == {"none", "queued", "customers", "call", "claim", "cleanup", "done", "failed"}
Statuses == {"pending", "dismissed", "merged", "gone"}
GroupRecs == [members : SUBSET Customers, status : Statuses]
JobRecs ==
  [pc : Stages, group : Nat \cup {Nobody}, primary : Customers \cup {Nobody},
   others : SUBSET Customers, attempts : 0..MaxRetries - 1, calls : 0..MaxMergeRetries - 1,
   moved : SUBSET Customers, left : SUBSET Customers]

\* A job asks for the merge of a whole group, into one of its members or into
\* another customer, and only moves or removes those it asked for; it is through with the call, or with everything.
HasRequest(job) == job.pc \notin {"none", "done", "failed"}

JobInv(job) ==
  /\ job.moved \subseteq job.others /\ job.left \subseteq job.others
  /\ job.left # {} => job.pc = "cleanup"
  /\ job.primary \notin job.others
  /\ HasRequest(job) =>
       /\ job.group \in GroupIds /\ job.primary \in Customers
       /\ job.others \subseteq groups[job.group].members
       /\ groups[job.group].members \subseteq job.others \cup {job.primary}
  /\ ~HasRequest(job) => job.group = Nobody /\ job.others = {}

Typed ==
  /\ owner \in [Customers -> Customers] /\ disabled \subseteq Customers
  /\ pushes \subseteq SUBSET Customers /\ cache \subseteq Customers
  /\ groups \in Seq(GroupRecs)
  /\ jobs \in [Jobs -> JobRecs]
  /\ \A j \in Jobs : JobInv(jobs[j])
  /\ pushed \in 0..MaxPushes /\ faults \in 0..MaxFaults
  /\ leftovers \subseteq cache \cap disabled /\ unsettled \subseteq Customers

\* What a job has still to remove: before its cleanup it may merge any of them.
ToRemove(job) == IF job.pc = "cleanup" THEN job.left ELSE job.others

RemovalInv ==
  \A c \in disabled \cap cache : c \in leftovers \/ \E j \in Jobs : c \in ToRemove(jobs[j])

\* After the call all customers of the request are merged, or known not to be.
MergedInv ==
  \A j \in Jobs :
    /\ jobs[j].moved \subseteq disabled
    /\ jobs[j].pc \in {"claim", "cleanup"} => jobs[j].others \subseteq jobs[j].moved \cup unsettled

\* Who is not disabled has their own orders; who was merged has those where the
\* primary's are, once merged into another account in turn.
OrdersInv ==
  /\ \A c \in Customers \ disabled : owner[c] = c
  /\ \A j \in Jobs : jobs[j].others \cap unsettled = {} =>
       \A c \in jobs[j].moved : owner[c] = owner[jobs[j].primary]
  /\ OrdersFollowMerges

-----------------------------------------------------------------------------
LEMMA Constants ==
  /\ MaxMergeRetries \in Nat \ {0} /\ MaxRetries \in Nat \ {0}
  /\ MaxGroups \in Nat /\ MaxPushes \in Nat /\ MaxFaults \in Nat
  BY WordPressMergeAssumption

\* NoJob is a job without a request, whatever its end.
LEMMA NoJobTyped ==
  ASSUME NEW p \in {"none", "done", "failed"}
  PROVE  /\ [NoJob EXCEPT !.pc = p] \in JobRecs
         /\ JobInv([NoJob EXCEPT !.pc = p])
         /\ ToRemove([NoJob EXCEPT !.pc = p]) = {}
         /\ [NoJob EXCEPT !.pc = p].pc = p
         /\ NoJob \in JobRecs /\ JobInv(NoJob) /\ NoJob = [NoJob EXCEPT !.pc = "none"]
<1>1. 0 \in 0..MaxRetries - 1 /\ 0 \in 0..MaxMergeRetries - 1
  BY Constants
<1>2. [NoJob EXCEPT !.pc = p] =
        [pc |-> p, group |-> Nobody, primary |-> Nobody, others |-> {},
         attempts |-> 0, calls |-> 0, moved |-> {}, left |-> {}]
  BY DEF NoJob
<1>3. NoJob = [NoJob EXCEPT !.pc = "none"]
  BY DEF NoJob
<1>4. [NoJob EXCEPT !.pc = p] \in JobRecs
  BY <1>1, <1>2 DEF JobRecs, Stages
<1>5. NoJob \in JobRecs
  BY <1>1 DEF NoJob, JobRecs, Stages
<1>6. JobInv([NoJob EXCEPT !.pc = p]) /\ JobInv(NoJob)
  BY <1>2 DEF NoJob, JobInv, HasRequest
<1> QED
  BY <1>2, <1>3, <1>4, <1>5, <1>6 DEF ToRemove

\* A fault leaves the counter within its bound.
LEMMA Faults ==
  ASSUME faults \in 0..MaxFaults, Fault \/ NoFault
  PROVE  faults' \in 0..MaxFaults
  BY Constants DEF Fault, NoFault

\* Changing one job of a typed table.
LEMMA SetTyped ==
  ASSUME Typed, NEW j \in Jobs, NEW job \in JobRecs, Set(j, job), UNCHANGED groups,
         JobInv(job)
  PROVE  /\ jobs' \in [Jobs -> JobRecs] /\ \A k \in Jobs : JobInv(jobs[k])'
         /\ jobs'[j] = job /\ \A k \in Jobs \ {j} : jobs'[k] = jobs[k]
  BY DEF Typed, Set, JobInv, GroupIds

\* A failing attempt, after the plugin has perhaps merged "moved".
LEMMA FailsTyped ==
  ASSUME Typed, NEW j \in Jobs, HasRequest(jobs[j]), jobs[j].pc # "cleanup",
         NEW moved \in SUBSET jobs[j].others, FailsAfter(j, moved), UNCHANGED groups
  PROVE  /\ jobs' \in [Jobs -> JobRecs] /\ \A k \in Jobs : JobInv(jobs[k])'
         /\ \A k \in Jobs \ {j} : jobs'[k] = jobs[k]
         /\ \/ /\ jobs'[j].pc = "queued" /\ jobs'[j].others = jobs[j].others
               /\ jobs'[j].primary = jobs[j].primary /\ jobs'[j].group = jobs[j].group
               /\ jobs'[j].moved = moved /\ leftovers' = leftovers
            \/ /\ jobs'[j] = [NoJob EXCEPT !.pc = "failed"]
               /\ leftovers' = leftovers \cup (jobs[j].others \cap cache \cap disabled')
<1>0. jobs[j] \in JobRecs /\ JobInv(jobs[j])
  BY DEF Typed
<1>1. CASE ~LastAttempt(j)
  <2>0. PICK job : job = [jobs[j] EXCEPT !.pc = "queued", !.attempts = @ + 1, !.calls = 0,
                                         !.moved = moved]
    OBVIOUS
  <2>1. jobs[j].attempts + 1 \in 0..MaxRetries - 1
    BY <1>0, <1>1, Constants DEF LastAttempt, JobRecs
  <2>2. 0 \in 0..MaxMergeRetries - 1 /\ moved \in SUBSET Customers
    BY <1>0, Constants DEF JobRecs
  <2>3. job \in JobRecs
    BY <1>0, <2>0, <2>1, <2>2 DEF JobRecs, Stages
  <2>4. /\ job.pc = "queued" /\ job.moved = moved /\ job.others = jobs[j].others
        /\ job.left = jobs[j].left /\ job.primary = jobs[j].primary
        /\ job.group = jobs[j].group
    BY <1>0, <2>0 DEF JobRecs
  <2>5. JobInv(job)
    BY <1>0, <2>4 DEF JobInv, HasRequest
  <2>6. Set(j, job) /\ leftovers' = leftovers
    BY <1>1, <2>0 DEF FailsAfter
  <2> QED
    BY <2>3, <2>4, <2>5, <2>6, SetTyped
<1>2. CASE LastAttempt(j)
  <2>1. /\ Set(j, [NoJob EXCEPT !.pc = "failed"])
        /\ leftovers' = leftovers \cup (jobs[j].others \cap cache \cap disabled')
    BY <1>2 DEF FailsAfter
  <2>2. [NoJob EXCEPT !.pc = "failed"] \in JobRecs /\ JobInv([NoJob EXCEPT !.pc = "failed"])
    BY NoJobTyped
  <2> QED
    BY <2>1, <2>2, SetTyped
<1> QED
  BY <1>1, <1>2

\* Groups are only ever added; those there are keep their members.
GroupsGrow ==
  /\ groups' \in Seq(GroupRecs) /\ GroupIds \subseteq GroupIds'
  /\ \A g \in GroupIds : groups'[g].members = groups[g].members

\* The requests of the jobs still name whole groups.
LEMMA GrowTyped ==
  ASSUME Typed, GroupsGrow, UNCHANGED jobs
  PROVE  \A k \in Jobs : JobInv(jobs[k])'
  BY DEF Typed, GroupsGrow, JobInv

\* A new status for a group.
LEMMA StatusTyped ==
  ASSUME Typed, NEW g \in GroupIds, NEW status \in Statuses,
         groups' = [groups EXCEPT ![g].status = status]
  PROVE  GroupsGrow /\ GroupIds' = GroupIds
<1>1. groups \in Seq(GroupRecs) /\ groups[g] \in GroupRecs
  BY DEF Typed, GroupIds
<1>2. [groups[g] EXCEPT !.status = status] \in GroupRecs
  BY <1>1 DEF GroupRecs
<1>3. [groups[g] EXCEPT !.status = status].members = groups[g].members
  BY <1>1 DEF GroupRecs
<1>4. groups' = [groups EXCEPT ![g] = [groups[g] EXCEPT !.status = status]]
  BY DEF GroupIds
<1>5. groups' \in Seq(GroupRecs) /\ DOMAIN groups' = DOMAIN groups
  BY <1>1, <1>2, <1>4 DEF GroupIds
<1> QED
  BY <1>1, <1>3, <1>4, <1>5 DEF GroupsGrow, GroupIds

\* What a detection does to the groups.
LEMMA DetectGrows ==
  ASSUME Typed, Detect
  PROVE  GroupsGrow
<1> DEFINE cleared == [g \in GroupIds |-> IF groups[g].status = "pending"
                         THEN [groups[g] EXCEPT !.status = "gone"] ELSE groups[g]]
<1>1. groups \in Seq(GroupRecs) /\ \A g \in GroupIds : groups[g] \in GroupRecs
  BY DEF Typed, GroupIds
<1>2. ASSUME NEW g \in GroupIds
      PROVE  cleared[g] \in GroupRecs /\ cleared[g].members = groups[g].members
  BY <1>1, <1>2 DEF GroupRecs, Statuses
<1>3. cleared \in Seq(GroupRecs) /\ DOMAIN cleared = 1..Len(groups) /\ Len(groups) \in Nat
      /\ Len(cleared) = Len(groups) /\ GroupIds = 1..Len(groups)
  BY <1>1, <1>2 DEF GroupIds
<1> HIDE DEF cleared
<1>4. PICK members \in SUBSET cache :
        groups' = cleared \/ groups' = Append(cleared, [members |-> members, status |-> "pending"])
  BY DEF Detect, cleared
<1>5. [members |-> members, status |-> "pending"] \in GroupRecs
  BY DEF Typed, GroupRecs, Statuses
<1>6. CASE groups' = cleared
  BY <1>2, <1>3, <1>6 DEF GroupsGrow, GroupIds
<1>7. CASE groups' = Append(cleared, [members |-> members, status |-> "pending"])
  <2>1. groups' \in Seq(GroupRecs) /\ DOMAIN groups' = 1..Len(groups) + 1
    BY <1>3, <1>5, <1>7
  <2>2. \A g \in GroupIds : groups'[g] = cleared[g]
    BY <1>3, <1>5, <1>7
  <2> QED
    BY <1>2, <1>3, <2>1, <2>2 DEF GroupsGrow, GroupIds
<1> QED
  BY <1>4, <1>6, <1>7

\* A job that keeps its request, and changes only where it is with it.
LEMMA KeptTyped ==
  ASSUME Typed, NEW j \in Jobs, HasRequest(jobs[j]),
         NEW job \in JobRecs, HasRequest(job),
         job.others = jobs[j].others, job.primary = jobs[j].primary,
         job.group = jobs[j].group, job.moved \subseteq jobs[j].others,
         job.left \subseteq jobs[j].others, job.left # {} => job.pc = "cleanup"
  PROVE  JobInv(job)
<1>1. JobInv(jobs[j])
  BY DEF Typed
<1> QED
  BY <1>1 DEF JobInv

\* Moving on to the next stage.
LEMMA GotoTyped ==
  ASSUME Typed, NEW j \in Jobs, HasRequest(jobs[j]), jobs[j].left = {},
         NEW p \in {"queued", "customers", "call", "claim", "cleanup"},
         Goto(j, p), UNCHANGED groups
  PROVE  /\ jobs' \in [Jobs -> JobRecs] /\ \A k \in Jobs : JobInv(jobs[k])'
         /\ \A k \in Jobs \ {j} : jobs'[k] = jobs[k]
         /\ jobs'[j].pc = p /\ jobs'[j].others = jobs[j].others
         /\ jobs'[j].primary = jobs[j].primary /\ jobs'[j].moved = jobs[j].moved
         /\ jobs'[j].left = {}
<1>1. jobs[j] \in JobRecs /\ JobInv(jobs[j])
  BY DEF Typed
<1>2. PICK job : job = [jobs[j] EXCEPT !.pc = p]
  OBVIOUS
<1>3. /\ job \in JobRecs /\ job.pc = p /\ job.others = jobs[j].others
      /\ job.primary = jobs[j].primary /\ job.group = jobs[j].group
      /\ job.moved = jobs[j].moved /\ job.left = {} /\ HasRequest(job)
  BY <1>1, <1>2 DEF JobRecs, Stages, HasRequest
<1>4. JobInv(job)
  BY <1>1, <1>3, KeptTyped DEF JobInv
<1>5. Set(j, job)
  BY <1>2 DEF Goto
<1> QED
  BY <1>3, <1>4, <1>5, SetTyped

\* What the plugin does to the accounts.
LEMMA ExecutedTyped ==
  ASSUME Typed, NEW j \in Jobs, HasRequest(jobs[j]), NEW which \in SUBSET Sent(j),
         Executed(j, which)
  PROVE  /\ owner' \in [Customers -> Customers] /\ disabled' \subseteq Customers
         /\ disabled \subseteq disabled'
         /\ jobs[j].others \subseteq Customers /\ jobs[j].primary \in Customers
         /\ jobs[j].moved \cup which \in SUBSET jobs[j].others
<1>1. jobs[j] \in JobRecs /\ JobInv(jobs[j])
  BY DEF Typed
<1>2. jobs[j].primary \in Customers /\ jobs[j].others \subseteq Customers
      /\ jobs[j].moved \subseteq jobs[j].others
  BY <1>1 DEF JobInv, JobRecs
<1> QED
  BY <1>2 DEF Typed, Executed, Sent

\* An answer: the job is about to claim its group.
LEMMA AnswerTyped ==
  ASSUME Typed, NEW j \in Jobs, jobs[j].pc = "call", NEW which \in SUBSET Sent(j),
         Set(j, [jobs[j] EXCEPT !.pc = "claim", !.moved = @ \cup which]), UNCHANGED groups
  PROVE  /\ jobs' \in [Jobs -> JobRecs] /\ \A k \in Jobs : JobInv(jobs[k])'
         /\ \A k \in Jobs \ {j} : jobs'[k] = jobs[k]
         /\ jobs'[j].pc = "claim" /\ jobs'[j].others = jobs[j].others
         /\ jobs'[j].primary = jobs[j].primary /\ jobs'[j].moved = jobs[j].moved \cup which
<1>1. jobs[j] \in JobRecs /\ JobInv(jobs[j]) /\ HasRequest(jobs[j])
  BY DEF Typed, HasRequest
<1>2. PICK job : job = [jobs[j] EXCEPT !.pc = "claim", !.moved = jobs[j].moved \cup which]
  OBVIOUS
<1>3. jobs[j].moved \cup which \in SUBSET jobs[j].others
  BY <1>1 DEF JobInv, Sent
<1>4. /\ job \in JobRecs /\ job.pc = "claim" /\ job.others = jobs[j].others
      /\ job.primary = jobs[j].primary /\ job.group = jobs[j].group
      /\ job.moved = jobs[j].moved \cup which /\ job.left = {} /\ HasRequest(job)
  BY <1>1, <1>2, <1>3 DEF JobRecs, JobInv, Stages, HasRequest
<1>5. JobInv(job)
  BY <1>1, <1>3, <1>4, KeptTyped
<1>6. Set(j, job)
  BY <1>2
<1> QED
  BY <1>4, <1>5, <1>6, SetTyped

\* A lost call: the same job calls again.
LEMMA LostTyped ==
  ASSUME Typed, NEW j \in Jobs, jobs[j].pc = "call", jobs[j].calls + 1 < MaxMergeRetries,
         NEW which \in SUBSET Sent(j),
         Set(j, [jobs[j] EXCEPT !.calls = @ + 1, !.moved = @ \cup which]), UNCHANGED groups
  PROVE  /\ jobs' \in [Jobs -> JobRecs] /\ \A k \in Jobs : JobInv(jobs[k])'
         /\ \A k \in Jobs \ {j} : jobs'[k] = jobs[k]
         /\ jobs'[j].pc = "call" /\ jobs'[j].others = jobs[j].others
         /\ jobs'[j].primary = jobs[j].primary /\ jobs'[j].moved = jobs[j].moved \cup which
<1>1. jobs[j] \in JobRecs /\ JobInv(jobs[j]) /\ HasRequest(jobs[j])
  BY DEF Typed, HasRequest
<1>2. PICK job : job = [jobs[j] EXCEPT !.calls = jobs[j].calls + 1,
                                       !.moved = jobs[j].moved \cup which]
  OBVIOUS
<1>3. jobs[j].moved \cup which \in SUBSET jobs[j].others
  BY <1>1 DEF JobInv, Sent
<1>4. jobs[j].calls + 1 \in 0..MaxMergeRetries - 1
  BY <1>1, Constants DEF JobRecs
<1>5. /\ job \in JobRecs /\ job.pc = "call" /\ job.others = jobs[j].others
      /\ job.primary = jobs[j].primary /\ job.group = jobs[j].group
      /\ job.moved = jobs[j].moved \cup which /\ job.left = {} /\ HasRequest(job)
  BY <1>1, <1>2, <1>3, <1>4 DEF JobRecs, JobInv, Stages, HasRequest
<1>6. JobInv(job)
  BY <1>1, <1>3, <1>5, KeptTyped
<1>7. Set(j, job)
  BY <1>2
<1> QED
  BY <1>5, <1>6, <1>7, SetTyped

\* The claim: the group becomes merged, its secondaries are to be removed.
LEMMA ClaimTyped ==
  ASSUME Typed, NEW j \in Jobs, jobs[j].pc = "claim",
         groups' = [groups EXCEPT ![jobs[j].group].status = "merged"],
         Set(j, [jobs[j] EXCEPT !.pc = "cleanup", !.left = jobs[j].others])
  PROVE  /\ jobs' \in [Jobs -> JobRecs] /\ \A k \in Jobs : JobInv(jobs[k])'
         /\ GroupsGrow /\ GroupIds' = GroupIds
         /\ \A k \in Jobs \ {j} : jobs'[k] = jobs[k]
         /\ jobs'[j].pc = "cleanup" /\ jobs'[j].others = jobs[j].others
         /\ jobs'[j].primary = jobs[j].primary /\ jobs'[j].moved = jobs[j].moved
         /\ jobs'[j].left = jobs[j].others
<1>1. jobs[j] \in JobRecs /\ JobInv(jobs[j]) /\ HasRequest(jobs[j])
  BY DEF Typed, HasRequest
<1>2. PICK job : job = [jobs[j] EXCEPT !.pc = "cleanup", !.left = jobs[j].others]
  OBVIOUS
<1>3. /\ job \in JobRecs /\ job.pc = "cleanup" /\ job.others = jobs[j].others
      /\ job.primary = jobs[j].primary /\ job.group = jobs[j].group
      /\ job.moved = jobs[j].moved /\ job.left = jobs[j].others /\ HasRequest(job)
  BY <1>1, <1>2 DEF JobRecs, Stages, HasRequest
<1>4. JobInv(job)
  BY <1>1, <1>3, KeptTyped DEF JobInv
<1>5. GroupsGrow /\ GroupIds' = GroupIds
  BY <1>1, StatusTyped DEF JobInv, Statuses
<1>6. jobs' = [jobs EXCEPT ![j] = job]
  BY <1>2 DEF Set
<1>7. jobs' \in [Jobs -> JobRecs] /\ jobs'[j] = job /\ \A k \in Jobs \ {j} : jobs'[k] = jobs[k]
  BY <1>3, <1>6 DEF Typed
<1>8. \A k \in Jobs : JobInv(jobs[k])'
  BY <1>4, <1>5, <1>7 DEF Typed, GroupsGrow, JobInv
<1> QED
  BY <1>3, <1>5, <1>7, <1>8

\* One row less to remove.
LEMMA CleanupTyped ==
  ASSUME Typed, NEW j \in Jobs, jobs[j].pc = "cleanup", NEW c,
         Set(j, [jobs[j] EXCEPT !.left = @ \ {c}]), UNCHANGED groups
  PROVE  /\ jobs' \in [Jobs -> JobRecs] /\ \A k \in Jobs : JobInv(jobs[k])'
         /\ \A k \in Jobs \ {j} : jobs'[k] = jobs[k]
         /\ jobs'[j].pc = "cleanup" /\ jobs'[j].others = jobs[j].others
         /\ jobs'[j].primary = jobs[j].primary /\ jobs'[j].moved = jobs[j].moved
         /\ jobs'[j].left = jobs[j].left \ {c}
<1>1. jobs[j] \in JobRecs /\ JobInv(jobs[j]) /\ HasRequest(jobs[j])
  BY DEF Typed, HasRequest
<1>2. PICK job : job = [jobs[j] EXCEPT !.left = jobs[j].left \ {c}]
  OBVIOUS
<1>3. /\ job \in JobRecs /\ job.pc = "cleanup" /\ job.others = jobs[j].others
      /\ job.primary = jobs[j].primary /\ job.group = jobs[j].group
      /\ job.moved = jobs[j].moved /\ job.left = jobs[j].left \ {c} /\ HasRequest(job)
  BY <1>1, <1>2 DEF JobRecs, HasRequest
<1>4. JobInv(job)
  BY <1>1, <1>3, KeptTyped DEF JobInv
<1>5. Set(j, job)
  BY <1>2
<1> QED
  BY <1>3, <1>4, <1>5, SetTyped

\* The other jobs and what a fault leaves behind, whatever a failing attempt did.
LEMMA StageTyped ==
  ASSUME Typed, NEW j \in Jobs, HasRequest(jobs[j]), jobs[j].left = {},
         jobs[j].pc # "cleanup",
         NEW p \in {"queued", "customers", "call", "claim", "cleanup"},
         (Goto(j, p) /\ UNCHANGED leftovers) \/ Fails(j),
         UNCHANGED <<disabled, cache, groups>>
  PROVE  /\ jobs' \in [Jobs -> JobRecs] /\ \A k \in Jobs : JobInv(jobs[k])'
         /\ leftovers' \subseteq cache \cap disabled /\ leftovers \subseteq leftovers'
<1>1. leftovers \subseteq cache \cap disabled /\ jobs[j].moved \in SUBSET jobs[j].others
  BY DEF Typed, JobInv
<1>2. CASE Goto(j, p) /\ UNCHANGED leftovers
  BY <1>1, <1>2, GotoTyped
<1>3. CASE Fails(j)
  <2> DEFINE moved == jobs[j].moved
  <2>1. moved \in SUBSET jobs[j].others /\ FailsAfter(j, moved)
    BY <1>1, <1>3 DEF Fails
  <2> HIDE DEF moved
  <2> QED
    BY <1>1, <2>1, FailsTyped
<1> QED
  BY <1>2, <1>3

LEMMA TypedStep == Typed /\ [Next]_vars => Typed'
<1> SUFFICES ASSUME Typed, [Next]_vars
             PROVE  Typed'
  OBVIOUS
<1>1. CASE Collect
  <2>1. pushed' \in 0..MaxPushes
    BY <1>1, Constants DEF Collect, Typed
  <2>2. pushes' \subseteq SUBSET Customers
    BY <1>1 DEF Collect, Typed
  <2> QED
    BY <1>1, <2>1, <2>2 DEF Collect, Typed, siteVars, historyVars, JobInv, GroupIds
<1>2. CASE Ingest
  <2>1. PICK batch \in pushes :
          /\ pushes' = pushes \ {batch}
          /\ cache \subseteq cache' /\ cache' \subseteq cache \cup batch /\ (Fault \/ NoFault)
          /\ leftovers' = cache' \cap (leftovers \cup (batch \cap disabled))
          /\ UNCHANGED <<siteVars, groups, jobs, pushed, unsettled>>
    BY <1>2 DEF Ingest, Ingested
  <2>2. faults' \in 0..MaxFaults
    BY <2>1, Faults DEF Typed
  <2>3. cache' \subseteq Customers /\ leftovers' \subseteq cache' \cap disabled
        /\ pushes' \subseteq SUBSET Customers
    BY <2>1 DEF Typed
  <2> QED
    BY <2>1, <2>2, <2>3 DEF Typed, siteVars, JobInv, GroupIds
<1>3. CASE Detect
  <2>1. GroupsGrow
    BY <1>3, DetectGrows
  <2>2. UNCHANGED <<siteVars, pushes, cache, jobs, pushed, faults, historyVars>>
    BY <1>3 DEF Detect
  <2>3. \A k \in Jobs : JobInv(jobs[k])'
    BY <2>1, <2>2, GrowTyped
  <2> QED
    BY <2>1, <2>2, <2>3 DEF Typed, GroupsGrow, siteVars, historyVars
<1>4. CASE Dismiss
  <2>1. PICK g \in GroupIds : groups' = [groups EXCEPT ![g].status = "dismissed"]
    BY <1>4 DEF Dismiss
  <2>2. GroupsGrow
    BY <2>1, StatusTyped DEF Statuses
  <2>3. UNCHANGED <<siteVars, pushes, cache, jobs, pushed, faults, historyVars>>
    BY <1>4 DEF Dismiss
  <2>4. \A k \in Jobs : JobInv(jobs[k])'
    BY <2>2, <2>3, GrowTyped
  <2> QED
    BY <2>2, <2>3, <2>4 DEF Typed, GroupsGrow, siteVars, historyVars
<1>5. CASE Crash
  <2>1. ASSUME NEW k \in Jobs
        PROVE  jobs'[k] \in JobRecs /\ JobInv(jobs'[k])
    <3>1. jobs[k] \in JobRecs /\ JobInv(jobs[k]) /\ 0 \in 0..MaxMergeRetries - 1
      BY Constants DEF Typed
    <3>2. CASE jobs[k].pc \in {"none", "queued", "done", "failed"}
      BY <1>5, <3>1, <3>2 DEF Crash
    <3>3. CASE jobs[k].pc \notin {"none", "queued", "done", "failed"}
      <4>1. jobs'[k] = [jobs[k] EXCEPT !.pc = "queued", !.calls = 0, !.left = {}]
        BY <1>5, <3>3 DEF Crash
      <4>2. PICK job : job = [jobs[k] EXCEPT !.pc = "queued", !.calls = 0, !.left = {}]
        OBVIOUS
      <4>3. /\ job \in JobRecs /\ HasRequest(job) /\ job.others = jobs[k].others
            /\ job.primary = jobs[k].primary /\ job.group = jobs[k].group
            /\ job.moved = jobs[k].moved /\ job.left = {}
        BY <3>1, <4>2 DEF JobRecs, Stages, HasRequest
      <4>4. HasRequest(jobs[k])
        BY <3>3 DEF HasRequest
      <4>5. JobInv(job)
        BY <3>1, <4>3, <4>4, KeptTyped DEF JobInv
      <4> QED
        BY <4>1, <4>2, <4>3, <4>5
    <3> QED
      BY <3>2, <3>3
  <2>2. jobs' \in [Jobs -> JobRecs]
    BY <1>5, <2>1 DEF Crash
  <2>3. UNCHANGED <<siteVars, pushes, cache, groups, pushed, historyVars>> /\ Fault
    BY <1>5 DEF Crash
  <2>4. \A k \in Jobs : JobInv(jobs[k])'
    BY <2>1, <2>3 DEF JobInv, GroupIds
  <2>5. faults' \in 0..MaxFaults
    BY <2>3, Faults DEF Typed
  <2> QED
    BY <2>2, <2>3, <2>4, <2>5 DEF Typed, siteVars, historyVars
<1>6. ASSUME NEW j \in Jobs, ExecuteMerge(j)
      PROVE  Typed'
  <2>0. PICK g \in GroupIds : \E p \in Customers :
          jobs' = [jobs EXCEPT ![j] = [NoJob EXCEPT !.pc = "queued", !.group = g,
                     !.primary = p, !.others = groups[g].members \ {p}]]
    BY <1>6 DEF ExecuteMerge
  <2>1. PICK p \in Customers :
          jobs' = [jobs EXCEPT ![j] = [NoJob EXCEPT !.pc = "queued", !.group = g,
                     !.primary = p, !.others = groups[g].members \ {p}]]
    BY <2>0
  <2>2. PICK job : job = [NoJob EXCEPT !.pc = "queued", !.group = g,
                            !.primary = p, !.others = groups[g].members \ {p}]
    OBVIOUS
  <2>3. NoJob \in JobRecs /\ NoJob.moved = {} /\ NoJob.left = {}
    <3>1. "none" \in {"none", "done", "failed"}
      OBVIOUS
    <3>2. NoJob \in JobRecs
      BY <3>1, NoJobTyped
    <3> QED
      BY <3>2 DEF NoJob
  <2>4. g \in Nat /\ p \in Customers /\ groups[g].members \subseteq Customers
    <3>1. groups \in Seq(GroupRecs) /\ GroupIds = DOMAIN groups
      BY DEF Typed, GroupIds
    <3>2. g \in Nat /\ groups[g] \in GroupRecs
      BY <3>1
    <3>3. groups[g].members \subseteq Customers
      BY <3>2 DEF GroupRecs
    <3> QED
      BY <3>2, <3>3
  <2>5. /\ job \in JobRecs /\ job.pc = "queued" /\ job.group = g /\ job.primary = p
        /\ job.others = groups[g].members \ {p} /\ job.moved = {} /\ job.left = {}
    <3>1. NoJob.attempts \in 0..MaxRetries - 1 /\ NoJob.calls \in 0..MaxMergeRetries - 1
      BY <2>3 DEF JobRecs
    <3>2. job = [pc |-> "queued", group |-> g, primary |-> p, others |-> groups[g].members \ {p},
                 attempts |-> NoJob.attempts, calls |-> NoJob.calls,
                 moved |-> {}, left |-> {}]
      BY <2>2 DEF NoJob
    <3> QED
      BY <2>4, <3>1, <3>2 DEF JobRecs, Stages
  <2>6. JobInv(job)
    BY <2>4, <2>5 DEF JobInv, HasRequest
  <2>7. UNCHANGED <<siteVars, pushes, cache, groups, pushed, faults, historyVars>> /\ Set(j, job)
    BY <1>6, <2>1, <2>2 DEF ExecuteMerge, Set
  <2>8. jobs' \in [Jobs -> JobRecs] /\ \A k \in Jobs : JobInv(jobs[k])'
    BY <2>5, <2>6, <2>7, SetTyped
  <2> QED
    BY <2>7, <2>8 DEF Typed, siteVars, historyVars
<1>7. ASSUME NEW j \in Jobs, CheckGroup(j) \/ LoadCustomers(j)
      PROVE  Typed'
  <2>1. HasRequest(jobs[j]) /\ jobs[j].left = {} /\ jobs[j].pc # "cleanup"
    BY <1>7 DEF CheckGroup, LoadCustomers, HasRequest, Typed, JobInv
  <2>2. UNCHANGED <<siteVars, pushes, cache, groups, pushed, unsettled>>
    BY <1>7 DEF CheckGroup, LoadCustomers
  <2>3. Fault \/ NoFault
    BY <1>7 DEF CheckGroup, LoadCustomers
  <2>4. PICK p \in {"customers", "call"} : (Goto(j, p) /\ UNCHANGED leftovers) \/ Fails(j)
    BY <1>7 DEF CheckGroup, LoadCustomers
  <2>5. /\ jobs' \in [Jobs -> JobRecs] /\ \A k \in Jobs : JobInv(jobs[k])'
        /\ leftovers' \subseteq cache \cap disabled
    BY <2>1, <2>2, <2>4, StageTyped DEF siteVars
  <2>6. faults' \in 0..MaxFaults
    BY <2>3, Faults DEF Typed
  <2> QED
    BY <2>2, <2>5, <2>6 DEF Typed, siteVars
<1>8. ASSUME NEW j \in Jobs, CallSucceeds(j) \/ CallIsLost(j) \/ CallFails(j)
      PROVE  Typed'
  <2>1. PICK which \in SUBSET Sent(j) :
          /\ Executed(j, which)
          /\ unsettled' \subseteq unsettled \cup Sent(j) \cup {jobs[j].primary}
          /\ \/ /\ Set(j, [jobs[j] EXCEPT !.pc = "claim", !.moved = @ \cup which])
                /\ UNCHANGED leftovers
             \/ /\ Set(j, [jobs[j] EXCEPT !.calls = @ + 1, !.moved = @ \cup which])
                /\ jobs[j].calls + 1 < MaxMergeRetries
                /\ UNCHANGED leftovers
             \/ FailsAfter(j, jobs[j].moved \cup which)
    <3>1. CASE CallSucceeds(j)
      BY <3>1 DEF CallSucceeds
    <3>2. CASE CallIsLost(j)
      BY <3>2 DEF CallIsLost, Unsettled
    <3>3. CASE CallFails(j)
      BY <3>3 DEF CallFails, Unsettled
    <3> QED
      BY <1>8, <3>1, <3>2, <3>3
  <2>2. jobs[j].pc = "call" /\ UNCHANGED <<pushes, cache, groups, pushed>> /\ (Fault \/ NoFault)
    BY <1>8 DEF CallSucceeds, CallIsLost, CallFails
  <2>3. HasRequest(jobs[j])
    BY <2>2 DEF HasRequest
  <2>4. /\ owner' \in [Customers -> Customers] /\ disabled' \subseteq Customers
        /\ disabled \subseteq disabled' /\ jobs[j].others \subseteq Customers
        /\ jobs[j].primary \in Customers
        /\ jobs[j].moved \cup which \in SUBSET jobs[j].others
    BY <2>1, <2>3, ExecutedTyped
  <2>5. /\ jobs' \in [Jobs -> JobRecs] /\ \A k \in Jobs : JobInv(jobs[k])'
        /\ leftovers' \subseteq cache' \cap disabled'
    <3>0. leftovers \subseteq cache \cap disabled /\ cache' = cache
      BY <2>2 DEF Typed
    <3>1. CASE /\ Set(j, [jobs[j] EXCEPT !.pc = "claim", !.moved = @ \cup which])
               /\ UNCHANGED leftovers
      BY <2>2, <2>4, <3>0, <3>1, AnswerTyped
    <3>2. CASE /\ Set(j, [jobs[j] EXCEPT !.calls = @ + 1, !.moved = @ \cup which])
               /\ jobs[j].calls + 1 < MaxMergeRetries
               /\ UNCHANGED leftovers
      BY <2>2, <2>4, <3>0, <3>2, LostTyped
    <3>3. CASE FailsAfter(j, jobs[j].moved \cup which)
      <4> DEFINE moved == jobs[j].moved \cup which
      <4>1. moved \in SUBSET jobs[j].others /\ FailsAfter(j, moved)
        BY <2>4, <3>3
      <4> HIDE DEF moved
      <4>2. /\ jobs' \in [Jobs -> JobRecs] /\ \A k \in Jobs : JobInv(jobs[k])'
            /\ \/ leftovers' = leftovers
               \/ leftovers' = leftovers \cup (jobs[j].others \cap cache \cap disabled')
        BY <2>2, <2>3, <4>1, FailsTyped
      <4> QED
        BY <2>4, <3>0, <4>2
    <3> QED
      BY <2>1, <3>1, <3>2, <3>3
  <2>6. faults' \in 0..MaxFaults
    BY <2>2, Faults DEF Typed
  <2>7. unsettled' \subseteq Customers
    BY <2>1, <2>4 DEF Typed, Sent
  <2> QED
    BY <2>2, <2>4, <2>5, <2>6, <2>7 DEF Typed
<1>9. ASSUME NEW j \in Jobs, Claim(j)
      PROVE  Typed'
  <2>1. /\ HasRequest(jobs[j]) /\ jobs[j].left = {} /\ jobs[j].pc = "claim"
        /\ UNCHANGED <<siteVars, pushes, cache, pushed, unsettled>> /\ (Fault \/ NoFault)
    BY <1>9 DEF Claim, HasRequest, Typed, JobInv
  <2>2. faults' \in 0..MaxFaults
    BY <2>1, Faults DEF Typed
  <2>3. CASE /\ groups' = [groups EXCEPT ![jobs[j].group].status = "merged"]
             /\ Set(j, [jobs[j] EXCEPT !.pc = "cleanup", !.left = jobs[j].others])
             /\ UNCHANGED leftovers
    <3>1. /\ jobs' \in [Jobs -> JobRecs] /\ \A k \in Jobs : JobInv(jobs[k])' /\ GroupsGrow
      BY <2>1, <2>3, ClaimTyped
    <3> QED
      BY <2>1, <2>2, <2>3, <3>1 DEF Typed, GroupsGrow, siteVars
  <2>4. CASE Fails(j) /\ UNCHANGED groups
    <3>1. /\ jobs' \in [Jobs -> JobRecs] /\ \A k \in Jobs : JobInv(jobs[k])'
          /\ leftovers' \subseteq cache \cap disabled
      BY <2>1, <2>4, StageTyped DEF siteVars
    <3> QED
      BY <2>1, <2>2, <2>4, <3>1 DEF Typed, siteVars
  <2> QED
    BY <1>9, <2>3, <2>4 DEF Claim
<1>10. ASSUME NEW j \in Jobs, Cleanup(j)
       PROVE  Typed'
  <2>1. PICK c \in jobs[j].left :
          /\ Set(j, [jobs[j] EXCEPT !.left = @ \ {c}])
          /\ \/ cache' = cache \ {c} /\ leftovers' = leftovers \ {c}
             \/ cache' = cache /\ leftovers' = leftovers \cup ({c} \cap cache \cap disabled)
          /\ Fault \/ NoFault
    BY <1>10 DEF Cleanup, AfterFailedDelete
  <2>2. jobs[j].pc = "cleanup" /\ UNCHANGED <<siteVars, pushes, groups, pushed, unsettled>>
    BY <1>10 DEF Cleanup
  <2>3. jobs' \in [Jobs -> JobRecs] /\ \A k \in Jobs : JobInv(jobs[k])'
    BY <2>1, <2>2, CleanupTyped
  <2>4. faults' \in 0..MaxFaults
    BY <2>1, Faults DEF Typed
  <2>5. cache' \subseteq Customers /\ leftovers' \subseteq cache' \cap disabled
    BY <2>1 DEF Typed
  <2> QED
    BY <2>2, <2>3, <2>4, <2>5 DEF Typed, siteVars
<1>11. ASSUME NEW j \in Jobs, Finish(j)
       PROVE  Typed'
  <2> DEFINE job == [NoJob EXCEPT !.pc = "done"]
  <2>1. job \in JobRecs /\ JobInv(job)
    BY NoJobTyped
  <2>2. Set(j, job) /\ UNCHANGED <<siteVars, pushes, cache, groups, pushed, faults, historyVars>>
    BY <1>11 DEF Finish
  <2> HIDE DEF job
  <2>3. jobs' \in [Jobs -> JobRecs] /\ \A k \in Jobs : JobInv(jobs[k])'
    BY <2>1, <2>2, SetTyped
  <2> QED
    BY <2>2, <2>3 DEF Typed, siteVars, historyVars
<1>12. CASE UNCHANGED vars
  BY <1>12 DEF vars, Typed, siteVars, historyVars, JobInv, GroupIds
<1> QED
  BY <1>1, <1>2, <1>3, <1>4, <1>5, <1>6, <1>7, <1>8, <1>9, <1>10, <1>11, <1>12
  DEF Next, JobStep

\* A job goes on with its request ...
Continues(j, moved) ==
  /\ jobs'[j].pc # "cleanup" /\ jobs'[j].others = jobs[j].others
  /\ jobs'[j].primary = jobs[j].primary /\ jobs'[j].moved = moved
  /\ UNCHANGED leftovers

\* ... or gives up.
GivesUp(j) ==
  /\ jobs'[j] = [NoJob EXCEPT !.pc = "failed"]
  /\ leftovers' = leftovers \cup (jobs[j].others \cap cache \cap disabled')

OthersKept(j) == \A k \in Jobs \ {j} : jobs'[k] = jobs[k]

LEMMA FailsCases ==
  ASSUME Typed, NEW j \in Jobs, HasRequest(jobs[j]), jobs[j].pc # "cleanup",
         NEW moved \in SUBSET jobs[j].others, FailsAfter(j, moved), UNCHANGED groups
  PROVE  OthersKept(j) /\ ((Continues(j, moved) /\ jobs'[j].pc = "queued") \/ GivesUp(j))
  BY FailsTyped DEF OthersKept, Continues, GivesUp

\* What a call may do, as far as the invariants need it.
LEMMA CallCases ==
  ASSUME Typed, NEW j \in Jobs, CallSucceeds(j) \/ CallIsLost(j) \/ CallFails(j)
  PROVE  /\ jobs[j].pc = "call" /\ UNCHANGED <<cache, groups>> /\ OthersKept(j)
         /\ unsettled \subseteq unsettled'
         /\ \E which \in SUBSET jobs[j].others :
              /\ Executed(j, which)
              /\ Overlaps(j, which) => jobs[j].others \cup {jobs[j].primary} \subseteq unsettled'
              /\ \/ /\ Continues(j, jobs[j].moved \cup which)
                    /\ jobs'[j].pc = "claim" => jobs[j].others \ which \subseteq unsettled'
                 \/ GivesUp(j)
<1>1. /\ jobs[j].pc = "call" /\ UNCHANGED <<cache, groups>> /\ HasRequest(jobs[j])
      /\ JobInv(jobs[j])
  BY DEF CallSucceeds, CallIsLost, CallFails, HasRequest, Typed
<1>2. CASE CallSucceeds(j)
  <2>1. PICK which \in SUBSET Sent(j) :
          /\ Executed(j, which)
          /\ unsettled' = unsettled \cup (Sent(j) \ which)
               \cup (IF Overlaps(j, which) THEN Sent(j) \cup {jobs[j].primary} ELSE {})
          /\ Set(j, [jobs[j] EXCEPT !.pc = "claim", !.moved = @ \cup which])
    BY <1>2 DEF CallSucceeds
  <2>2. UNCHANGED leftovers
    BY <1>2 DEF CallSucceeds
  <2>3. OthersKept(j) /\ Continues(j, jobs[j].moved \cup which)
    BY <1>1, <2>1, <2>2, AnswerTyped DEF OthersKept, Continues
  <2> QED
    BY <1>1, <2>1, <2>3 DEF Sent
<1>3. CASE CallIsLost(j)
  <2>1. PICK which \in SUBSET Sent(j) :
          /\ Executed(j, which) /\ Unsettled(j, which)
          /\ Set(j, [jobs[j] EXCEPT !.calls = @ + 1, !.moved = @ \cup which])
    BY <1>3 DEF CallIsLost
  <2>2. UNCHANGED leftovers /\ jobs[j].calls + 1 < MaxMergeRetries
    BY <1>3 DEF CallIsLost
  <2>3. /\ OthersKept(j) /\ Continues(j, jobs[j].moved \cup which) /\ jobs'[j].pc = "call"
    BY <1>1, <2>1, <2>2, LostTyped DEF OthersKept, Continues
  <2> QED
    BY <1>1, <2>1, <2>3 DEF Sent, Unsettled
<1>4. CASE CallFails(j)
  <2>1. PICK which \in SUBSET Sent(j) :
          /\ Executed(j, which) /\ Unsettled(j, which)
          /\ FailsAfter(j, jobs[j].moved \cup which)
    BY <1>4 DEF CallFails
  <2> DEFINE moved == jobs[j].moved \cup which
  <2>2. moved \in SUBSET jobs[j].others /\ FailsAfter(j, moved)
    BY <1>1, <2>1 DEF JobInv, Sent
  <2> HIDE DEF moved
  <2>3. OthersKept(j) /\ ((Continues(j, moved) /\ jobs'[j].pc = "queued") \/ GivesUp(j))
    BY <1>1, <2>2, FailsCases
  <2> QED
    BY <1>1, <2>1, <2>3 DEF Sent, Unsettled, moved
<1> QED
  BY <1>2, <1>3, <1>4

\* The stages that read: the claim that finds the group merged is one of them.
Reads(j) ==
  CheckGroup(j) \/ LoadCustomers(j) \/ (Claim(j) /\ Fails(j) /\ UNCHANGED groups)

LEMMA ReadCases ==
  ASSUME Typed, NEW j \in Jobs, Reads(j)
  PROVE  /\ HasRequest(jobs[j]) /\ jobs[j].pc # "cleanup" /\ OthersKept(j)
         /\ UNCHANGED <<owner, disabled, cache, groups, unsettled>>
         /\ (Continues(j, jobs[j].moved) /\ jobs'[j].pc # "claim") \/ GivesUp(j)
<1>1. /\ HasRequest(jobs[j]) /\ jobs[j].pc # "cleanup" /\ jobs[j].left = {}
      /\ jobs[j].moved \in SUBSET jobs[j].others
      /\ UNCHANGED <<owner, disabled, cache, groups, unsettled>>
  BY DEF Reads, CheckGroup, LoadCustomers, Claim, HasRequest, Typed, JobInv, siteVars
<1>2. PICK p \in {"customers", "call"} : (Goto(j, p) /\ UNCHANGED leftovers) \/ Fails(j)
  BY DEF Reads, CheckGroup, LoadCustomers
<1>3. CASE Goto(j, p) /\ UNCHANGED leftovers
  BY <1>1, <1>3, GotoTyped DEF OthersKept, Continues
<1>4. CASE Fails(j)
  <2> DEFINE moved == jobs[j].moved
  <2>1. moved \in SUBSET jobs[j].others /\ FailsAfter(j, moved)
    BY <1>1, <1>4 DEF Fails
  <2> HIDE DEF moved
  <2>2. OthersKept(j) /\ ((Continues(j, moved) /\ jobs'[j].pc = "queued") \/ GivesUp(j))
    BY <1>1, <2>1, FailsCases
  <2> QED
    BY <1>1, <2>2 DEF moved
<1> QED
  BY <1>2, <1>3, <1>4

\* The claim that succeeds.
Claims(j) ==
  /\ Claim(j)
  /\ groups' = [groups EXCEPT ![jobs[j].group].status = "merged"]
  /\ Set(j, [jobs[j] EXCEPT !.pc = "cleanup", !.left = jobs[j].others])
  /\ UNCHANGED leftovers

LEMMA ClaimCases == ASSUME NEW j \in Jobs, Claim(j) PROVE Claims(j) \/ Reads(j)
  BY DEF Claim, Claims, Reads

\* A new job, the end of one, and a crash.
LEMMA StartCases ==
  ASSUME Typed, NEW j \in Jobs, ExecuteMerge(j)
  PROVE  /\ UNCHANGED <<owner, disabled, cache, groups, leftovers, unsettled>>
         /\ OthersKept(j) /\ jobs[j].others = {}
         /\ jobs'[j].pc = "queued" /\ jobs'[j].moved = {}
<1>1. jobs \in [Jobs -> JobRecs] /\ jobs[j] = NoJob
  BY DEF Typed, ExecuteMerge
<1>2. PICK g \in GroupIds : \E p \in Customers :
        jobs' = [jobs EXCEPT ![j] = [NoJob EXCEPT !.pc = "queued", !.group = g,
                   !.primary = p, !.others = groups[g].members \ {p}]]
  BY DEF ExecuteMerge
<1>3. PICK p \in Customers :
        jobs' = [jobs EXCEPT ![j] = [NoJob EXCEPT !.pc = "queued", !.group = g,
                   !.primary = p, !.others = groups[g].members \ {p}]]
  BY <1>2
<1>4. jobs'[j] = [NoJob EXCEPT !.pc = "queued", !.group = g,
                    !.primary = p, !.others = groups[g].members \ {p}]
  BY <1>1, <1>3
<1>5. jobs'[j].pc = "queued" /\ jobs'[j].moved = {}
  BY <1>4 DEF NoJob
<1> QED
  BY <1>1, <1>3, <1>5 DEF ExecuteMerge, OthersKept, siteVars, historyVars, NoJob

LEMMA FinishCases ==
  ASSUME Typed, NEW j \in Jobs, Finish(j)
  PROVE  /\ UNCHANGED <<owner, disabled, cache, groups, leftovers, unsettled>>
         /\ OthersKept(j) /\ ToRemove(jobs[j]) = {}
         /\ jobs'[j] = [NoJob EXCEPT !.pc = "done"]
  BY DEF Typed, Finish, Set, OthersKept, siteVars, historyVars, ToRemove

LEMMA CrashCases ==
  ASSUME Typed, Crash
  PROVE  /\ UNCHANGED <<owner, disabled, cache, groups, leftovers, unsettled>>
         /\ \A k \in Jobs :
              /\ jobs'[k].others = jobs[k].others /\ jobs'[k].primary = jobs[k].primary
              /\ jobs'[k].moved = jobs[k].moved /\ jobs'[k].pc \notin {"claim", "cleanup"}
<1>1. UNCHANGED <<owner, disabled, cache, groups, leftovers, unsettled>>
  BY DEF Crash, siteVars, historyVars
<1>2. ASSUME NEW k \in Jobs
      PROVE  /\ jobs'[k].others = jobs[k].others /\ jobs'[k].primary = jobs[k].primary
             /\ jobs'[k].moved = jobs[k].moved /\ jobs'[k].pc \notin {"claim", "cleanup"}
  <2>1. jobs[k] \in JobRecs
    BY DEF Typed
  <2>2. CASE jobs[k].pc \in {"none", "queued", "done", "failed"}
    <3>1. jobs'[k] = jobs[k]
      BY <2>2 DEF Crash
    <3> QED
      BY <2>2, <3>1
  <2>3. CASE jobs[k].pc \notin {"none", "queued", "done", "failed"}
    <3>1. jobs'[k] = [jobs[k] EXCEPT !.pc = "queued", !.calls = 0, !.left = {}]
      BY <2>3 DEF Crash
    <3>2. PICK job : job = [jobs[k] EXCEPT !.pc = "queued", !.calls = 0, !.left = {}]
      OBVIOUS
    <3>3. /\ job.others = jobs[k].others /\ job.primary = jobs[k].primary
          /\ job.moved = jobs[k].moved /\ job.pc = "queued"
      BY <2>1, <3>2 DEF JobRecs
    <3> QED
      BY <3>1, <3>2, <3>3
  <2> QED
    BY <2>2, <2>3
<1> QED
  BY <1>1, <1>2

-----------------------------------------------------------------------------
LEMMA RemovalStep == Typed /\ RemovalInv /\ [Next]_vars => RemovalInv'
<1> SUFFICES ASSUME Typed, RemovalInv, [Next]_vars, NEW c \in disabled' \cap cache'
             PROVE  c \in leftovers' \/ \E k \in Jobs : c \in ToRemove(jobs'[k])
  BY DEF RemovalInv, ToRemove
<1>0. c \in disabled \cap cache => c \in leftovers \/ \E k \in Jobs : c \in ToRemove(jobs[k])
  BY DEF RemovalInv
<1>1. CASE Collect \/ Detect \/ Dismiss \/ UNCHANGED vars
  <2>1. UNCHANGED <<disabled, cache, jobs, leftovers>>
    BY <1>1 DEF Collect, Detect, Dismiss, vars, siteVars, historyVars
  <2> QED
    BY <1>0, <2>1
<1>2. CASE Ingest
  <2>1. PICK batch \in pushes :
          /\ cache' \subseteq cache \cup batch
          /\ leftovers' = cache' \cap (leftovers \cup (batch \cap disabled))
          /\ UNCHANGED <<disabled, jobs>>
    BY <1>2 DEF Ingest, Ingested, siteVars
  <2> QED
    BY <1>0, <2>1
<1>3. CASE Crash
  <2>1. UNCHANGED <<disabled, cache, leftovers>>
    BY <1>3, CrashCases
  <2>2. ASSUME NEW k \in Jobs
        PROVE  ToRemove(jobs[k]) \subseteq ToRemove(jobs'[k])
    BY <1>3, CrashCases DEF Typed, JobInv, ToRemove
  <2> QED
    BY <1>0, <2>1, <2>2
<1>4. ASSUME NEW j \in Jobs, ExecuteMerge(j)
      PROVE  c \in leftovers' \/ \E k \in Jobs : c \in ToRemove(jobs'[k])
  <2>1. UNCHANGED <<disabled, cache, leftovers>> /\ OthersKept(j) /\ jobs[j].others = {}
    BY <1>4, StartCases
  <2>2. ToRemove(jobs[j]) = {}
    BY <2>1 DEF Typed, JobInv, ToRemove
  <2> QED
    BY <1>0, <2>1, <2>2 DEF OthersKept
<1>5. ASSUME NEW j \in Jobs, Reads(j)
      PROVE  c \in leftovers' \/ \E k \in Jobs : c \in ToRemove(jobs'[k])
  <2>1. /\ jobs[j].pc # "cleanup" /\ OthersKept(j)
        /\ UNCHANGED <<disabled, cache>>
        /\ Continues(j, jobs[j].moved) \/ GivesUp(j)
    BY <1>5, ReadCases
  <2> QED
    BY <1>0, <2>1 DEF OthersKept, Continues, GivesUp, ToRemove
<1>6. ASSUME NEW j \in Jobs, CallSucceeds(j) \/ CallIsLost(j) \/ CallFails(j)
      PROVE  c \in leftovers' \/ \E k \in Jobs : c \in ToRemove(jobs'[k])
  <2>1. jobs[j].pc = "call" /\ cache' = cache /\ OthersKept(j)
    BY <1>6, CallCases
  <2>2. PICK which \in SUBSET jobs[j].others :
          /\ disabled' = disabled \cup which
          /\ Continues(j, jobs[j].moved \cup which) \/ GivesUp(j)
    BY <1>6, CallCases DEF Executed
  <2> QED
    BY <1>0, <2>1, <2>2 DEF OthersKept, Continues, GivesUp, ToRemove
<1>7. ASSUME NEW j \in Jobs, Claims(j)
      PROVE  c \in leftovers' \/ \E k \in Jobs : c \in ToRemove(jobs'[k])
  <2>1. /\ UNCHANGED <<disabled, cache, leftovers>> /\ jobs[j].pc = "claim"
    BY <1>7 DEF Claims, Claim, siteVars
  <2>2. /\ \A k \in Jobs \ {j} : jobs'[k] = jobs[k]
        /\ jobs'[j].pc = "cleanup" /\ jobs'[j].left = jobs[j].others
    BY <1>7, <2>1, ClaimTyped DEF Claims
  <2> QED
    BY <1>0, <2>1, <2>2 DEF ToRemove
<1>8. ASSUME NEW j \in Jobs, Cleanup(j)
      PROVE  c \in leftovers' \/ \E k \in Jobs : c \in ToRemove(jobs'[k])
  <2>1. PICK d \in jobs[j].left :
          /\ Set(j, [jobs[j] EXCEPT !.left = @ \ {d}])
          /\ \/ cache' = cache \ {d} /\ leftovers' = leftovers \ {d}
             \/ cache' = cache /\ leftovers' = leftovers \cup ({d} \cap cache \cap disabled)
    BY <1>8 DEF Cleanup, AfterFailedDelete
  <2>2. jobs[j].pc = "cleanup" /\ UNCHANGED <<disabled, groups>>
    BY <1>8 DEF Cleanup, siteVars
  <2>3. /\ \A k \in Jobs \ {j} : jobs'[k] = jobs[k]
        /\ jobs'[j].pc = "cleanup" /\ jobs'[j].left = jobs[j].left \ {d}
    BY <2>1, <2>2, CleanupTyped
  <2> QED
    BY <1>0, <2>1, <2>2, <2>3 DEF ToRemove
<1>9. ASSUME NEW j \in Jobs, Finish(j)
      PROVE  c \in leftovers' \/ \E k \in Jobs : c \in ToRemove(jobs'[k])
  BY <1>0, <1>9, FinishCases DEF OthersKept
<1> QED
  BY <1>1, <1>2, <1>3, <1>4, <1>5, <1>6, <1>7, <1>8, <1>9, ClaimCases
  DEF Next, JobStep, Reads

-----------------------------------------------------------------------------
LEMMA MergedStep == Typed /\ MergedInv /\ [Next]_vars => MergedInv'
<1> SUFFICES ASSUME Typed, MergedInv, [Next]_vars, NEW k \in Jobs
             PROVE  /\ jobs'[k].moved \subseteq disabled'
                    /\ jobs'[k].pc \in {"claim", "cleanup"} =>
                         jobs'[k].others \subseteq jobs'[k].moved \cup unsettled'
  BY DEF MergedInv
<1> DEFINE Goal == /\ jobs'[k].moved \subseteq disabled'
                   /\ jobs'[k].pc \in {"claim", "cleanup"} =>
                        jobs'[k].others \subseteq jobs'[k].moved \cup unsettled'
<1>0. /\ jobs[k].moved \subseteq disabled
      /\ jobs[k].pc \in {"claim", "cleanup"} =>
           jobs[k].others \subseteq jobs[k].moved \cup unsettled
  BY DEF MergedInv
<1>1. CASE Collect \/ Ingest \/ Detect \/ Dismiss \/ UNCHANGED vars
  <2>1. UNCHANGED <<disabled, jobs, unsettled>>
    BY <1>1 DEF Collect, Ingest, Detect, Dismiss, vars, siteVars, historyVars
  <2> QED
    BY <1>0, <2>1
<1>2. CASE Crash
  BY <1>0, <1>2, CrashCases
<1>3. ASSUME NEW j \in Jobs, ExecuteMerge(j) PROVE Goal
  BY <1>0, <1>3, StartCases DEF OthersKept
<1>4. ASSUME NEW j \in Jobs, Reads(j) PROVE Goal
  <2>1. /\ OthersKept(j) /\ UNCHANGED <<disabled, unsettled>>
        /\ (Continues(j, jobs[j].moved) /\ jobs'[j].pc # "claim") \/ GivesUp(j)
    BY <1>4, ReadCases
  <2> QED
    BY <1>0, <2>1 DEF OthersKept, Continues, GivesUp, NoJob
<1>5. ASSUME NEW j \in Jobs, CallSucceeds(j) \/ CallIsLost(j) \/ CallFails(j) PROVE Goal
  <2>1. OthersKept(j) /\ unsettled \subseteq unsettled'
    BY <1>5, CallCases
  <2>2. PICK which \in SUBSET jobs[j].others :
          /\ disabled' = disabled \cup which
          /\ \/ /\ Continues(j, jobs[j].moved \cup which)
                /\ jobs'[j].pc = "claim" => jobs[j].others \ which \subseteq unsettled'
             \/ GivesUp(j)
    BY <1>5, CallCases DEF Executed
  <2> QED
    BY <1>0, <2>1, <2>2 DEF OthersKept, Continues, GivesUp, NoJob
<1>6. ASSUME NEW j \in Jobs, Claims(j) PROVE Goal
  <2>1. UNCHANGED <<disabled, unsettled>> /\ jobs[j].pc = "claim"
    BY <1>6 DEF Claims, Claim, siteVars
  <2> QED
    BY <1>0, <1>6, <2>1, ClaimTyped DEF Claims
<1>7. ASSUME NEW j \in Jobs, Cleanup(j) PROVE Goal
  <2>1. PICK d \in jobs[j].left : Set(j, [jobs[j] EXCEPT !.left = @ \ {d}])
    BY <1>7 DEF Cleanup, AfterFailedDelete
  <2>2. jobs[j].pc = "cleanup" /\ UNCHANGED <<disabled, groups, unsettled>>
    BY <1>7 DEF Cleanup, siteVars
  <2> QED
    BY <1>0, <2>1, <2>2, CleanupTyped
<1>8. ASSUME NEW j \in Jobs, Finish(j) PROVE Goal
  BY <1>0, <1>8, FinishCases DEF OthersKept, NoJob
<1> QED
  BY <1>1, <1>2, <1>3, <1>4, <1>5, <1>6, <1>7, <1>8, ClaimCases DEF Next, JobStep, Reads

-----------------------------------------------------------------------------
\* The plugin moves whole accounts: who shares one goes on sharing one.
LEMMA SharedStays ==
  ASSUME NEW j \in Jobs, NEW which, Executed(j, which),
         NEW c \in Customers, NEW d \in Customers, owner[c] = owner[d]
  PROVE  owner'[c] = owner'[d]
  BY DEF Executed

\* The customers of one call end in one account, unless it is about an overlap.
LEMMA CallShares ==
  ASSUME Typed, OrdersInv, NEW j \in Jobs, HasRequest(jobs[j]),
         NEW which \in SUBSET jobs[j].others, Executed(j, which),
         unsettled \subseteq unsettled', Overlaps(j, which) => jobs[j].others \cup {jobs[j].primary} \subseteq unsettled',
         jobs[j].others \cap unsettled' = {},
         NEW c \in jobs[j].moved \cup which
  PROVE  owner'[c] = owner'[jobs[j].primary]
<1> DEFINE p == jobs[j].primary
<1>1. /\ p \in Customers /\ p \notin jobs[j].others /\ jobs[j].others \subseteq Customers
      /\ jobs[j].moved \subseteq jobs[j].others /\ owner \in [Customers -> Customers]
  <2>1. jobs[j] \in JobRecs /\ JobInv(jobs[j])
    BY DEF Typed
  <2> QED
    BY <2>1 DEF JobInv, JobRecs, Typed
<1>2. CASE c \in jobs[j].moved
  <2>1. owner[c] = owner[p]
    BY <1>2 DEF OrdersInv
  <2> QED
    BY <1>1, <1>2, <2>1, SharedStays
<1>3. CASE c \in which /\ c \notin jobs[j].moved
  <2>1. p \notin disabled /\ c \notin disabled
    BY <1>1, <1>3 DEF Overlaps
  <2>2. owner[p] = p /\ owner[c] = c
    BY <1>1, <1>3, <2>1 DEF OrdersInv
  <2>3. p \notin which
    BY <1>1
  <2> QED
    BY <1>1, <1>3, <2>2, <2>3 DEF Executed
<1> QED
  BY <1>2, <1>3

LEMMA OrdersStep == Typed /\ MergedInv /\ OrdersInv /\ [Next]_vars => OrdersInv'
<1> SUFFICES ASSUME Typed, MergedInv, OrdersInv, [Next]_vars
             PROVE  OrdersInv'
  OBVIOUS
<1> DEFINE
     Own       == \A c \in Customers \ disabled : owner[c] = c
     Together(k) == jobs[k].others \cap unsettled = {} =>
                      \A c \in jobs[k].moved : owner[c] = owner[jobs[k].primary]
     Shared(g) == groups[g].status = "merged" /\ groups[g].members \cap unsettled = {} =>
                    \A c, d \in groups[g].members : owner[c] = owner[d]
     Usable    == \A c \in Customers : owner[c] \in disabled => owner[c] \in unsettled
<1>1. /\ OrdersInv <=> Own /\ (\A k \in Jobs : Together(k)) /\ (\A g \in GroupIds : Shared(g)) /\ Usable
  BY DEF OrdersInv, OrdersFollowMerges
<1>2. /\ OrdersInv' <=> Own' /\ (\A k \in Jobs : Together(k)') /\ (\A g \in GroupIds' : Shared(g)') /\ Usable'
  BY DEF OrdersInv, OrdersFollowMerges
<1>3. CASE Collect \/ Ingest \/ UNCHANGED vars
  BY <1>1, <1>2, <1>3 DEF Collect, Ingest, vars, siteVars, historyVars, GroupIds
<1>4. CASE Dismiss
  <2>1. UNCHANGED <<owner, disabled, jobs, unsettled>>
    BY <1>4 DEF Dismiss, siteVars, historyVars
  <2>2. PICK h \in GroupIds : groups' = [groups EXCEPT ![h].status = "dismissed"]
    BY <1>4 DEF Dismiss
  <2>3. GroupIds' = GroupIds /\ GroupsGrow
    BY <2>2, StatusTyped DEF Statuses
  <2>4. ASSUME NEW g \in GroupIds
        PROVE  groups'[g].status = "merged" => groups'[g] = groups[g]
    <3>1. groups[g] \in GroupRecs
      BY DEF Typed, GroupIds
    <3>2. groups'[g] = IF g = h THEN [groups[g] EXCEPT !.status = "dismissed"] ELSE groups[g]
      BY <2>2 DEF GroupIds
    <3> QED
      BY <3>1, <3>2 DEF GroupRecs
  <2> QED
    BY <1>1, <1>2, <2>1, <2>3, <2>4
<1>5. CASE Detect
  <2>1. UNCHANGED <<owner, disabled, jobs, unsettled>>
    BY <1>5 DEF Detect, siteVars, historyVars
  <2>2. ASSUME NEW g \in GroupIds', groups'[g].status = "merged"
        PROVE  g \in GroupIds /\ groups'[g] = groups[g]
    <3> DEFINE cleared == [h \in GroupIds |-> IF groups[h].status = "pending"
                             THEN [groups[h] EXCEPT !.status = "gone"] ELSE groups[h]]
    <3>1. groups \in Seq(GroupRecs) /\ GroupIds = 1..Len(groups) /\ Len(groups) \in Nat
      BY DEF Typed, GroupIds
    <3>2. ASSUME NEW h \in GroupIds
          PROVE  cleared[h] \in GroupRecs /\ (cleared[h].status = "merged" => cleared[h] = groups[h])
      <4>1. groups[h] \in GroupRecs
        BY <3>1
      <4> QED
        BY <4>1 DEF GroupRecs, Statuses
    <3>3. cleared \in Seq(GroupRecs) /\ Len(cleared) = Len(groups)
      BY <3>1, <3>2
    <3> HIDE DEF cleared
    <3>4. PICK members \in SUBSET cache :
            groups' = cleared \/ groups' = Append(cleared, [members |-> members, status |-> "pending"])
      BY <1>5 DEF Detect, cleared
    <3>5. [members |-> members, status |-> "pending"] \in GroupRecs
      BY DEF Typed, GroupRecs, Statuses
    <3>6. CASE groups' = cleared
      BY <2>2, <3>1, <3>2, <3>3, <3>6 DEF GroupIds
    <3>7. CASE groups' = Append(cleared, [members |-> members, status |-> "pending"])
      <4>1. GroupIds' = 1..Len(groups) + 1
        BY <3>1, <3>3, <3>5, <3>7 DEF GroupIds
      <4>2. CASE g = Len(groups) + 1
        BY <2>2, <3>1, <3>3, <3>5, <3>7, <4>2
      <4>3. CASE g \in GroupIds
        <5>1. groups'[g] = cleared[g]
          BY <3>1, <3>3, <3>5, <3>7, <4>3
        <5> QED
          BY <2>2, <3>2, <4>3, <5>1
      <4> QED
        BY <3>1, <4>1, <4>2, <4>3
    <3> QED
      BY <3>4, <3>6, <3>7
  <2> QED
    BY <1>1, <1>2, <2>1, <2>2
<1>6. CASE Crash
  <2>1. UNCHANGED <<owner, disabled, groups, unsettled>> /\ GroupIds' = GroupIds
    BY <1>6, CrashCases DEF GroupIds
  <2>2. ASSUME NEW k \in Jobs PROVE Together(k)'
    BY <1>1, <1>6, <2>1, CrashCases
  <2> QED
    BY <1>1, <1>2, <2>1, <2>2
<1>7. ASSUME NEW j \in Jobs, ExecuteMerge(j) \/ Finish(j) \/ Reads(j) \/ Cleanup(j)
      PROVE  OrdersInv'
  <2>1. UNCHANGED <<owner, disabled, groups, unsettled>> /\ OthersKept(j)
    <3>1. CASE ExecuteMerge(j)
      BY <3>1, StartCases
    <3>2. CASE Finish(j)
      BY <3>2, FinishCases
    <3>3. CASE Reads(j)
      BY <3>3, ReadCases
    <3>4. CASE Cleanup(j)
      BY <3>4 DEF Cleanup, siteVars, OthersKept, Set, Typed
    <3> QED
      BY <1>7, <3>1, <3>2, <3>3, <3>4
  <2>2. \/ jobs'[j].moved = {}
        \/ /\ jobs'[j].others = jobs[j].others /\ jobs'[j].primary = jobs[j].primary
           /\ jobs'[j].moved = jobs[j].moved
    <3>1. CASE ExecuteMerge(j)
      BY <3>1, StartCases
    <3>2. CASE Finish(j)
      BY <3>2, FinishCases DEF NoJob
    <3>3. CASE Reads(j)
      BY <3>3, ReadCases DEF NoJob, Continues, GivesUp
    <3>4. CASE Cleanup(j)
      <4>1. PICK d \in jobs[j].left : Set(j, [jobs[j] EXCEPT !.left = @ \ {d}])
        BY <3>4 DEF Cleanup, AfterFailedDelete
      <4>2. jobs[j].pc = "cleanup"
        BY <3>4 DEF Cleanup
      <4> QED
        BY <2>1, <4>1, <4>2, CleanupTyped
    <3> QED
      BY <1>7, <3>1, <3>2, <3>3, <3>4
  <2>3. ASSUME NEW k \in Jobs PROVE Together(k)'
    BY <1>1, <2>1, <2>2 DEF OthersKept
  <2> QED
    BY <1>1, <1>2, <2>1, <2>3 DEF GroupIds
<1>8. ASSUME NEW j \in Jobs, CallSucceeds(j) \/ CallIsLost(j) \/ CallFails(j)
      PROVE  OrdersInv'
  <2>1. /\ jobs[j].pc = "call" /\ groups' = groups /\ OthersKept(j)
        /\ unsettled \subseteq unsettled' /\ GroupIds' = GroupIds
    BY <1>8, CallCases DEF GroupIds
  <2>2. PICK which \in SUBSET jobs[j].others :
          /\ Executed(j, which)
          /\ Overlaps(j, which) => jobs[j].others \cup {jobs[j].primary} \subseteq unsettled'
          /\ Continues(j, jobs[j].moved \cup which) \/ GivesUp(j)
    BY <1>8, CallCases
  <2>3. HasRequest(jobs[j])
    BY <2>1 DEF HasRequest
  <2>4. /\ jobs[j].primary \in Customers /\ jobs[j].primary \notin jobs[j].others
        /\ jobs[j].others \subseteq Customers /\ owner \in [Customers -> Customers]
    <3>1. jobs[j] \in JobRecs /\ JobInv(jobs[j])
      BY DEF Typed
    <3> QED
      BY <2>3, <3>1 DEF JobInv, JobRecs, Typed
  <2>5. Own'
    <3>1. SUFFICES ASSUME NEW c \in Customers, c \notin disabled' PROVE owner'[c] = c
      OBVIOUS
    <3>2. c \notin which /\ owner[c] = c
      BY <1>1, <2>2, <3>1 DEF Executed
    <3> QED
      BY <2>2, <3>2 DEF Executed
  <2>6. Usable'
    <3>1. SUFFICES ASSUME NEW c \in Customers, owner'[c] \in disabled'
                   PROVE  owner'[c] \in unsettled'
      OBVIOUS
    <3>2. CASE owner[c] \in which
      <4>1. owner'[c] = jobs[j].primary
        BY <2>2, <3>2 DEF Executed
      <4>2. jobs[j].primary \in disabled
        BY <2>2, <2>4, <3>1, <4>1 DEF Executed
      <4> QED
        BY <2>2, <3>2, <4>1, <4>2 DEF Overlaps
    <3>3. CASE owner[c] \notin which
      BY <1>1, <2>1, <2>2, <3>1, <3>3 DEF Executed
    <3> QED
      BY <3>2, <3>3
  <2>7. ASSUME NEW g \in GroupIds PROVE Shared(g)'
    <3>1. groups[g].members \subseteq Customers
      <4>1. groups[g] \in GroupRecs
        BY DEF Typed, GroupIds
      <4> QED
        BY <4>1 DEF GroupRecs
    <3>2. SUFFICES ASSUME groups[g].status = "merged", groups[g].members \cap unsettled' = {},
                          NEW c \in groups[g].members, NEW d \in groups[g].members
                   PROVE  owner'[c] = owner'[d]
      BY <2>1
    <3>3. owner[c] = owner[d]
      BY <1>1, <2>1, <3>2
    <3> QED
      BY <2>2, <3>1, <3>3, SharedStays
  <2>8. ASSUME NEW k \in Jobs PROVE Together(k)'
    <3>1. CASE k # j
      <4>1. jobs'[k] = jobs[k]
        BY <2>1, <3>1 DEF OthersKept
      <4>2. SUFFICES ASSUME jobs[k].others \cap unsettled' = {},
                            NEW c \in jobs[k].moved
                     PROVE  owner'[c] = owner'[jobs[k].primary]
        BY <4>1
      <4>3. owner[c] = owner[jobs[k].primary]
        BY <1>1, <2>1, <4>2
      <4>4. c \in Customers /\ jobs[k].primary \in Customers
        <5>1. jobs[k] \in JobRecs /\ JobInv(jobs[k])
          BY DEF Typed
        <5> QED
          BY <4>2, <5>1 DEF JobInv, JobRecs
      <4> QED
        BY <2>2, <4>3, <4>4, SharedStays
    <3>2. CASE k = j /\ Continues(j, jobs[j].moved \cup which)
      <4>1. /\ jobs'[k].others = jobs[j].others /\ jobs'[k].primary = jobs[j].primary
            /\ jobs'[k].moved = jobs[j].moved \cup which
        BY <3>2 DEF Continues
      <4>2. SUFFICES ASSUME jobs[j].others \cap unsettled' = {},
                            NEW c \in jobs[j].moved \cup which
                     PROVE  owner'[c] = owner'[jobs[j].primary]
        BY <4>1
      <4> QED
        BY <2>1, <2>2, <2>3, <4>2, CallShares
    <3>3. CASE k = j /\ GivesUp(j)
      <4>1. jobs'[k].moved = {}
        BY <3>3 DEF GivesUp, NoJob
      <4> QED
        BY <4>1
    <3> QED
      BY <2>2, <3>1, <3>2, <3>3
  <2> QED
    BY <1>2, <2>1, <2>5, <2>6, <2>7, <2>8
<1>9. ASSUME NEW j \in Jobs, Claims(j)
      PROVE  OrdersInv'
  <2>1. UNCHANGED <<owner, disabled, unsettled>> /\ jobs[j].pc = "claim"
    BY <1>9 DEF Claims, Claim, siteVars
  <2>2. /\ groups' = [groups EXCEPT ![jobs[j].group].status = "merged"]
        /\ GroupsGrow /\ GroupIds' = GroupIds
        /\ \A k \in Jobs \ {j} : jobs'[k] = jobs[k]
        /\ jobs'[j].others = jobs[j].others
        /\ jobs'[j].primary = jobs[j].primary /\ jobs'[j].moved = jobs[j].moved
    BY <1>9, <2>1, ClaimTyped DEF Claims
  <2>3. ASSUME NEW k \in Jobs PROVE Together(k)'
    BY <1>1, <2>1, <2>2
  <2>4. ASSUME NEW g \in GroupIds PROVE Shared(g)'
    <3>1. CASE g # jobs[j].group
      <4>1. groups'[g] = groups[g]
        BY <2>2, <3>1 DEF GroupIds
      <4> QED
        BY <1>1, <2>1, <4>1
    <3>2. CASE g = jobs[j].group
      <4>1. /\ groups'[g].members \subseteq jobs[j].others \cup {jobs[j].primary}
            /\ jobs[j].others \subseteq groups'[g].members
        <5>1. JobInv(jobs[j]) /\ HasRequest(jobs[j])
          BY <2>1 DEF Typed, HasRequest
        <5> QED
          BY <2>2, <3>2, <5>1 DEF GroupsGrow, JobInv
      <4>2. SUFFICES ASSUME jobs[j].others \cap unsettled = {}
                     PROVE  \A c \in jobs[j].others \cup {jobs[j].primary} :
                              owner[c] = owner[jobs[j].primary]
        BY <2>1, <4>1
      <4>3. jobs[j].others \subseteq jobs[j].moved
        BY <2>1, <4>2 DEF MergedInv
      <4> QED
        BY <1>1, <4>2, <4>3
    <3> QED
      BY <3>1, <3>2
  <2> QED
    BY <1>1, <1>2, <2>1, <2>2, <2>3, <2>4
<1> QED
  BY <1>3, <1>4, <1>5, <1>6, <1>7, <1>8, <1>9, ClaimCases DEF Next, JobStep, Reads

-----------------------------------------------------------------------------
IInv == Typed /\ RemovalInv /\ MergedInv /\ OrdersInv

LEMMA InitHolds == Init => IInv
<1> SUFFICES ASSUME Init PROVE IInv
  OBVIOUS
<1>1. NoJob \in JobRecs /\ JobInv(NoJob)
  <2>1. "none" \in {"none", "done", "failed"}
    OBVIOUS
  <2> QED
    BY <2>1, NoJobTyped
<1>2. groups = <<>> /\ <<>> \in Seq(GroupRecs) /\ GroupIds = {}
  BY DEF Init, GroupIds
<1>3. /\ owner \in [Customers -> Customers] /\ \A c \in Customers : owner[c] = c
  BY DEF Init
<1>4. jobs \in [Jobs -> JobRecs] /\ \A j \in Jobs : jobs[j] = NoJob
  BY <1>1 DEF Init
<1>5. pushed \in 0..MaxPushes /\ faults \in 0..MaxFaults
  BY Constants DEF Init
<1>6. Typed
  BY <1>1, <1>2, <1>3, <1>4, <1>5 DEF Init, Typed
<1>7. RemovalInv /\ MergedInv
  BY <1>4 DEF Init, RemovalInv, MergedInv, NoJob
<1>8. OrdersInv
  BY <1>2, <1>3, <1>4 DEF Init, OrdersInv, OrdersFollowMerges, NoJob
<1> QED
  BY <1>6, <1>7, <1>8 DEF IInv

LEMMA Inductive == Spec => []IInv
<1>1. Init => IInv
  BY InitHolds
<1>2. IInv /\ [Next]_vars => IInv'
  BY TypedStep, RemovalStep, MergedStep, OrdersStep DEF IInv
<1> QED
  BY <1>1, <1>2, PTL DEF Spec

\* Variables have their types; jobs keep to their requests.
THEOREM TypeCorrect == Spec => []TypeOK
<1>1. ASSUME Typed PROVE TypeOK
  <2>1. ASSUME NEW j \in Jobs
        PROVE  /\ jobs[j].pc \in {"none", "queued", "customers", "call", "claim", "cleanup", "done", "failed"}
               /\ jobs[j].attempts \in 0..MaxRetries - 1 /\ jobs[j].calls \in 0..MaxMergeRetries - 1
               /\ jobs[j].moved \subseteq jobs[j].others /\ jobs[j].left \subseteq jobs[j].others
               /\ jobs[j].group \in GroupIds \cup {Nobody}
               /\ jobs[j].primary \in (Customers \cup {Nobody}) \ jobs[j].others
               /\ jobs[j].left # {} => jobs[j].pc = "cleanup"
    <3>1. jobs[j] \in JobRecs /\ JobInv(jobs[j])
      BY <1>1 DEF Typed
    <3> QED
      BY <3>1 DEF JobRecs, JobInv, Stages
  <2> QED
    BY <1>1, <2>1 DEF Typed, TypeOK, GroupRecs, Statuses
<1> QED
  BY <1>1, Inductive, PTL DEF IInv

\* The row of a merged customer leaves the cache, or is known to be left over
\* (processor.go:243), whatever fails and however the jobs overlap.
THEOREM MergedLeave == Spec => []MergedLeaveTheCache
<1>1. ASSUME Typed, RemovalInv PROVE MergedLeaveTheCache
  <2>1. \A j \in Jobs : ToRemove(jobs[j]) \subseteq jobs[j].others
    BY <1>1 DEF Typed, JobInv, ToRemove
  <2> QED
    BY <1>1, <2>1 DEF RemovalInv, MergedLeaveTheCache
<1> QED
  BY <1>1, Inductive, PTL DEF IInv

\* Only the customers a job has merged leave the cache, and those the plugin
\* reported an error for (sync_service.go:25, processor.go:243).
THEOREM ActiveStay == Spec => ActiveStayCached
<1>1. ASSUME IInv, [Next]_vars
      PROVE  [\A c \in cache \ cache' : c \in disabled \/ c \in unsettled]_vars
  <2>1. ASSUME NEW j \in Jobs, Cleanup(j), NEW c \in cache \ cache'
        PROVE  c \in disabled \/ c \in unsettled
    <3>1. PICK d \in jobs[j].left : cache' = cache \ {d} \/ cache' = cache
      BY <2>1 DEF Cleanup
    <3>2. c \in jobs[j].left /\ jobs[j].pc = "cleanup"
      BY <2>1, <3>1 DEF Cleanup
    <3>3. jobs[j].left \subseteq jobs[j].others
      BY <1>1 DEF IInv, Typed, JobInv
    <3> QED
      BY <1>1, <3>2, <3>3 DEF IInv, MergedInv
  <2>2. CASE Ingest
    BY <2>2 DEF Ingest, Ingested
  <2>3. CASE Collect \/ Detect \/ Dismiss \/ Crash \/ UNCHANGED vars
    BY <2>3 DEF Collect, Detect, Dismiss, Crash, vars
  <2>4. ASSUME NEW j \in Jobs, ExecuteMerge(j) \/ Finish(j) PROVE cache' = cache
    BY <2>4 DEF ExecuteMerge, Finish
  <2>5. ASSUME NEW j \in Jobs, CheckGroup(j) \/ LoadCustomers(j) \/ Claim(j)
        PROVE cache' = cache
    BY <2>5 DEF CheckGroup, LoadCustomers, Claim
  <2>6. ASSUME NEW j \in Jobs, CallSucceeds(j) \/ CallIsLost(j) \/ CallFails(j)
        PROVE cache' = cache
    BY <2>6 DEF CallSucceeds, CallIsLost, CallFails
  <2> QED
    BY <1>1, <2>1, <2>2, <2>3, <2>4, <2>5, <2>6 DEF Next, JobStep
<1> QED
  BY <1>1, Inductive, PTL DEF Spec, ActiveStayCached

\* The orders of a merged group are in one account that can be used, however
\* often the call was repeated (wordpress/client.go:85), unless jobs overlapped
\* or the plugin reported errors.
THEOREM OrdersFollow == Spec => []OrdersFollowMerges
<1>1. IInv => OrdersFollowMerges
  BY DEF IInv, OrdersInv
<1> QED
  BY <1>1, Inductive, PTL
=============================================================================
