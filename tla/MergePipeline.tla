---------------------------- MODULE MergePipeline ----------------------------
(***************************************************************************)
(* How the duplicates of one Shopify shop become one customer.  A detect   *)
(* job fills the table duplicate_groups from customer_cache; a merchant,   *)
(* or SafeBulkMerge for many groups at once, requests merges; a merge job  *)
(* runs Orchestrator.Execute, which reads the group, takes a snapshot,     *)
(* lets Shopify merge the customers pair by pair, writes the audit record  *)
(* and only then claims the group.  The jobs of one shop run side by side  *)
(* with each other, with a detection and with the merchant, and a failed   *)
(* job runs again (JobQueue).                                              *)
(*                                                                         *)
(* Shopify merges cannot be undone: what is lost, doubled or left halfway  *)
(* between two of these steps stays so.                                    *)
(***************************************************************************)
EXTENDS Naturals, FiniteSets

CONSTANTS
  Customers,
  Persons,      \* which customers are the same person: the detector's finding
  Subscribers,  \* customers with an active subscription tag
  Groups,       \* rows duplicate_groups may ever hold
  Requests,     \* merge jobs
  Detections,   \* detect jobs
  Plan,         \* the billing plan of the shop
  None,         \* a value that is nothing else
  MaxRetries,   \* maxRetries: failed runs before a job is given up
  MaxFaults,    \* bound: calls that fail or whose answer is lost
  MaxCrashes    \* bound: how often the process dies

ASSUME MergePipelineAssumption ==
  /\ Persons \subseteq SUBSET Customers
  /\ \A P, Q \in Persons : P # Q => P \cap Q = {}
  /\ Subscribers \subseteq Customers
  /\ Plan \in {"free", "basic", "pro"}
  /\ None \notin (Requests \X Nat) \cup Customers
  /\ MaxRetries \in Nat \ {0}
  /\ MaxFaults \in Nat /\ MaxCrashes \in Nat

VARIABLES
  group,      \* duplicate_groups.status; "absent": not yet a row, "gone": deleted
  members,    \* duplicate_groups.customer_ids (and group_hash)
  cached,     \* customers with a row in customer_cache
  absorbedBy, \* at Shopify: the run that merged a customer away, or None
  payload,    \* what each merge job was dispatched with
  pc,         \* the call each merge job makes next
  attempts,   \* jobs.retries of each merge job
  run,        \* number of the current run of each merge job
  primary,    \* the customer the next pairwise merge keeps data of
  todo,       \* secondaries the run has still to merge
  snapshots,  \* runs that left a row in snapshots
  records,    \* merge_records: the run that wrote each, and its snapshot_id
  linked,     \* snapshots whose merge_record_id is set
  confirmed,  \* groups with confirmed_by_user
  scan,       \* the call each detect job makes next
  loaded,     \* customers it has read and not yet clustered
  found,      \* clusters it has still to store
  bulk,       \* groups a SafeBulkMerge call has listed and not dispatched yet
  faults, crashes,  \* how much of the bounds is used
  \* History, read by the properties only:
  unrecorded, \* runs whose audit record was lost
  winners,    \* runs that claimed each group
  reopened    \* groups dismissed after they were merged

rowVars     == <<group, members, confirmed>>
requestVars == <<payload, pc, attempts, run, primary, todo>>
backupVars  == <<snapshots, records, linked>>
scanVars    == <<scan, loaded, found>>
history     == <<unrecorded, winners, reopened>>
vars == <<rowVars, cached, absorbedBy, requestVars, backupVars, scanVars, bulk,
          faults, crashes, history>>

PC == {"none", "queued", "load", "snapshot", "execute", "record", "link",
       "transition", "confirm", "done", "failed"}
Running == PC \ {"none", "queued", "done", "failed"}

Runs    == Requests \X Nat
Live    == {c \in Customers : absorbedBy[c] = None}
Exists(g) == group[g] \notin {"absent", "gone"}
ThisRun(r) == <<r, run[r]>>
Involved(r) == {payload[r].primary} \cup payload[r].secondaries

\* merge_records.snapshot_id of a run.
SnapshotId(r) == IF ThisRun(r) \in snapshots THEN ThisRun(r) ELSE None

\* IsFeatureEnabled(plan, FeatureSnapshots): basic and above.
SnapshotsEnabled(plan) == plan \in {"basic", "pro"}

Fault   == faults < MaxFaults /\ faults' = faults + 1
NoFault == UNCHANGED faults

-----------------------------------------------------------------------------
\* The merchant.

Dispatch(r, g, c, S, plan, isBulk) ==
  /\ payload' = [payload EXCEPT ![r] =
       [group |-> g, primary |-> c, secondaries |-> S, plan |-> plan, bulk |-> isBulk]]
  /\ pc' = [pc EXCEPT ![r] = "queued"]
  /\ UNCHANGED <<attempts, run, primary, todo>>

\* MergeHandler.Execute.  The ids come from the client and are not compared
\* with the group; when the settings cannot be read the plan is taken for free.
RequestMerge(r) ==
  /\ pc[r] = "none"
  /\ \E g \in Groups, c \in Customers : \E S \in SUBSET (Customers \ {c}) \ {{}} :
       /\ Exists(g) /\ group[g] # "merged"
       /\ \/ Dispatch(r, g, c, S, Plan, FALSE) /\ NoFault
          \/ Plan # "free" /\ Dispatch(r, g, c, S, "free", FALSE) /\ Fault
  /\ UNCHANGED <<rowVars, cached, absorbedBy, backupVars, scanVars, bulk, crashes, history>>

\* MergeHandler.SafeBulkMerge lists pending groups of the allowed risk levels,
\* up to a batch.  It is a pro feature, unless the settings cannot be read.
BulkList ==
  /\ bulk = {}
  /\ IF Plan = "pro" THEN NoFault ELSE Fault
  /\ \E S \in SUBSET {g \in Groups : group[g] = "pending"} :
       S # {} /\ bulk' = S
  /\ UNCHANGED <<rowVars, cached, absorbedBy, requestVars, backupVars, scanVars,
                 crashes, history>>

\* ... and dispatches a job for each, with the recommended primary and no plan,
\* which Execute takes for the free one.
BulkDispatch(r) ==
  /\ pc[r] = "none"
  /\ \E g \in bulk :
       /\ \E c \in members[g] : Dispatch(r, g, c, members[g] \ {c}, "free", TRUE)
       /\ bulk' = bulk \ {g}
  /\ UNCHANGED <<rowVars, cached, absorbedBy, backupVars, scanVars, faults, crashes, history>>

\* A group without a report, or whose dispatch fails, is skipped.
BulkSkip ==
  /\ \E g \in bulk : bulk' = bulk \ {g}
  /\ UNCHANGED <<rowVars, cached, absorbedBy, requestVars, backupVars, scanVars,
                 faults, crashes, history>>

\* The table has one row that is not merged per set of customers.
Unique(g, status) ==
  status # "merged" =>
    \A h \in Groups \ {g} : Exists(h) /\ members[h] = members[g] => group[h] = "merged"

\* Variant: without the unique index.
DismissAny(g) ==
  /\ Exists(g)
  /\ group' = [group EXCEPT ![g] = "dismissed"]
  /\ reopened' = IF group[g] = "merged" THEN reopened \cup {g} ELSE reopened
  /\ UNCHANGED <<members, confirmed, cached, absorbedBy, requestVars, backupVars,
                 scanVars, bulk, faults, crashes, unrecorded, winners>>

\* DuplicateHandler.Dismiss: an UPDATE that does not look at the status; it
\* fails when it would break the unique index.
Dismiss(g) ==
  /\ Exists(g) /\ Unique(g, "dismissed")
  /\ group' = [group EXCEPT ![g] = "dismissed"]
  /\ reopened' = IF group[g] = "merged" THEN reopened \cup {g} ELSE reopened
  /\ UNCHANGED <<members, confirmed, cached, absorbedBy, requestVars, backupVars,
                 scanVars, bulk, faults, crashes, unrecorded, winners>>

-----------------------------------------------------------------------------
\* Orchestrator.Execute, run by processMerge for one merge job.

Goto(r, p) == pc' = [pc EXCEPT ![r] = p]

\* The run returns an error and the worker counts it: the job is tried again
\* or given up.
Fail(r) ==
  /\ attempts' = [attempts EXCEPT ![r] = @ + 1]
  /\ Goto(r, IF attempts[r] + 1 >= MaxRetries THEN "failed" ELSE "queued")

\* Variant: a group that is not there is waited for.
BeginWaiting(r) ==
  /\ pc[r] = "queued"
  /\ Exists(payload[r].group)
  /\ run' = [run EXCEPT ![r] = @ + 1]
  /\ \/ /\ group[payload[r].group] # "merged"
        /\ Goto(r, "load") /\ UNCHANGED attempts
     \/ group[payload[r].group] = "merged" /\ Fail(r)
  /\ NoFault
  /\ UNCHANGED <<payload, primary, todo, rowVars, cached, absorbedBy, backupVars,
                 scanVars, bulk, crashes, history>>

\* The group is read and refused when it is merged already or not there.
Begin(r) ==
  /\ pc[r] = "queued"
  /\ run' = [run EXCEPT ![r] = @ + 1]
  /\ LET g == payload[r].group IN
     \/ /\ Exists(g) /\ group[g] # "merged"
        /\ Goto(r, "load") /\ UNCHANGED attempts /\ NoFault
     \/ /\ ~Exists(g) \/ group[g] = "merged"
        /\ Fail(r) /\ NoFault
     \/ Fail(r) /\ Fault
  /\ UNCHANGED <<payload, primary, todo, rowVars, cached, absorbedBy, backupVars,
                 scanVars, bulk, crashes, history>>

\* Variant: the run starts with the primary the last one ended with.
LoadKeepingPrimary(r) ==
  /\ pc[r] = "load"
  /\ Involved(r) \subseteq cached \ Subscribers
  /\ Goto(r, IF SnapshotsEnabled(payload[r].plan) THEN "snapshot" ELSE "execute")
  /\ todo' = [todo EXCEPT ![r] = payload[r].secondaries]
  /\ NoFault
  /\ UNCHANGED <<payload, attempts, run, primary, rowVars, cached, absorbedBy, backupVars,
                 scanVars, bulk, crashes, history>>

\* All customers must be cached and none may have a subscription.
LoadAndValidate(r) ==
  /\ pc[r] = "load"
  /\ \/ /\ Involved(r) \subseteq cached \ Subscribers
        /\ Goto(r, IF SnapshotsEnabled(payload[r].plan) THEN "snapshot" ELSE "execute")
        /\ primary' = [primary EXCEPT ![r] = payload[r].primary]
        /\ todo' = [todo EXCEPT ![r] = payload[r].secondaries]
        /\ UNCHANGED attempts /\ NoFault
     \/ /\ ~(Involved(r) \subseteq cached \ Subscribers)
        /\ Fail(r) /\ UNCHANGED <<primary, todo>> /\ NoFault
     \/ Fail(r) /\ UNCHANGED <<primary, todo>> /\ Fault
  /\ UNCHANGED <<payload, run, rowVars, cached, absorbedBy, backupVars, scanVars,
                 bulk, crashes, history>>

\* Variant: a failed snapshot is only logged.
SnapshotBestEffort(r) ==
  /\ pc[r] = "snapshot"
  /\ \/ snapshots' = snapshots \cup {ThisRun(r)} /\ NoFault
     \/ UNCHANGED snapshots /\ Fault
  /\ Goto(r, "execute")
  /\ UNCHANGED <<payload, attempts, run, primary, todo, records, linked, rowVars, cached,
                 absorbedBy, scanVars, bulk, crashes, history>>

CreateSnapshot(r) ==
  /\ pc[r] = "snapshot"
  /\ \/ /\ snapshots' = snapshots \cup {ThisRun(r)}
        /\ Goto(r, "execute") /\ UNCHANGED attempts /\ NoFault
     \/ Fail(r) /\ UNCHANGED snapshots /\ Fault
  /\ UNCHANGED <<payload, run, primary, todo, records, linked, rowVars, cached,
                 absorbedBy, scanVars, bulk, crashes, history>>

\* customerMerge of two customers: Shopify chooses which id survives.  It answers
\* with a job that may not be done (customer.go:264), which the code does not
\* look at: here the merge is complete when the call answers.
CustomerMerge(r, c, kept) ==
  /\ {primary[r], c} \subseteq Live
  /\ kept \in {primary[r], c}
  /\ LET lost == IF kept = c THEN primary[r] ELSE c
     IN  absorbedBy' = [absorbedBy EXCEPT ![lost] = ThisRun(r)]

\* Variant: a secondary that cannot be merged is skipped.
MergePairOrSkip(r) ==
  /\ pc[r] = "execute"
  /\ \E c \in todo[r] :
       /\ \/ \E kept \in Customers :
               CustomerMerge(r, c, kept) /\ primary' = [primary EXCEPT ![r] = kept]
          \/ ~({primary[r], c} \subseteq Live) /\ UNCHANGED <<primary, absorbedBy>>
       /\ todo' = [todo EXCEPT ![r] = @ \ {c}]
       /\ Goto(r, IF todo[r] = {c} THEN "record" ELSE "execute")
       /\ UNCHANGED attempts /\ NoFault
  /\ UNCHANGED <<payload, run, rowVars, cached, backupVars, scanVars, bulk, crashes,
                 history>>

\* Executor.Execute merges the secondaries one after the other; the survivor
\* is the primary of the next pair.  The client repeats a call it got no
\* answer to, and Shopify then refuses a customer it has merged away, so a
\* lost answer ends as an error although the merge was made.
MergePair(r) ==
  /\ pc[r] = "execute"
  /\ \E c \in todo[r] :
     \/ \E kept \in Customers :
          /\ CustomerMerge(r, c, kept)
          /\ primary' = [primary EXCEPT ![r] = kept]
          /\ todo' = [todo EXCEPT ![r] = @ \ {c}]
          /\ Goto(r, IF todo[r] = {c} THEN "record" ELSE "execute")
          /\ UNCHANGED attempts /\ NoFault
     \/ /\ \E kept \in Customers : CustomerMerge(r, c, kept)
        /\ Fail(r) /\ UNCHANGED <<primary, todo>> /\ Fault
     \/ /\ {primary[r], c} \subseteq Live
        /\ Fail(r) /\ UNCHANGED <<primary, todo, absorbedBy>> /\ Fault
     \/ /\ ~({primary[r], c} \subseteq Live)
        /\ Fail(r) /\ UNCHANGED <<primary, todo, absorbedBy>> /\ NoFault
  /\ UNCHANGED <<payload, run, rowVars, cached, backupVars, scanVars, bulk, crashes,
                 history>>

\* Variant: only a merge with a snapshot is recorded.
CreateRecordOfSnapshot(r) ==
  /\ pc[r] = "record"
  /\ IF SnapshotId(r) # None
     THEN /\ records' = records \cup {[run |-> ThisRun(r), snapshot |-> SnapshotId(r)]}
          /\ Goto(r, "link")
     ELSE UNCHANGED records /\ Goto(r, "transition")
  /\ NoFault
  /\ UNCHANGED <<payload, attempts, run, primary, todo, snapshots, linked, rowVars,
                 cached, absorbedBy, scanVars, bulk, crashes, history>>

\* The audit record; when it cannot be written that is logged.
CreateRecord(r) ==
  /\ pc[r] = "record"
  /\ \/ /\ records' = records \cup {[run |-> ThisRun(r), snapshot |-> SnapshotId(r)]}
        /\ Goto(r, IF SnapshotId(r) # None THEN "link" ELSE "transition")
        /\ UNCHANGED unrecorded /\ NoFault
     \/ /\ Goto(r, "transition")
        /\ unrecorded' = unrecorded \cup {ThisRun(r)}
        /\ UNCHANGED records /\ Fault
  /\ UNCHANGED <<payload, attempts, run, primary, todo, snapshots, linked, rowVars,
                 cached, absorbedBy, scanVars, bulk, crashes, winners, reopened>>

\* LinkToMergeRecord; a failure is logged.
LinkSnapshot(r) ==
  /\ pc[r] = "link"
  /\ \/ linked' = linked \cup {ThisRun(r)} /\ NoFault
     \/ UNCHANGED linked /\ Fault
  /\ Goto(r, "transition")
  /\ UNCHANGED <<payload, attempts, run, primary, todo, snapshots, records, rowVars,
                 cached, absorbedBy, scanVars, bulk, crashes, history>>

\* Variant: UpdateStatus(id, "merged"), which does not look at the status.
TransitionBlindly(r) ==
  /\ pc[r] = "transition"
  /\ LET g == payload[r].group IN
     /\ group' = IF Exists(g) THEN [group EXCEPT ![g] = "merged"] ELSE group
     /\ winners' = [winners EXCEPT ![g] = @ \cup {ThisRun(r)}]
  /\ Goto(r, "confirm") /\ NoFault
  /\ UNCHANGED <<attempts, payload, run, primary, todo, members, confirmed, cached, absorbedBy,
                 backupVars, scanVars, bulk, crashes, unrecorded, reopened>>

\* TryTransitionToMerged: one UPDATE for rows that are not merged.  No row
\* updated, because it was merged or because it is gone, is ErrAlreadyMerged.
Transition(r) ==
  /\ pc[r] = "transition"
  /\ LET g == payload[r].group IN
     \/ /\ Exists(g) /\ group[g] # "merged"
        /\ group' = [group EXCEPT ![g] = "merged"]
        /\ winners' = [winners EXCEPT ![g] = @ \cup {ThisRun(r)}]
        /\ Goto(r, "confirm") /\ UNCHANGED attempts /\ NoFault
     \/ /\ ~Exists(g) \/ group[g] = "merged"
        /\ Fail(r) /\ UNCHANGED <<group, winners>> /\ NoFault
     \/ Fail(r) /\ UNCHANGED <<group, winners>> /\ Fault
  /\ UNCHANGED <<payload, run, primary, todo, members, confirmed, cached, absorbedBy,
                 backupVars, scanVars, bulk, crashes, unrecorded, reopened>>

\* MarkConfirmedByUser: true unless the job came from SafeBulkMerge.
Confirm(r) ==
  /\ pc[r] = "confirm"
  /\ LET g == payload[r].group IN
     \/ /\ confirmed' = IF ~Exists(g) \/ payload[r].bulk THEN confirmed \ {g}
                        ELSE confirmed \cup {g}
        /\ NoFault
     \/ UNCHANGED confirmed /\ Fault
  /\ Goto(r, "done")
  /\ UNCHANGED <<payload, attempts, run, primary, todo, group, members, cached,
                 absorbedBy, backupVars, scanVars, bulk, crashes, history>>

RunStep(r) ==
  \/ Begin(r) \/ LoadAndValidate(r) \/ CreateSnapshot(r) \/ MergePair(r)
  \/ CreateRecord(r) \/ LinkSnapshot(r) \/ Transition(r) \/ Confirm(r)

-----------------------------------------------------------------------------
\* Detector.RunDetection.  The debounce of Dispatch counts queued jobs only, so
\* two detections of a shop may run at once.

Clusters(S) == {P \cap S : P \in {Q \in Persons : Cardinality(Q \cap S) >= 2}}

DetectLoad(d) ==
  /\ scan[d] = "queued"
  /\ Cardinality(cached) >= 2
  /\ loaded' = [loaded EXCEPT ![d] = cached]
  /\ scan' = [scan EXCEPT ![d] = "clear"]
  /\ UNCHANGED <<found, rowVars, cached, absorbedBy, requestVars, backupVars, bulk,
                 faults, crashes, history>>

\* DeletePendingByMerchant; its failure is logged.
DetectClear(d) ==
  /\ scan[d] = "clear"
  /\ \/ /\ group' = [g \in Groups |-> IF group[g] = "pending" THEN "gone" ELSE group[g]]
        /\ confirmed' = {g \in confirmed : group[g] # "pending"}
        /\ NoFault
     \/ UNCHANGED <<group, confirmed>> /\ Fault
  /\ found' = [found EXCEPT ![d] = Clusters(loaded[d])]
  /\ loaded' = [loaded EXCEPT ![d] = {}]
  /\ scan' = [scan EXCEPT ![d] = "create"]
  /\ UNCHANGED <<members, cached, absorbedBy, requestVars, backupVars,
                 bulk, crashes, history>>

\* CreateGroup: INSERT ... ON CONFLICT (hash) WHERE status # 'merged' DO
\* UPDATE, which keeps the status of the row there is.
CreateGroup(S) ==
  LET there == {g \in Groups : Exists(g) /\ members[g] = S /\ group[g] # "merged"}
  IN  \/ there # {} /\ UNCHANGED <<group, members>>
      \/ /\ there = {}
         /\ \E g \in Groups :
              /\ group[g] = "absent"
              /\ group' = [group EXCEPT ![g] = "pending"]
              /\ members' = [members EXCEPT ![g] = S]

DetectCreate(d) ==
  /\ scan[d] = "create"
  /\ \E S \in found[d] :
       /\ \/ CreateGroup(S) /\ NoFault
          \/ UNCHANGED <<group, members>> /\ Fault
       /\ found' = [found EXCEPT ![d] = @ \ {S}]
  /\ UNCHANGED <<scan, loaded, confirmed, cached, absorbedBy, requestVars,
                 backupVars, bulk, crashes, history>>

DetectEnd(d) ==
  /\ scan[d] = "create" /\ found[d] = {}
  /\ scan' = [scan EXCEPT ![d] = "done"]
  /\ UNCHANGED <<loaded, found, rowVars, cached, absorbedBy, requestVars, backupVars,
                 bulk, faults, crashes, history>>

DetectStep(d) == DetectLoad(d) \/ DetectClear(d) \/ DetectCreate(d) \/ DetectEnd(d)

-----------------------------------------------------------------------------
\* The environment.

\* The customers/delete webhook for a customer that Shopify merged away, or
\* the next sync: nothing in processMerge removes it from the cache.
ForgetCustomer(c) ==
  /\ c \in cached \ Live
  /\ cached' = cached \ {c}
  /\ UNCHANGED <<rowVars, absorbedBy, requestVars, backupVars, scanVars, bulk, faults,
                 crashes, history>>

\* The process dies.  The recovery sweep hands the interrupted jobs out again,
\* from the start; a bulk request is cut short.
Crash ==
  /\ crashes < MaxCrashes
  /\ crashes' = crashes + 1
  /\ pc' = [r \in Requests |-> IF pc[r] \in Running THEN "queued" ELSE pc[r]]
  /\ scan' = [d \in Detections |-> IF scan[d] = "done" THEN "done" ELSE "queued"]
  /\ loaded' = [d \in Detections |-> {}]
  /\ found' = [d \in Detections |-> {}]
  /\ bulk' = {}
  /\ UNCHANGED <<payload, attempts, run, primary, todo, rowVars, cached, absorbedBy,
                 backupVars, faults, history>>

-----------------------------------------------------------------------------
Init ==
  /\ group = [g \in Groups |-> "absent"] /\ members = [g \in Groups |-> {}]
  /\ confirmed = {} /\ cached = Customers
  /\ absorbedBy = [c \in Customers |-> None]
  /\ payload = [r \in Requests |-> None] /\ pc = [r \in Requests |-> "none"]
  /\ attempts = [r \in Requests |-> 0] /\ run = [r \in Requests |-> 0]
  /\ primary = [r \in Requests |-> None]
  /\ todo = [r \in Requests |-> {}]
  /\ snapshots = {} /\ records = {} /\ linked = {}
  /\ scan = [d \in Detections |-> "queued"]
  /\ loaded = [d \in Detections |-> {}] /\ found = [d \in Detections |-> {}]
  /\ bulk = {} /\ faults = 0 /\ crashes = 0
  /\ unrecorded = {} /\ winners = [g \in Groups |-> {}] /\ reopened = {}

Next ==
  \/ \E r \in Requests : RequestMerge(r) \/ BulkDispatch(r) \/ RunStep(r)
  \/ BulkList \/ BulkSkip
  \/ \E g \in Groups : Dismiss(g)
  \/ \E d \in Detections : DetectStep(d)
  \/ \E c \in Customers : ForgetCustomer(c)
  \/ Crash

Spec == Init /\ [][Next]_vars

\* A merge job that is queued or running goes on (JobQueue), and so does a
\* detection.
Fairness ==
  /\ \A r \in Requests : WF_vars(RunStep(r))
  /\ \A d \in Detections : WF_vars(DetectStep(d))

FairSpec == Spec /\ Fairness

-----------------------------------------------------------------------------
\* Properties.

Payloads ==
  [group : Groups, primary : Customers, secondaries : SUBSET Customers,
   plan : {"free", "basic", "pro"}, bulk : BOOLEAN]

\* Every variable stays within its type, and a job that was dispatched has a
\* payload.
TypeOK ==
  /\ group \in [Groups -> {"absent", "gone", "pending", "dismissed", "merged"}]
  /\ members \in [Groups -> SUBSET Customers]
  /\ confirmed \subseteq Groups /\ cached \subseteq Customers
  /\ absorbedBy \in [Customers -> Runs \cup {None}]
  /\ payload \in [Requests -> Payloads \cup {None}]
  /\ pc \in [Requests -> PC]
  /\ \A r \in Requests : pc[r] # "none" => payload[r] \in Payloads
  /\ \A r \in Requests : pc[r] \in {"snapshot", "execute"} => primary[r] \in Customers
  /\ attempts \in [Requests -> Nat] /\ run \in [Requests -> Nat]
  /\ primary \in [Requests -> Customers \cup {None}]
  /\ todo \in [Requests -> SUBSET Customers]
  /\ snapshots \subseteq Runs /\ linked \subseteq Runs
  /\ records \subseteq [run : Runs, snapshot : Runs \cup {None}]
  /\ scan \in [Detections -> {"queued", "clear", "create", "done"}]
  /\ loaded \in [Detections -> SUBSET Customers]
  /\ found \in [Detections -> SUBSET SUBSET Customers]
  /\ bulk \subseteq Groups
  /\ faults \in Nat /\ crashes \in Nat
  /\ unrecorded \subseteq Runs /\ reopened \subseteq Groups
  /\ winners \in [Groups -> SUBSET Runs]

\* A customer merged away by a job whose plan includes snapshots is in a
\* snapshot of that very run, however often the job was tried, crashed or lost
\* answers: "snapshot MUST happen before any mutation" (orchestrator.go:161).
PaidMergesAreBackedUp ==
  \A c \in Customers :
    absorbedBy[c] # None /\ SnapshotsEnabled(payload[absorbedBy[c][1]].plan) =>
      absorbedBy[c] \in snapshots

\* The audit log tells the truth: of the customers of a merge record Shopify
\* has one at most, although runs over the same customers race and a run may
\* stop after some pairs (Executor.Execute, mergeRepo.Create).
RecordsAreTrue ==
  \A rec \in records : Cardinality(Involved(rec.run[1]) \cap Live) <= 1

\* A group is merged only by a run that did all its merges and whose audit
\* record exists, unless writing the record failed (Execute, steps 4 to 6).
MergedGroupsAreAudited ==
  \A g \in Groups : group[g] = "merged" =>
    \E w \in winners[g] :
      /\ Cardinality(Involved(w[1]) \cap Live) <= 1
      /\ w \in unrecorded \/ \E rec \in records : rec.run = w

\* Of the jobs that race for a group one claims it, unless the merchant
\* dismisses the merged group (TryTransitionToMerged).
OneWinner ==
  \A g \in Groups : g \notin reopened => Cardinality(winners[g]) <= 1

\* A set of customers has one row that is not merged, whatever detections,
\* merges and dismissals do (CreateGroup, DismissGroup and the unique index).
OneOpenGroupPerSet ==
  \A g, h \in Groups :
    g # h /\ Exists(g) /\ Exists(h) /\ members[g] = members[h] =>
      "merged" \in {group[g], group[h]}

\* A merge job ends, also when its group is deleted or merged under it
\* (Execute, processJob).
RequestsSettle ==
  \A r \in Requests : pc[r] = "queued" ~> pc[r] \in {"done", "failed"}

=============================================================================
