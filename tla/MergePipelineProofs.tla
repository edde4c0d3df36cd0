------------------------- MODULE MergePipelineProofs -------------------------
(***************************************************************************)
(* Proofs about MergePipeline, for any customers, persons, groups, jobs,   *)
(* detections and bounds.                                                  *)
(***************************************************************************)
EXTENDS MergePipeline, FiniteSetTheorems, TLAPS

-----------------------------------------------------------------------------
\* Type correctness.

\* The part of TypeOK about where jobs stand.
JobsTyped ==
  /\ payload \in [Requests -> Payloads \cup {None}]
  /\ pc \in [Requests -> PC]
  /\ \A r \in Requests : pc[r] # "none" => payload[r] \in Payloads
  /\ \A r \in Requests : pc[r] \in {"snapshot", "execute"} => primary[r] \in Customers
  /\ attempts \in [Requests -> Nat]

\* Dispatching a job, moving it on and counting a failed run keep it typed.
LEMMA DispatchTyped ==
  ASSUME TypeOK, NEW r \in Requests, NEW x \in Payloads,
         payload' = [payload EXCEPT ![r] = x],
         pc' = [pc EXCEPT ![r] = "queued"],
         UNCHANGED <<attempts, primary>>
  PROVE  JobsTyped'
  BY DEF TypeOK, JobsTyped, PC

LEMMA GotoTyped ==
  ASSUME TypeOK, NEW r \in Requests, NEW p \in PC \ {"none", "snapshot", "execute"},
         Goto(r, p), payload[r] \in Payloads, UNCHANGED <<payload, primary, attempts>>
  PROVE  JobsTyped'
  BY DEF TypeOK, JobsTyped, Goto

LEMMA FailTyped ==
  ASSUME TypeOK, NEW r \in Requests, Fail(r),
         payload[r] \in Payloads, UNCHANGED <<payload, primary>>
  PROVE  JobsTyped'
<1>1. attempts' \in [Requests -> Nat]
  BY DEF TypeOK, Fail
<1>2. PICK p \in {"failed", "queued"} : pc' = [pc EXCEPT ![r] = p]
  BY DEF Fail, Goto
<1> QED
  BY <1>1, <1>2 DEF TypeOK, JobsTyped, PC

LEMMA FaultTyped ==
  ASSUME TypeOK, Fault \/ NoFault
  PROVE  faults' \in Nat
  BY DEF TypeOK, Fault, NoFault

\* Every reachable state is well typed: in particular a dispatched job has a
\* payload and a run that merges has a primary customer.
THEOREM TypeCorrect == Spec => []TypeOK
<1> USE MergePipelineAssumption
<1>1. Init => TypeOK
  BY DEF Init, TypeOK, PC, MergePipelineAssumption
<1>2. TypeOK /\ [Next]_vars => TypeOK'
  <2> SUFFICES ASSUME TypeOK, [Next]_vars PROVE TypeOK'
    OBVIOUS
  <2> USE DEF rowVars, requestVars, backupVars, scanVars, history
  <2>1. ASSUME NEW r \in Requests, RequestMerge(r) PROVE TypeOK'
    <3>1. PICK g \in Groups, c \in Customers : \E S \in SUBSET (Customers \ {c}) \ {{}} :
            Dispatch(r, g, c, S, Plan, FALSE) \/ Dispatch(r, g, c, S, "free", FALSE)
      BY <2>1 DEF RequestMerge
    <3>2. PICK S \in SUBSET Customers :
            Dispatch(r, g, c, S, Plan, FALSE) \/ Dispatch(r, g, c, S, "free", FALSE)
      BY <3>1
    <3>3. PICK plan \in {"free", "basic", "pro"} : Dispatch(r, g, c, S, plan, FALSE)
      BY <3>2 DEF MergePipelineAssumption
    <3>4. JobsTyped' /\ UNCHANGED <<run, primary, todo>>
      <4> DEFINE x == [group |-> g, primary |-> c, secondaries |-> S, plan |-> plan,
                       bulk |-> FALSE]
      <4>1. x \in Payloads
        BY DEF Payloads
      <4>2. /\ payload' = [payload EXCEPT ![r] = x]
            /\ pc' = [pc EXCEPT ![r] = "queued"]
            /\ UNCHANGED <<attempts, run, primary, todo>>
        BY <3>3 DEF Dispatch
      <4> HIDE DEF x
      <4> QED
        BY <4>1, <4>2, DispatchTyped
    <3>5. faults' \in Nat
      BY <2>1, FaultTyped DEF RequestMerge
    <3>6. UNCHANGED <<rowVars, cached, absorbedBy, backupVars, scanVars, bulk, crashes, history>>
      BY <2>1 DEF RequestMerge
    <3> QED
      BY <3>4, <3>5, <3>6 DEF TypeOK, JobsTyped
  <2>2. ASSUME NEW r \in Requests, BulkDispatch(r) PROVE TypeOK'
    <3>0. PICK g \in bulk : \E c \in members[g] :
            Dispatch(r, g, c, members[g] \ {c}, "free", TRUE)
      BY <2>2 DEF BulkDispatch
    <3>1. PICK c \in members[g] : Dispatch(r, g, c, members[g] \ {c}, "free", TRUE)
      BY <3>0
    <3>2. g \in Groups /\ c \in Customers /\ members[g] \ {c} \in SUBSET Customers
      BY <3>1 DEF TypeOK
    <3>3. bulk' \subseteq Groups
      BY <2>2 DEF BulkDispatch, TypeOK
    <3>4. JobsTyped' /\ UNCHANGED <<run, primary, todo>>
      <4> DEFINE x == [group |-> g, primary |-> c, secondaries |-> members[g] \ {c},
                       plan |-> "free", bulk |-> TRUE]
      <4>1. x \in Payloads
        BY <3>2 DEF Payloads
      <4>2. /\ payload' = [payload EXCEPT ![r] = x]
            /\ pc' = [pc EXCEPT ![r] = "queued"]
            /\ UNCHANGED <<attempts, run, primary, todo>>
        BY <3>1 DEF Dispatch
      <4> HIDE DEF x
      <4> QED
        BY <4>1, <4>2, DispatchTyped
    <3>5. UNCHANGED <<rowVars, cached, absorbedBy, backupVars, scanVars, faults, crashes, history>>
      BY <2>2 DEF BulkDispatch
    <3> QED
      BY <3>3, <3>4, <3>5 DEF TypeOK, JobsTyped
  <2>3. CASE BulkList \/ BulkSkip
    <3>1. faults' \in Nat
      BY <2>3, FaultTyped DEF BulkList, BulkSkip, NoFault
    <3>2. bulk' \subseteq Groups
      BY <2>3 DEF BulkList, BulkSkip, TypeOK
    <3> QED
      BY <2>3, <3>1, <3>2 DEF BulkList, BulkSkip, TypeOK
  <2>4. ASSUME NEW g \in Groups, Dismiss(g) PROVE TypeOK'
    BY <2>4 DEF Dismiss, TypeOK
  <2>5. ASSUME NEW r \in Requests, RunStep(r) PROVE TypeOK'
    <3>1. CASE Begin(r)
      <4>1. payload[r] \in Payloads
        BY <3>1 DEF Begin, TypeOK
      <4>2. faults' \in Nat
        BY <3>1, FaultTyped DEF Begin
      <4>3. run' \in [Requests -> Nat]
        BY <3>1 DEF Begin, TypeOK
      <4>4. Fail(r) \/ (Goto(r, "load") /\ UNCHANGED attempts)
        BY <3>1 DEF Begin
      <4>5. UNCHANGED <<payload, primary, todo, rowVars, cached, absorbedBy, backupVars,
                        scanVars, bulk, crashes, history>>
        BY <3>1 DEF Begin
      <4> QED
        BY <4>1, <4>2, <4>3, <4>4, <4>5, FailTyped, GotoTyped DEF TypeOK, JobsTyped, PC
    <3>2. CASE LoadAndValidate(r)
      <4>1. payload[r] \in Payloads
        BY <3>2 DEF LoadAndValidate, TypeOK
      <4>2. faults' \in Nat
        BY <3>2, FaultTyped DEF LoadAndValidate
      <4>3. UNCHANGED <<payload, run, rowVars, cached, absorbedBy, backupVars, scanVars,
                        bulk, crashes, history>>
        BY <3>2 DEF LoadAndValidate
      <4>4. CASE Fail(r) /\ UNCHANGED <<primary, todo>>
        BY <4>1, <4>2, <4>3, <4>4, FailTyped DEF TypeOK, JobsTyped
      <4>5. CASE /\ primary' = [primary EXCEPT ![r] = payload[r].primary]
                 /\ todo' = [todo EXCEPT ![r] = payload[r].secondaries]
                 /\ Goto(r, IF SnapshotsEnabled(payload[r].plan) THEN "snapshot" ELSE "execute")
                 /\ UNCHANGED attempts
        BY <4>1, <4>2, <4>3, <4>5 DEF TypeOK, Payloads, Goto, PC
      <4> QED
        BY <3>2, <4>4, <4>5 DEF LoadAndValidate
    <3>3. CASE CreateSnapshot(r)
      <4>1. faults' \in Nat
        BY <3>3, FaultTyped DEF CreateSnapshot
      <4>2. payload[r] \in Payloads
        BY <3>3 DEF CreateSnapshot, TypeOK
      <4>3. UNCHANGED <<payload, run, primary, todo, records, linked, rowVars, cached,
                        absorbedBy, scanVars, bulk, crashes, history>>
        BY <3>3 DEF CreateSnapshot
      <4>4. CASE Fail(r) /\ UNCHANGED snapshots
        BY <4>1, <4>2, <4>3, <4>4, FailTyped DEF TypeOK, JobsTyped
      <4>5. CASE /\ snapshots' = snapshots \cup {ThisRun(r)}
                 /\ Goto(r, "execute") /\ UNCHANGED attempts
        <5>1. primary[r] \in Customers
          BY <3>3 DEF CreateSnapshot, TypeOK
        <5> QED
          BY <4>1, <4>2, <4>3, <4>5, <5>1 DEF TypeOK, Goto, PC, Runs, ThisRun
      <4> QED
        BY <3>3, <4>4, <4>5 DEF CreateSnapshot
    <3>4. CASE MergePair(r)
      <4>1. faults' \in Nat
        BY <3>4, FaultTyped DEF MergePair
      <4>2. payload[r] \in Payloads
        BY <3>4 DEF MergePair, TypeOK
      <4>3. UNCHANGED <<payload, run, rowVars, cached, backupVars, scanVars, bulk, crashes,
                        history>>
        BY <3>4 DEF MergePair
      <4>4. PICK c \in todo[r] :
              \/ \E kept \in Customers :
                   /\ CustomerMerge(r, c, kept)
                   /\ primary' = [primary EXCEPT ![r] = kept]
                   /\ todo' = [todo EXCEPT ![r] = @ \ {c}]
                   /\ Goto(r, IF todo[r] = {c} THEN "record" ELSE "execute")
                   /\ UNCHANGED attempts
              \/ /\ Fail(r) /\ UNCHANGED <<primary, todo>>
                 /\ absorbedBy' = absorbedBy \/ \E kept \in Customers : CustomerMerge(r, c, kept)
        BY <3>4 DEF MergePair
      <4>5. ASSUME NEW kept \in Customers, CustomerMerge(r, c, kept)
            PROVE  absorbedBy' \in [Customers -> Runs \cup {None}]
        <5>1. PICK lost : absorbedBy' = [absorbedBy EXCEPT ![lost] = ThisRun(r)]
          BY <4>5 DEF CustomerMerge
        <5>2. ThisRun(r) \in Runs
          BY DEF TypeOK, Runs, ThisRun
        <5> QED
          BY <5>1, <5>2 DEF TypeOK
      <4>6. absorbedBy' \in [Customers -> Runs \cup {None}]
        BY <4>4, <4>5 DEF TypeOK
      <4>7. CASE Fail(r) /\ UNCHANGED <<primary, todo>>
        BY <4>1, <4>2, <4>3, <4>6, <4>7, FailTyped DEF TypeOK, JobsTyped
      <4>8. ASSUME NEW kept \in Customers,
                   primary' = [primary EXCEPT ![r] = kept],
                   todo' = [todo EXCEPT ![r] = @ \ {c}],
                   Goto(r, IF todo[r] = {c} THEN "record" ELSE "execute"),
                   UNCHANGED attempts
            PROVE  TypeOK'
        BY <4>1, <4>2, <4>3, <4>6, <4>8 DEF TypeOK, Goto, PC
      <4> QED
        BY <4>4, <4>7, <4>8
    <3>5. CASE CreateRecord(r)
      <4>1. faults' \in Nat
        BY <3>5, FaultTyped DEF CreateRecord
      <4>2. payload[r] \in Payloads
        BY <3>5 DEF CreateRecord, TypeOK
      <4>3. ThisRun(r) \in Runs /\ SnapshotId(r) \in Runs \cup {None}
        BY DEF TypeOK, Runs, ThisRun, SnapshotId
      <4>4. \E p \in {"link", "transition"} : Goto(r, p)
        BY <3>5 DEF CreateRecord
      <4>5. /\ records' \subseteq [run : Runs, snapshot : Runs \cup {None}]
            /\ unrecorded' \subseteq Runs
        BY <3>5, <4>3 DEF CreateRecord, TypeOK
      <4>6. UNCHANGED <<payload, attempts, run, primary, todo, snapshots, linked, rowVars,
                        cached, absorbedBy, scanVars, bulk, crashes, winners, reopened>>
        BY <3>5 DEF CreateRecord
      <4> QED
        BY <4>1, <4>2, <4>4, <4>5, <4>6, GotoTyped DEF TypeOK, JobsTyped, PC
    <3>6. CASE LinkSnapshot(r)
      <4>1. faults' \in Nat
        BY <3>6, FaultTyped DEF LinkSnapshot
      <4>2. payload[r] \in Payloads /\ ThisRun(r) \in Runs
        BY <3>6 DEF LinkSnapshot, TypeOK, Runs, ThisRun
      <4>3. linked' \subseteq Runs /\ Goto(r, "transition")
        BY <3>6, <4>2 DEF LinkSnapshot, TypeOK
      <4>4. UNCHANGED <<payload, attempts, run, primary, todo, snapshots, records, rowVars,
                        cached, absorbedBy, scanVars, bulk, crashes, history>>
        BY <3>6 DEF LinkSnapshot
      <4> QED
        BY <4>1, <4>2, <4>3, <4>4, GotoTyped DEF TypeOK, JobsTyped, PC
    <3>7. CASE Transition(r)
      <4>1. faults' \in Nat
        BY <3>7, FaultTyped DEF Transition
      <4>2. payload[r] \in Payloads /\ ThisRun(r) \in Runs
        BY <3>7 DEF Transition, TypeOK, Runs, ThisRun
      <4>3. /\ group' \in [Groups -> {"absent", "gone", "pending", "dismissed", "merged"}]
            /\ winners' \in [Groups -> SUBSET Runs]
        BY <3>7, <4>2 DEF Transition, TypeOK
      <4>4. Fail(r) \/ (Goto(r, "confirm") /\ UNCHANGED attempts)
        BY <3>7 DEF Transition
      <4>5. UNCHANGED <<payload, run, primary, todo, members, confirmed, cached, absorbedBy,
                        backupVars, scanVars, bulk, crashes, unrecorded, reopened>>
        BY <3>7 DEF Transition
      <4> QED
        BY <4>1, <4>2, <4>3, <4>4, <4>5, FailTyped, GotoTyped DEF TypeOK, JobsTyped, PC
    <3>8. CASE Confirm(r)
      <4>1. faults' \in Nat
        BY <3>8, FaultTyped DEF Confirm
      <4>2. payload[r] \in Payloads
        BY <3>8 DEF Confirm, TypeOK
      <4>3. confirmed' \subseteq Groups /\ Goto(r, "done")
        BY <3>8, <4>2 DEF Confirm, TypeOK, Payloads
      <4>4. UNCHANGED <<payload, attempts, run, primary, todo, group, members, cached,
                        absorbedBy, backupVars, scanVars, bulk, crashes, history>>
        BY <3>8 DEF Confirm
      <4> QED
        BY <4>1, <4>2, <4>3, <4>4, GotoTyped DEF TypeOK, JobsTyped, PC
    <3> QED
      BY <2>5, <3>1, <3>2, <3>3, <3>4, <3>5, <3>6, <3>7, <3>8 DEF RunStep
  <2>6. ASSUME NEW d \in Detections, DetectStep(d) PROVE TypeOK'
    <3>1. CASE DetectLoad(d)
      BY <3>1 DEF DetectLoad, TypeOK
    <3>2. CASE DetectClear(d)
      <4>1. faults' \in Nat
        BY <3>2, FaultTyped DEF DetectClear
      <4>2. /\ group' \in [Groups -> {"absent", "gone", "pending", "dismissed", "merged"}]
            /\ confirmed' \subseteq Groups
        BY <3>2 DEF DetectClear, TypeOK
      <4>3. \A X \in Clusters(loaded[d]) : X \subseteq Customers
        <5>1. loaded[d] \subseteq Customers
          BY DEF TypeOK
        <5>2. \A X \in Clusters(loaded[d]) : \E P \in Persons : X = P \cap loaded[d]
          BY DEF Clusters
        <5> QED
          BY <5>1, <5>2
      <4> QED
        BY <3>2, <4>1, <4>2, <4>3 DEF DetectClear, TypeOK
    <3>3. CASE DetectCreate(d)
      <4>1. faults' \in Nat
        BY <3>3, FaultTyped DEF DetectCreate
      <4>2. PICK S \in found[d] :
              /\ CreateGroup(S) \/ UNCHANGED <<group, members>>
              /\ found' = [found EXCEPT ![d] = @ \ {S}]
        BY <3>3 DEF DetectCreate
      <4>3. /\ group' \in [Groups -> {"absent", "gone", "pending", "dismissed", "merged"}]
            /\ members' \in [Groups -> SUBSET Customers]
        BY <4>2 DEF CreateGroup, TypeOK
      <4>4. found' \in [Detections -> SUBSET SUBSET Customers]
        BY <4>2 DEF TypeOK
      <4> QED
        BY <3>3, <4>1, <4>3, <4>4 DEF DetectCreate, TypeOK
    <3>4. CASE DetectEnd(d)
      BY <3>4 DEF DetectEnd, TypeOK
    <3> QED
      BY <2>6, <3>1, <3>2, <3>3, <3>4 DEF DetectStep
  <2>7. ASSUME NEW c \in Customers, ForgetCustomer(c) PROVE TypeOK'
    BY <2>7 DEF ForgetCustomer, TypeOK
  <2>8. CASE Crash
    BY <2>8 DEF Crash, TypeOK, PC, Running
  <2>9. CASE UNCHANGED vars
    BY <2>9 DEF vars, TypeOK
  <2> QED
    BY <2>1, <2>2, <2>3, <2>4, <2>5, <2>6, <2>7, <2>8, <2>9 DEF Next
<1> QED
  BY <1>1, <1>2, PTL DEF Spec

-----------------------------------------------------------------------------
\* What steps leave alone.

\* A run of one job does not move the other jobs.
LEMMA RunIsLocal ==
  ASSUME TypeOK, NEW r \in Requests, RunStep(r)
  PROVE  /\ payload' = payload
         /\ pc[r] # "none" /\ pc'[r] # "none"
         /\ \A q \in Requests \ {r} :
              /\ pc'[q] = pc[q] /\ run'[q] = run[q]
              /\ primary'[q] = primary[q] /\ todo'[q] = todo[q]
<1> USE DEF Goto, Fail, TypeOK
<1>1. CASE Begin(r)
  BY <1>1 DEF Begin
<1>2. CASE LoadAndValidate(r)
  BY <1>2 DEF LoadAndValidate
<1>3. CASE CreateSnapshot(r)
  BY <1>3 DEF CreateSnapshot
<1>4. CASE MergePair(r)
  BY <1>4 DEF MergePair
<1>5. CASE CreateRecord(r)
  BY <1>5 DEF CreateRecord
<1>6. CASE LinkSnapshot(r)
  BY <1>6 DEF LinkSnapshot
<1>7. CASE Transition(r)
  BY <1>7 DEF Transition
<1>8. CASE Confirm(r)
  BY <1>8 DEF Confirm
<1> QED
  BY <1>1, <1>2, <1>3, <1>4, <1>5, <1>6, <1>7, <1>8 DEF RunStep

\* Only a pairwise merge takes a customer away, and none comes back.
LEMMA RunAbsorbs ==
  ASSUME TypeOK, NEW r \in Requests, RunStep(r)
  PROVE  /\ \A c \in Customers : absorbedBy[c] # None => absorbedBy'[c] = absorbedBy[c]
         /\ \A c \in Customers : absorbedBy'[c] # absorbedBy[c] =>
              pc[r] = "execute" /\ absorbedBy'[c] = ThisRun(r)
         /\ snapshots \subseteq snapshots'
<1> USE DEF backupVars
<1>1. CASE Begin(r)
  BY <1>1 DEF Begin
<1>2. CASE LoadAndValidate(r)
  BY <1>2 DEF LoadAndValidate
<1>3. CASE CreateSnapshot(r)
  BY <1>3 DEF CreateSnapshot
<1>4. CASE MergePair(r)
  <2>1. CASE UNCHANGED absorbedBy
    BY <1>4, <2>1 DEF MergePair
  <2>2. CASE \E c, kept \in Customers : CustomerMerge(r, c, kept)
    <3>1. PICK lost \in Live : absorbedBy' = [absorbedBy EXCEPT ![lost] = ThisRun(r)]
      BY <2>2 DEF CustomerMerge
    <3> QED
      BY <1>4, <3>1 DEF MergePair, Live, TypeOK
  <2> QED
    BY <1>4, <2>1, <2>2 DEF MergePair, TypeOK
<1>5. CASE CreateRecord(r)
  BY <1>5 DEF CreateRecord
<1>6. CASE LinkSnapshot(r)
  BY <1>6 DEF LinkSnapshot
<1>7. CASE Transition(r)
  BY <1>7 DEF Transition
<1>8. CASE Confirm(r)
  BY <1>8 DEF Confirm
<1> QED
  BY <1>1, <1>2, <1>3, <1>4, <1>5, <1>6, <1>7, <1>8 DEF RunStep

\* Every other step leaves Shopify, the snapshots and the dispatched jobs alone,
\* except that a crash queues the jobs that run.
LEMMA OthersFramed ==
  ASSUME TypeOK, [Next]_vars, ~ \E r \in Requests : RunStep(r)
  PROVE  /\ UNCHANGED <<absorbedBy, snapshots, records, run, primary, todo>>
         /\ \A q \in Requests : pc[q] # "none" =>
              payload'[q] = payload[q] /\ pc'[q] \in {pc[q], "queued"}
         /\ \A q \in Requests : pc[q] = "none" => pc'[q] \in {"none", "queued"}
<1> USE DEF rowVars, requestVars, backupVars, scanVars, history
<1>1. ASSUME NEW r \in Requests, RequestMerge(r) \/ BulkDispatch(r)
      PROVE  /\ UNCHANGED <<absorbedBy, snapshots, records, run, primary, todo>>
             /\ pc[r] = "none"
             /\ \E x : payload' = [payload EXCEPT ![r] = x]
             /\ pc' = [pc EXCEPT ![r] = "queued"]
  BY <1>1 DEF RequestMerge, BulkDispatch, Dispatch
<1>2. CASE BulkList \/ BulkSkip \/ UNCHANGED vars \/ \E g \in Groups : Dismiss(g)
  BY <1>2 DEF BulkList, BulkSkip, Dismiss, vars
<1>3. CASE \E c \in Customers : ForgetCustomer(c)
  BY <1>3 DEF ForgetCustomer
<1>4. CASE \E d \in Detections : DetectStep(d)
  BY <1>4 DEF DetectStep, DetectLoad, DetectClear, DetectCreate, DetectEnd
<1>5. CASE Crash
  BY <1>5 DEF Crash, TypeOK
<1>6. CASE \E r \in Requests : RequestMerge(r) \/ BulkDispatch(r)
  BY <1>1, <1>6 DEF TypeOK
<1> QED
  BY <1>2, <1>3, <1>4, <1>5, <1>6 DEF Next
-----------------------------------------------------------------------------
\* Snapshots.

\* A run of a plan with snapshots that may merge has its snapshot, and so had
\* each run that merged a customer away; those jobs keep their payloads.
BackupInv ==
  /\ \A r \in Requests :
       pc[r] = "execute" /\ SnapshotsEnabled(payload[r].plan) => ThisRun(r) \in snapshots
  /\ \A c \in Customers : absorbedBy[c] # None =>
       absorbedBy[c] \in Runs /\ pc[absorbedBy[c][1]] # "none"
  /\ PaidMergesAreBackedUp

\* A run gets to the merges past the snapshot only.
LEMMA Executing ==
  ASSUME TypeOK, BackupInv, NEW r \in Requests, RunStep(r),
         pc'[r] = "execute", SnapshotsEnabled(payload[r].plan)
  PROVE  run'[r] = run[r] /\ ThisRun(r) \in snapshots'
<1> USE DEF TypeOK, Goto, Fail
<1>1. CASE Begin(r)
  BY <1>1 DEF Begin
<1>2. CASE LoadAndValidate(r)
  BY <1>2 DEF LoadAndValidate
<1>3. CASE CreateSnapshot(r)
  BY <1>3 DEF CreateSnapshot
<1>4. CASE MergePair(r)
  BY <1>4 DEF MergePair, BackupInv, backupVars
<1>5. CASE CreateRecord(r)
  BY <1>5 DEF CreateRecord
<1>6. CASE LinkSnapshot(r)
  BY <1>6 DEF LinkSnapshot
<1>7. CASE Transition(r)
  BY <1>7 DEF Transition
<1>8. CASE Confirm(r)
  BY <1>8 DEF Confirm
<1> QED
  BY <1>1, <1>2, <1>3, <1>4, <1>5, <1>6, <1>7, <1>8 DEF RunStep

\* A customer that a run of a shop with snapshots merged away is in a snapshot
\* of that run, whatever crashes, retries and lost answers there were: the
\* snapshot is taken before the first merge (Execute, step 2).
THEOREM BackedUp == Spec => []PaidMergesAreBackedUp
<1> USE MergePipelineAssumption
<1>1. Init => BackupInv
  BY DEF Init, BackupInv, PaidMergesAreBackedUp
<1>2. TypeOK /\ BackupInv /\ [Next]_vars => BackupInv'
  <2> SUFFICES ASSUME TypeOK, BackupInv, [Next]_vars PROVE BackupInv'
    OBVIOUS
  <2>1. ASSUME NEW r \in Requests, RunStep(r) PROVE BackupInv'
    <3>1. \A q \in Requests : pc'[q] = "execute" /\ SnapshotsEnabled(payload'[q].plan) =>
            ThisRun(q)' \in snapshots'
      <4> SUFFICES ASSUME NEW q \in Requests, pc'[q] = "execute",
                          SnapshotsEnabled(payload'[q].plan)
                   PROVE  ThisRun(q)' \in snapshots'
        OBVIOUS
      <4>1. payload' = payload
        BY <2>1, RunIsLocal
      <4>2. CASE q = r
        BY <2>1, <4>1, <4>2, Executing DEF ThisRun
      <4>3. CASE q # r
        BY <2>1, <4>1, <4>3, RunIsLocal, RunAbsorbs DEF BackupInv, ThisRun
      <4> QED
        BY <4>2, <4>3
    <3>2. ASSUME NEW c \in Customers, absorbedBy'[c] # None
          PROVE  /\ absorbedBy'[c] \in Runs /\ pc'[absorbedBy'[c][1]] # "none"
                 /\ SnapshotsEnabled(payload'[absorbedBy'[c][1]].plan) =>
                      absorbedBy'[c] \in snapshots'
      <4>0. payload' = payload /\ pc[r] # "none" /\ snapshots \subseteq snapshots'
        BY <2>1, RunIsLocal, RunAbsorbs
      <4>1. CASE absorbedBy'[c] = absorbedBy[c]
        <5>1. /\ absorbedBy[c] \in Runs /\ pc[absorbedBy[c][1]] # "none"
              /\ SnapshotsEnabled(payload[absorbedBy[c][1]].plan) =>
                   absorbedBy[c] \in snapshots
          BY <3>2, <4>1 DEF BackupInv, PaidMergesAreBackedUp
        <5>2. absorbedBy[c][1] \in Requests
          BY <5>1 DEF Runs
        <5>3. pc'[absorbedBy[c][1]] # "none"
          BY <2>1, <5>1, <5>2, RunIsLocal
        <5> QED
          BY <4>0, <4>1, <5>1, <5>3
      <4>2. CASE absorbedBy'[c] # absorbedBy[c]
        <5>1. pc[r] = "execute" /\ absorbedBy'[c] = ThisRun(r)
          BY <2>1, <4>2, RunAbsorbs
        <5>2. absorbedBy'[c] \in Runs /\ absorbedBy'[c][1] = r
          BY <5>1 DEF ThisRun, Runs, TypeOK
        <5>3. SnapshotsEnabled(payload[r].plan) => ThisRun(r) \in snapshots
          BY <5>1 DEF BackupInv
        <5>4. pc'[r] # "none"
          BY <2>1, RunIsLocal
        <5> QED
          BY <4>0, <5>1, <5>2, <5>3, <5>4
      <4> QED
        BY <4>1, <4>2
    <3> QED
      BY <3>1, <3>2 DEF BackupInv, PaidMergesAreBackedUp
  <2>2. CASE ~ \E r \in Requests : RunStep(r)
    <3>1. UNCHANGED <<absorbedBy, snapshots, run>>
      BY <2>2, OthersFramed
    <3>2. \A q \in Requests : pc'[q] = "execute" =>
            pc[q] = "execute" /\ payload'[q] = payload[q]
      BY <2>2, OthersFramed
    <3>3. \A q \in Requests : pc[q] # "none" => pc'[q] # "none" /\ payload'[q] = payload[q]
      BY <2>2, OthersFramed
    <3>4. \A c \in Customers : absorbedBy[c] # None => absorbedBy[c][1] \in Requests
      BY DEF BackupInv, Runs
    <3> QED
      BY <3>1, <3>2, <3>3, <3>4 DEF BackupInv, PaidMergesAreBackedUp, ThisRun
  <2> QED
    BY <2>1, <2>2
<1>3. BackupInv => PaidMergesAreBackedUp
  BY DEF BackupInv
<1> QED
  BY <1>1, <1>2, <1>3, TypeCorrect, PTL DEF Spec
-----------------------------------------------------------------------------
\* Merges, records and claims.

Left(r) == Involved(r) \cap Live
Audited(w) == w \in unrecorded \/ \E rec \in records : rec.run = w
Accounted(r) == pc[r] # "none" /\ \E x \in Customers : Left(r) \subseteq {x}

\* A run that may still merge works on all customers of its job that are left,
\* and one that is past its merges has left one at most.
MergesInv ==
  /\ \A r \in Requests : pc[r] \in {"snapshot", "execute"} =>
       Left(r) \subseteq todo[r] \cup {primary[r]}
  /\ \A r \in Requests : pc[r] \in {"record", "link", "transition"} => Accounted(r)
  /\ \A rec \in records : Accounted(rec.run[1])

\* Only a run that is past its record claims, and a claim is the only one until
\* the merchant dismisses the merged group.
ClaimsInv ==
  /\ \A r \in Requests : pc[r] \in {"link", "transition"} => Audited(ThisRun(r))
  /\ \A g \in Groups : \A w \in winners[g] : Accounted(w[1]) /\ Audited(w)
  /\ \A g \in Groups : group[g] = "merged" => winners[g] # {}
  /\ \A g \in Groups : winners[g] # {} /\ g \notin reopened =>
       group[g] = "merged" /\ \E w \in winners[g] : winners[g] = {w}

\* No customer comes back and no dispatched job gets another payload, so that
\* what a job has left only shrinks.
LEMMA LeftShrinks ==
  ASSUME TypeOK, [Next]_vars, NEW q \in Requests, pc[q] # "none"
  PROVE  Left(q)' \subseteq Left(q) /\ (Accounted(q) => Accounted(q)')
<1>1. payload'[q] = payload[q] /\ pc'[q] # "none" /\ Live' \subseteq Live
  <2>1. ASSUME NEW r \in Requests, RunStep(r)
        PROVE  payload' = payload /\ pc'[q] # "none" /\ Live' \subseteq Live
    BY <2>1, RunIsLocal, RunAbsorbs DEF Live
  <2>2. CASE ~ \E r \in Requests : RunStep(r)
    <3>1. UNCHANGED absorbedBy /\ payload'[q] = payload[q] /\ pc'[q] \in {pc[q], "queued"}
      BY <2>2, OthersFramed
    <3> QED
      BY <3>1 DEF Live
  <2> QED
    BY <2>1, <2>2
<1>2. Left(q)' \subseteq Left(q)
  BY <1>1 DEF Left, Involved
<1> QED
  BY <1>1, <1>2 DEF Accounted

\* A pairwise merge takes one customer off what is left, and the survivor of
\* the last pair is all there is.
LEMMA Merging ==
  ASSUME TypeOK, MergesInv, [Next]_vars, NEW r \in Requests, RunStep(r)
  PROVE  /\ pc'[r] \in {"snapshot", "execute"} =>
              Left(r)' \subseteq todo'[r] \cup {primary'[r]}
         /\ pc'[r] \in {"record", "link", "transition"} => Accounted(r)'
<1>0. Left(r)' \subseteq Left(r) /\ (Accounted(r) => Accounted(r)')
  BY RunIsLocal, LeftShrinks
<1>1. CASE Begin(r)
  BY <1>1 DEF Begin, Goto, Fail, TypeOK
<1>2. CASE LoadAndValidate(r)
  <2>1. CASE Fail(r)
    BY <1>2, <2>1 DEF LoadAndValidate, Goto, Fail, TypeOK
  <2>2. CASE /\ primary' = [primary EXCEPT ![r] = payload[r].primary]
             /\ todo' = [todo EXCEPT ![r] = payload[r].secondaries]
             /\ \E p \in {"snapshot", "execute"} : Goto(r, p)
    <3>1. Left(r) \subseteq todo'[r] \cup {primary'[r]}
      BY <2>2 DEF TypeOK, Left, Involved
    <3>2. pc'[r] \in {"snapshot", "execute"}
      BY <2>2 DEF TypeOK, Goto
    <3> QED
      BY <1>0, <3>1, <3>2
  <2> QED
    BY <1>2, <2>1, <2>2 DEF LoadAndValidate
<1>3. CASE CreateSnapshot(r)
  <2>1. pc[r] = "snapshot" /\ pc'[r] \in {"execute", "failed", "queued"}
    BY <1>3 DEF CreateSnapshot, Goto, Fail, TypeOK
  <2>2. UNCHANGED <<primary, todo>>
    BY <1>3 DEF CreateSnapshot
  <2> QED
    BY <1>0, <2>1, <2>2 DEF MergesInv
<1>4. CASE MergePair(r)
  <2>1. CASE Fail(r)
    BY <1>4, <2>1 DEF MergePair, Goto, Fail, TypeOK
  <2>2. ASSUME NEW c \in todo[r], NEW kept \in Customers,
               CustomerMerge(r, c, kept),
               primary' = [primary EXCEPT ![r] = kept],
               todo' = [todo EXCEPT ![r] = @ \ {c}],
               Goto(r, IF todo[r] = {c} THEN "record" ELSE "execute")
        PROVE  /\ pc'[r] \in {"snapshot", "execute"} =>
                    Left(r)' \subseteq todo'[r] \cup {primary'[r]}
               /\ pc'[r] \in {"record", "link", "transition"} => Accounted(r)'
    <3>1. Left(r) \subseteq todo[r] \cup {primary[r]}
      BY <1>4 DEF MergePair, MergesInv
    <3>2. PICK lost \in {primary[r], c} :
            /\ kept = c => lost = primary[r]
            /\ kept # c => lost = c /\ kept = primary[r]
            /\ absorbedBy' = [absorbedBy EXCEPT ![lost] = ThisRun(r)]
            /\ lost \in Live
      BY <2>2 DEF CustomerMerge
    <3>3. ThisRun(r) # None
      BY MergePipelineAssumption DEF ThisRun, TypeOK
    <3>4. lost \notin Live'
      BY <3>2, <3>3 DEF Live, TypeOK
    <3>5. primary'[r] = kept /\ todo'[r] = todo[r] \ {c}
      BY <2>2 DEF TypeOK
    <3>6. Left(r)' \subseteq todo'[r] \cup {primary'[r]}
      BY <1>0, <3>1, <3>2, <3>4, <3>5 DEF Left
    <3>7. pc'[r] = IF todo[r] = {c} THEN "record" ELSE "execute"
      BY <2>2 DEF Goto, TypeOK
    <3>8. CASE todo[r] = {c}
      BY <3>5, <3>6, <3>7, <3>8 DEF Accounted
    <3> QED
      BY <3>6, <3>7, <3>8
  <2> QED
    BY <1>4, <2>1, <2>2 DEF MergePair
<1>5. CASE CreateRecord(r)
  BY <1>0, <1>5 DEF CreateRecord, MergesInv, Goto, TypeOK
<1>6. CASE LinkSnapshot(r)
  BY <1>0, <1>6 DEF LinkSnapshot, MergesInv, Goto, TypeOK
<1>7. CASE Transition(r)
  BY <1>0, <1>7 DEF Transition, MergesInv, Goto, Fail, TypeOK
<1>8. CASE Confirm(r)
  BY <1>8 DEF Confirm, Goto, TypeOK
<1> QED
  BY <1>1, <1>2, <1>3, <1>4, <1>5, <1>6, <1>7, <1>8 DEF RunStep

\* A run writes one record, after its merges, or is noted for not doing so; no
\* record goes away.
LEMMA RunRecords ==
  ASSUME TypeOK, NEW r \in Requests, RunStep(r)
  PROVE  /\ records \subseteq records' /\ unrecorded \subseteq unrecorded'
         /\ \A rec \in records' \ records : pc[r] = "record" /\ rec.run = ThisRun(r)
         /\ pc'[r] \in {"link", "transition"} =>
              /\ run'[r] = run[r]
              /\ pc[r] = "link" \/ Audited(ThisRun(r))'
<1> USE DEF Goto, Fail, TypeOK, history, backupVars
<1>1. CASE Begin(r)
  BY <1>1 DEF Begin
<1>2. CASE LoadAndValidate(r)
  BY <1>2 DEF LoadAndValidate
<1>3. CASE CreateSnapshot(r)
  BY <1>3 DEF CreateSnapshot
<1>4. CASE MergePair(r)
  BY <1>4 DEF MergePair
<1>5. CASE CreateRecord(r)
  <2>1. pc[r] = "record" /\ run' = run
    BY <1>5 DEF CreateRecord
  <2>2. CASE unrecorded' = unrecorded \cup {ThisRun(r)} /\ UNCHANGED records
    BY <2>1, <2>2 DEF Audited, ThisRun
  <2>3. CASE /\ records' = records \cup {[run |-> ThisRun(r), snapshot |-> SnapshotId(r)]}
             /\ UNCHANGED unrecorded
    <3> DEFINE y == [run |-> ThisRun(r), snapshot |-> SnapshotId(r)]
    <3>0. y \in records' /\ y.run = <<r, run[r]>>
      BY <2>3 DEF ThisRun
    <3> HIDE DEF y
    <3>1. \E rec \in records' : rec.run = <<r, run[r]>>
      BY <3>0
    <3> QED
      BY <2>1, <2>3, <3>1 DEF Audited, ThisRun
  <2> QED
    BY <1>5, <2>2, <2>3 DEF CreateRecord
<1>6. CASE LinkSnapshot(r)
  BY <1>6 DEF LinkSnapshot
<1>7. CASE Transition(r)
  BY <1>7 DEF Transition
<1>8. CASE Confirm(r)
  BY <1>8 DEF Confirm
<1> QED
  BY <1>1, <1>2, <1>3, <1>4, <1>5, <1>6, <1>7, <1>8 DEF RunStep

\* Only the compare-and-set marks a group merged, and it adds the winner.
LEMMA RunClaims ==
  ASSUME TypeOK, NEW r \in Requests, RunStep(r)
  PROVE  /\ reopened' = reopened /\ members' = members
         /\ \/ UNCHANGED <<group, winners>>
            \/ /\ pc[r] = "transition" /\ payload[r].group \in Groups
               /\ group[payload[r].group] # "merged"
               /\ group' = [group EXCEPT ![payload[r].group] = "merged"]
               /\ winners' = [winners EXCEPT ![payload[r].group] = @ \cup {ThisRun(r)}]
<1> USE DEF rowVars, history
<1>1. CASE Begin(r)
  BY <1>1 DEF Begin
<1>2. CASE LoadAndValidate(r)
  BY <1>2 DEF LoadAndValidate
<1>3. CASE CreateSnapshot(r)
  BY <1>3 DEF CreateSnapshot
<1>4. CASE MergePair(r)
  BY <1>4 DEF MergePair
<1>5. CASE CreateRecord(r)
  BY <1>5 DEF CreateRecord
<1>6. CASE LinkSnapshot(r)
  BY <1>6 DEF LinkSnapshot
<1>7. CASE Transition(r)
  <2>1. payload[r].group \in Groups
    BY <1>7 DEF Transition, TypeOK, Payloads
  <2> QED
    BY <1>7, <2>1 DEF Transition
<1>8. CASE Confirm(r)
  BY <1>8 DEF Confirm
<1> QED
  BY <1>1, <1>2, <1>3, <1>4, <1>5, <1>6, <1>7, <1>8 DEF RunStep

\* The other steps claim no group, and take the mark off a merged one only when
\* the merchant dismisses it.
LEMMA OthersClaimNothing ==
  ASSUME TypeOK, [Next]_vars, ~ \E r \in Requests : RunStep(r)
  PROVE  /\ UNCHANGED <<winners, unrecorded>> /\ reopened \subseteq reopened'
         /\ \A g \in Groups : group'[g] = "merged" => group[g] = "merged"
         /\ \A g \in Groups : group[g] = "merged" =>
              group'[g] = "merged" \/ g \in reopened'
<1> USE DEF rowVars, history, TypeOK
<1>1. ASSUME NEW r \in Requests, RequestMerge(r) \/ BulkDispatch(r)
      PROVE  UNCHANGED <<group, winners, unrecorded, reopened>>
  BY <1>1 DEF RequestMerge, BulkDispatch
<1>2. CASE BulkList \/ BulkSkip \/ UNCHANGED vars
  BY <1>2 DEF BulkList, BulkSkip, vars
<1>3. CASE \E c \in Customers : ForgetCustomer(c)
  BY <1>3 DEF ForgetCustomer
<1>4. ASSUME NEW d \in Detections, DetectStep(d)
      PROVE  /\ UNCHANGED <<winners, unrecorded, reopened>>
             /\ \A g \in Groups : group'[g] = "merged" <=> group[g] = "merged"
  <2>1. CASE DetectLoad(d) \/ DetectEnd(d)
    BY <2>1 DEF DetectLoad, DetectEnd
  <2>2. CASE DetectClear(d)
    BY <2>2 DEF DetectClear
  <2>3. CASE DetectCreate(d)
    <3>1. UNCHANGED group \/ \E g \in Groups :
            group[g] = "absent" /\ group' = [group EXCEPT ![g] = "pending"]
      BY <2>3 DEF DetectCreate, CreateGroup
    <3> QED
      BY <2>3, <3>1 DEF DetectCreate
  <2> QED
    BY <1>4, <2>1, <2>2, <2>3 DEF DetectStep
<1>5. CASE Crash
  BY <1>5 DEF Crash
<1>6. CASE \E g \in Groups : Dismiss(g)
  BY <1>6 DEF Dismiss
<1> QED
  BY <1>1, <1>2, <1>3, <1>4, <1>5, <1>6 DEF Next

-----------------------------------------------------------------------------
\* The audit log and the claims.

\* What is left for a job is at most one customer.
LEMMA LeftAtMostOne ==
  ASSUME NEW r \in Requests, Accounted(r)
  PROVE  Cardinality(Left(r)) <= 1
<1>1. PICK x \in Customers : Left(r) \subseteq {x}
  BY DEF Accounted
<1>2. IsFiniteSet({x}) /\ Cardinality({x}) = 1
  BY FS_Singleton
<1> QED
  BY <1>1, <1>2, FS_Subset

LEMMA MergesInvariant == TypeOK /\ MergesInv /\ [Next]_vars => MergesInv'
<1> SUFFICES ASSUME TypeOK, MergesInv, [Next]_vars PROVE MergesInv'
  OBVIOUS
<1>0. \A rec \in records : rec.run[1] \in Requests
  BY DEF TypeOK, Runs
<1>1. ASSUME NEW r \in Requests, RunStep(r) PROVE MergesInv'
  <2>1. ASSUME NEW q \in Requests
        PROVE  /\ pc'[q] \in {"snapshot", "execute"} =>
                    Left(q)' \subseteq todo'[q] \cup {primary'[q]}
               /\ pc'[q] \in {"record", "link", "transition"} => Accounted(q)'
    <3>1. CASE q = r
      BY <1>1, <3>1, Merging
    <3>2. CASE q # r
      <4>1. pc'[q] = pc[q] /\ primary'[q] = primary[q] /\ todo'[q] = todo[q]
        BY <1>1, <3>2, RunIsLocal
      <4>2. pc[q] # "none" => Left(q)' \subseteq Left(q) /\ (Accounted(q) => Accounted(q)')
        BY LeftShrinks
      <4> QED
        BY <4>1, <4>2 DEF MergesInv
    <3> QED
      BY <3>1, <3>2
  <2>2. ASSUME NEW rec \in records' PROVE Accounted(rec.run[1])'
    <3>1. CASE rec \in records
      BY <1>0, <3>1, LeftShrinks DEF MergesInv, Accounted
    <3>2. CASE rec \notin records
      <4>1. pc[r] = "record" /\ rec.run = ThisRun(r)
        BY <1>1, <3>2, RunRecords
      <4>2. rec.run[1] = r
        BY <4>1 DEF ThisRun
      <4> QED
        BY <4>1, <4>2, LeftShrinks DEF MergesInv
    <3> QED
      BY <3>1, <3>2
  <2> QED
    BY <2>1, <2>2 DEF MergesInv
<1>2. CASE ~ \E r \in Requests : RunStep(r)
  <2>1. UNCHANGED <<records, primary, todo>>
    BY <1>2, OthersFramed
  <2>2. \A q \in Requests : pc'[q] \notin {"none", "queued"} => pc'[q] = pc[q]
    BY <1>2, OthersFramed
  <2>3. \A q \in Requests : pc[q] # "none" =>
          Left(q)' \subseteq Left(q) /\ (Accounted(q) => Accounted(q)')
    BY LeftShrinks
  <2>4. ASSUME NEW q \in Requests
        PROVE  /\ pc'[q] \in {"snapshot", "execute"} =>
                    Left(q)' \subseteq todo'[q] \cup {primary'[q]}
               /\ pc'[q] \in {"record", "link", "transition"} => Accounted(q)'
    BY <2>1, <2>2, <2>3 DEF MergesInv
  <2>5. \A rec \in records' : Accounted(rec.run[1])'
    BY <1>0, <2>1, <2>3 DEF MergesInv, Accounted
  <2> QED
    BY <2>4, <2>5 DEF MergesInv
<1> QED
  BY <1>1, <1>2

\* Of the customers of an audit record Shopify has one at most: a run records
\* only after its last pair, and nothing brings a customer back.
THEOREM RecordsTrue == Spec => []RecordsAreTrue
<1>1. Init => MergesInv
  BY DEF Init, MergesInv
<1>2. TypeOK /\ MergesInv => RecordsAreTrue
  <2> SUFFICES ASSUME TypeOK, MergesInv, NEW rec \in records
               PROVE  Cardinality(Left(rec.run[1])) <= 1
    BY DEF RecordsAreTrue, Left
  <2>1. rec.run[1] \in Requests
    BY DEF TypeOK, Runs
  <2> QED
    BY <2>1, LeftAtMostOne DEF MergesInv
<1> QED
  BY <1>1, <1>2, MergesInvariant, TypeCorrect, PTL DEF Spec

LEMMA ClaimsInvariant == TypeOK /\ MergesInv /\ ClaimsInv /\ [Next]_vars => ClaimsInv'
<1> SUFFICES ASSUME TypeOK, MergesInv, ClaimsInv, [Next]_vars PROVE ClaimsInv'
  OBVIOUS
<1>0. \A g \in Groups : \A w \in winners[g] : w \in Runs /\ w[1] \in Requests
  BY DEF TypeOK, Runs
<1>1. ASSUME NEW r \in Requests, RunStep(r) PROVE ClaimsInv'
  <2>0. records \subseteq records' /\ unrecorded \subseteq unrecorded'
    BY <1>1, RunRecords
  <2>1. ASSUME NEW q \in Requests, pc'[q] \in {"link", "transition"}
        PROVE  Audited(ThisRun(q))'
    <3>1. CASE q = r
      <4>1. run'[r] = run[r] /\ (pc[r] = "link" \/ Audited(ThisRun(r))')
        BY <1>1, <2>1, <3>1, RunRecords
      <4>2. CASE pc[r] = "link"
        <5>1. Audited(ThisRun(r))
          BY <4>2 DEF ClaimsInv
        <5> QED
          BY <2>0, <3>1, <4>1, <5>1 DEF Audited, ThisRun
      <4> QED
        BY <3>1, <4>1, <4>2
    <3>2. CASE q # r
      <4>1. pc'[q] = pc[q] /\ run'[q] = run[q]
        BY <1>1, <3>2, RunIsLocal
      <4>2. Audited(ThisRun(q))
        BY <2>1, <4>1 DEF ClaimsInv
      <4> QED
        BY <2>0, <4>1, <4>2 DEF Audited, ThisRun
    <3> QED
      BY <3>1, <3>2
  <2>2. \A g \in Groups : \A w \in winners[g] : Accounted(w[1])' /\ Audited(w)'
    BY <1>0, <2>0, LeftShrinks DEF ClaimsInv, Accounted, Audited
  <2>3. CASE UNCHANGED <<group, winners, reopened>>
    BY <2>1, <2>2, <2>3 DEF ClaimsInv
  <2>4. CASE ~UNCHANGED <<group, winners, reopened>>
    <3> DEFINE h == payload[r].group
    <3>1. /\ pc[r] = "transition" /\ h \in Groups /\ group[h] # "merged"
          /\ group' = [group EXCEPT ![h] = "merged"]
          /\ winners' = [winners EXCEPT ![h] = @ \cup {ThisRun(r)}]
          /\ reopened' = reopened
      BY <1>1, <2>4, RunClaims
    <3> HIDE DEF h
    <3>2. Accounted(r)' /\ ThisRun(r)[1] = r
      BY <3>1, LeftShrinks DEF MergesInv, ThisRun
    <3>3. Audited(ThisRun(r))
      BY <3>1 DEF ClaimsInv
    <3>4. \A w : Audited(w) => Audited(w)'
      BY <2>0 DEF Audited
    <3>5. \A g \in Groups : g # h => group'[g] = group[g] /\ winners'[g] = winners[g]
      BY <3>1 DEF TypeOK
    <3>6. group'[h] = "merged" /\ winners'[h] = winners[h] \cup {ThisRun(r)}
      BY <3>1 DEF TypeOK
    <3>7. h \in reopened \/ winners[h] = {}
      BY <3>1 DEF ClaimsInv
    <3>8. \A g \in Groups : \A w \in winners'[g] : Accounted(w[1])' /\ Audited(w)'
      BY <2>2, <3>2, <3>3, <3>4, <3>5, <3>6
    <3>9. \A g \in Groups : group'[g] = "merged" => winners'[g] # {}
      BY <3>5, <3>6 DEF ClaimsInv
    <3>10. \A g \in Groups : winners'[g] # {} /\ g \notin reopened' =>
             group'[g] = "merged" /\ \E w \in winners'[g] : winners'[g] = {w}
      BY <3>1, <3>5, <3>6, <3>7 DEF ClaimsInv
    <3> QED
      BY <2>1, <3>8, <3>9, <3>10 DEF ClaimsInv
  <2> QED
    BY <2>3, <2>4
<1>2. CASE ~ \E r \in Requests : RunStep(r)
  <2>1. /\ UNCHANGED <<records, run, winners, unrecorded>>
        /\ reopened \subseteq reopened'
    BY <1>2, OthersFramed, OthersClaimNothing
  <2>2. \A q \in Requests : pc'[q] \in {"link", "transition"} => pc'[q] = pc[q]
    BY <1>2, OthersFramed
  <2>3. \A q \in Requests : pc'[q] \in {"link", "transition"} => Audited(ThisRun(q))'
    BY <2>1, <2>2 DEF ClaimsInv, Audited, ThisRun
  <2>4. \A g \in Groups : \A w \in winners'[g] : Accounted(w[1])' /\ Audited(w)'
    BY <1>0, <2>1, LeftShrinks DEF ClaimsInv, Accounted, Audited
  <2>5. /\ \A g \in Groups : group'[g] = "merged" => winners'[g] # {}
        /\ \A g \in Groups : winners'[g] # {} /\ g \notin reopened' =>
             group'[g] = "merged" /\ \E w \in winners'[g] : winners'[g] = {w}
    BY <1>2, <2>1, OthersClaimNothing DEF ClaimsInv
  <2> QED
    BY <2>3, <2>4, <2>5 DEF ClaimsInv
<1> QED
  BY <1>1, <1>2

LEMMA AlwaysClaims == Spec => [](TypeOK /\ ClaimsInv)
<1>1. Init => MergesInv /\ ClaimsInv
  BY DEF Init, MergesInv, ClaimsInv
<1> QED
  BY <1>1, MergesInvariant, ClaimsInvariant, TypeCorrect, PTL DEF Spec

\* Of the jobs that race for a group one claims it, until the merchant dismisses
\* the merged group: the claim is a compare-and-set (TryTransitionToMerged).
THEOREM Exclusive == Spec => []OneWinner
<1>1. TypeOK /\ ClaimsInv => OneWinner
  <2> SUFFICES ASSUME ClaimsInv, NEW g \in Groups, g \notin reopened
               PROVE  Cardinality(winners[g]) <= 1
    BY DEF OneWinner
  <2>1. CASE winners[g] = {}
    BY <2>1, FS_EmptySet
  <2>2. CASE winners[g] # {}
    <3>1. PICK w \in winners[g] : winners[g] = {w}
      BY <2>2 DEF ClaimsInv
    <3>2. Cardinality({w}) = 1
      BY FS_Singleton
    <3> QED
      BY <3>1, <3>2
  <2> QED
    BY <2>1, <2>2
<1> QED
  BY <1>1, AlwaysClaims, PTL

\* A merged group has a run that did all its merges and whose audit record
\* exists, unless writing the record failed (Execute, steps 4 to 6).
THEOREM MergedAreAudited == Spec => []MergedGroupsAreAudited
<1>1. TypeOK /\ ClaimsInv => MergedGroupsAreAudited
  <2> SUFFICES ASSUME TypeOK, ClaimsInv, NEW g \in Groups, group[g] = "merged"
               PROVE  \E w \in winners[g] : Cardinality(Left(w[1])) <= 1 /\ Audited(w)
    BY DEF MergedGroupsAreAudited, Left, Audited
  <2>1. PICK w \in winners[g] : Accounted(w[1]) /\ Audited(w)
    BY DEF ClaimsInv
  <2>2. w[1] \in Requests
    BY DEF TypeOK, Runs
  <2> QED
    BY <2>1, <2>2, LeftAtMostOne
<1> QED
  BY <1>1, AlwaysClaims, PTL

-----------------------------------------------------------------------------
\* Rows of duplicate_groups.

\* A set of customers has one row that is not merged: whoever inserts or
\* dismisses one is refused while there is another (the unique index).
THEOREM OneOpenGroup == Spec => []OneOpenGroupPerSet
<1>1. Init => OneOpenGroupPerSet
  BY DEF Init, OneOpenGroupPerSet, Exists
<1>2. TypeOK /\ OneOpenGroupPerSet /\ [Next]_vars => OneOpenGroupPerSet'
  <2> SUFFICES ASSUME TypeOK, OneOpenGroupPerSet, [Next]_vars PROVE OneOpenGroupPerSet'
    OBVIOUS
  <2> USE DEF rowVars
  <2>0. ASSUME members' = members,
               \A g \in Groups : group'[g] \in {group[g], "merged", "gone"},
               \A g \in Groups : Exists(g)' => Exists(g)
        PROVE  OneOpenGroupPerSet'
    <3>1. \A g \in Groups : group[g] = "merged" /\ Exists(g)' => group'[g] = "merged"
      BY <2>0 DEF Exists
    <3> QED
      BY <2>0, <3>1 DEF OneOpenGroupPerSet, Exists
  <2>1. ASSUME NEW r \in Requests, RunStep(r) PROVE OneOpenGroupPerSet'
    <3>1. members' = members
      BY <2>1, RunClaims
    <3>2. /\ \A g \in Groups : group'[g] \in {group[g], "merged"}
          /\ \A g \in Groups : Exists(g)' => Exists(g)
      <4>1. CASE UNCHANGED group
        BY <4>1 DEF Exists
      <4>2. CASE \E g \in Groups : Exists(g) /\ group' = [group EXCEPT ![g] = "merged"]
        BY <4>2 DEF Exists, TypeOK
      <4>3. UNCHANGED group \/ Transition(r)
        BY <2>1 DEF RunStep, Begin, LoadAndValidate, CreateSnapshot, MergePair,
                    CreateRecord, LinkSnapshot, Confirm
      <4>4. CASE Transition(r)
        <5>1. payload[r].group \in Groups
          BY <4>4 DEF Transition, TypeOK, Payloads
        <5> QED
          BY <4>1, <4>2, <4>4, <5>1 DEF Transition
      <4> QED
        BY <4>1, <4>3, <4>4
    <3> QED
      BY <2>0, <3>1, <3>2
  <2>2. ASSUME NEW g \in Groups, Dismiss(g) PROVE OneOpenGroupPerSet'
    <3>1. /\ members' = members /\ group' = [group EXCEPT ![g] = "dismissed"]
          /\ Exists(g) /\ Unique(g, "dismissed")
      BY <2>2 DEF Dismiss
    <3>2. \A h \in Groups \ {g} : group'[h] = group[h]
      BY <3>1 DEF TypeOK
    <3>3. \A h \in Groups \ {g} : Exists(h) /\ members[h] = members[g] => group[h] = "merged"
      BY <3>1 DEF Unique
    <3> QED
      BY <3>1, <3>2, <3>3 DEF OneOpenGroupPerSet, Exists
  <2>3. ASSUME NEW d \in Detections, DetectStep(d) PROVE OneOpenGroupPerSet'
    <3>1. CASE DetectLoad(d) \/ DetectEnd(d)
      BY <2>0, <3>1 DEF DetectLoad, DetectEnd, Exists
    <3>2. CASE DetectClear(d)
      BY <2>0, <3>2 DEF DetectClear, Exists
    <3>3. CASE DetectCreate(d)
      <4>1. PICK S \in found[d] : CreateGroup(S) \/ UNCHANGED <<group, members>>
        BY <3>3 DEF DetectCreate
      <4>2. CASE UNCHANGED <<group, members>>
        BY <2>0, <4>2 DEF Exists
      <4>3. CASE ~UNCHANGED <<group, members>>
        <5>1. PICK g \in Groups : /\ group[g] = "absent"
                                  /\ group' = [group EXCEPT ![g] = "pending"]
                                  /\ members' = [members EXCEPT ![g] = S]
          BY <4>1, <4>3 DEF CreateGroup
        <5>2. \A h \in Groups : Exists(h) /\ members[h] = S => group[h] = "merged"
          BY <4>1, <4>3 DEF CreateGroup
        <5>3. \A h \in Groups \ {g} : group'[h] = group[h] /\ members'[h] = members[h]
          BY <5>1 DEF TypeOK
        <5>4. members'[g] = S
          BY <5>1 DEF TypeOK
        <5> QED
          BY <5>2, <5>3, <5>4 DEF OneOpenGroupPerSet, Exists
      <4> QED
        BY <4>2, <4>3
    <3> QED
      BY <2>3, <3>1, <3>2, <3>3 DEF DetectStep
  <2>4. ASSUME NEW r \in Requests, RequestMerge(r) \/ BulkDispatch(r)
        PROVE  OneOpenGroupPerSet'
    BY <2>0, <2>4 DEF RequestMerge, BulkDispatch, Exists
  <2>5. CASE BulkList \/ BulkSkip \/ UNCHANGED vars
    BY <2>0, <2>5 DEF BulkList, BulkSkip, vars, Exists
  <2>6. ASSUME NEW c \in Customers, ForgetCustomer(c) PROVE OneOpenGroupPerSet'
    BY <2>0, <2>6 DEF ForgetCustomer, Exists
  <2>7. CASE Crash
    BY <2>0, <2>7 DEF Crash, Exists
  <2> QED
    BY <2>1, <2>2, <2>3, <2>4, <2>5, <2>6, <2>7 DEF Next
<1> QED
  BY <1>1, <1>2, TypeCorrect, PTL DEF Spec
=============================================================================
