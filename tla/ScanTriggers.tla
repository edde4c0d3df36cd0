----------------------------- MODULE ScanTriggers -----------------------------
(***************************************************************************)
(* Detect jobs: who asks for one (a webhook after it has changed the cache, *)
(* a sync, the daily scan, a button), what the job does between two calls   *)
(* of its worker, and the notification of what it found.                    *)
(*                                                                         *)
(* The jobs are those of JobQueue, with its debounce, lost calls, retries,  *)
(* sweeps and crashes: every step here is a step of JobQueue or leaves its  *)
(* variables alone, and the detection runs while the worker is in Process.  *)
(* MergePipeline has what else happens to a group: here it is pending or    *)
(* not there.                                                               *)
(***************************************************************************)
EXTENDS JobQueue

CONSTANTS
  Groups,   \* sets of customers of a shop that may look alike
  OwnerOf   \* the merchant of each

ASSUME ScanTriggersAssumption == OwnerOf \in [Groups -> Merchants]

VARIABLES
  work,     \* how far each worker's detection is, the groups it has to write
  pending,  \* pending groups
  recent,   \* those created in the last 15 minutes
  \* History, read by the properties only.
  unseen,   \* detect jobs a change was left to that no detection loaded since
  due       \* pending groups the shop must still be told of

groupVars == <<pending, recent, due>>
scanVars  == <<vars, work, groupVars, unseen>>

Stages == {"load", "clear", "create", "done", "announce", "told"}
Fresh  == [at |-> "load", found |-> {}]

Shop(w)    == MerchantOf[job[w]]
Detects(w) == job[w] \in DetectJobs
OfShop(m)  == {g \in Groups : OwnerOf[g] = m}

-----------------------------------------------------------------------------
\* Dispatch of a detect job or another.  The caller has written what it wants
\* detected; if the call inserts no job, that is left to those it counted.
Ask(j) ==
  /\ BeginDispatch(j)
  /\ unseen' = unseen \cup (IF dispatch'[j] = "skipped" THEN PendingDetect(MerchantOf[j])
                            ELSE {j} \cap DetectJobs)
  /\ UNCHANGED <<work, groupVars>>

-----------------------------------------------------------------------------
\* The worker and its job.

\* Variant: a group that cannot be written ends the detection with an error.
FailsWhileWriting(w) == work[w].at \in {"load", "create"}

\* Only customers that cannot be read make RunDetection, and so the job, fail.
MayFail(w) == work[w].at = "load"

\* The calls of the worker, those around a detection when it has come that far.
JobStep(w) ==
  /\ WorkerStep(w)
  /\ Detects(w) => /\ pc'[w] = "increment" => MayFail(w)
                   /\ pc'[w] = "report" => work[w].at = "done"
                   /\ pc[w] = "complete" => work[w].at = "told"
  /\ work' = IF pc'[w] = "idle" THEN [work EXCEPT ![w] = Fresh] ELSE work
  /\ UNCHANGED <<groupVars, unseen>>

-----------------------------------------------------------------------------
\* RunDetection.

At(w, p, stage) == Detects(w) /\ pc[w] = p /\ work[w].at = stage

Reach(w, stage) == work' = [work EXCEPT ![w].at = stage]

\* FindByMerchant: from here on what the detection will find is settled.  With
\* fewer than two customers (none, once the shop is gone) it is over and the
\* pending groups stay.
Load(w) ==
  /\ At(w, "process", "load")
  /\ \/ /\ Shop(w) \in installed
        /\ \E found \in SUBSET OfShop(Shop(w)) :
             work' = [work EXCEPT ![w] = [at |-> "clear", found |-> found]]
     \/ Reach(w, "done")
  /\ unseen' = {j \in unseen : MerchantOf[j] # Shop(w)}
  /\ UNCHANGED <<vars, groupVars>>

\* What is no longer pending; nobody is to be told of it.
Drop(groups) ==
  /\ pending' = pending \ groups /\ recent' = recent \ groups /\ due' = due \ groups

\* DeletePendingByMerchant; an error is logged.
Clear(w) ==
  /\ At(w, "process", "clear")
  /\ Reach(w, "create")
  /\ Drop(OfShop(Shop(w))) \/ UNCHANGED groupVars
  /\ UNCHANGED <<vars, unseen>>

\* CreateGroup for the next group: an upsert, which keeps created_at and status
\* of a row that is there.  A group that cannot be written (its shop may be
\* gone) is skipped, and one that was dismissed stays so.
Create(w) ==
  /\ At(w, "process", "create")
  /\ IF work[w].found = {}
     THEN Reach(w, "done") /\ UNCHANGED groupVars
     ELSE \E g \in work[w].found :
            /\ work' = [work EXCEPT ![w].found = @ \ {g}]
            /\ \/ /\ Shop(w) \in installed /\ g \notin pending
                  /\ pending' = pending \cup {g}
                  /\ recent' = recent \cup {g} /\ due' = due \cup {g}
               \/ UNCHANGED groupVars
  /\ UNCHANGED <<vars, unseen>>

-----------------------------------------------------------------------------
\* OnDetectComplete, after processDetect has stored groups_found.

\* What nobody will be told of, for a reason.
Excuse(groups) == due' = due \ groups

\* The settings may say that no notification is wanted, or be unreadable.
Notify(w) ==
  /\ At(w, "complete", "done")
  /\ \/ Reach(w, "announce") /\ UNCHANGED due
     \/ Reach(w, "told") /\ Excuse(OfShop(Shop(w)))
  /\ UNCHANGED <<vars, pending, recent, unseen>>

\* Variant: the age is compared the wrong way round.
NewDuplicatesOld(m) == (pending \ recent) \cap OfShop(m)

\* What is counted as new: pending and created in the last 15 minutes.
NewDuplicates(m) == pending \cap recent \cap OfShop(m)

\* The count and, if it is not 0, the notification; either may fail.
Announce(w) ==
  /\ At(w, "complete", "announce")
  /\ Reach(w, "told")
  /\ Excuse(NewDuplicates(Shop(w))) \/ Excuse(OfShop(Shop(w)))
  /\ UNCHANGED <<vars, pending, recent, unseen>>

DetectStep(w) == Load(w) \/ Clear(w) \/ Create(w) \/ Notify(w) \/ Announce(w)

-----------------------------------------------------------------------------
\* The surroundings.

\* 15 minutes pass: a detection that takes longer is not expected to tell.
GroupsAge ==
  /\ recent # {}
  /\ recent' = {} /\ Excuse(recent)
  /\ UNCHANGED <<vars, work, pending, unseen>>

\* A group is merged, dismissed or deleted with its customers.
Close(g) ==
  /\ g \in pending
  /\ Drop({g})
  /\ UNCHANGED <<vars, work, unseen>>

\* With the process die the detections, what they would have told and the
\* requests whose job is not in the table yet.
ScanCrash ==
  /\ Crash
  /\ work' = [w \in Workers |-> Fresh]
  /\ Excuse(due)
  /\ unseen' = {j \in unseen : dispatch[j] # "create"}
  /\ UNCHANGED <<pending, recent>>

\* The groups of a shop go with it (ON DELETE CASCADE).
ScanUninstall(m) ==
  /\ DeleteMerchant(m)
  /\ Drop(OfShop(m))
  /\ UNCHANGED <<work, unseen>>

\* The rest of the job machinery, as JobQueue has it.
Elsewhere ==
  /\ SweepStep \/ \E j \in Jobs : CreateRow(j) \/ PushNew(j) \/ Age(j)
  /\ UNCHANGED <<work, groupVars, unseen>>

ScanInit ==
  /\ Init
  /\ work = [w \in Workers |-> Fresh]
  /\ pending = {} /\ recent = {} /\ unseen = {} /\ due = {}

ScanNext ==
  \/ \E j \in Jobs : Ask(j)
  \/ \E w \in Workers : JobStep(w) \/ DetectStep(w)
  \/ Elsewhere \/ GroupsAge \/ ScanCrash
  \/ \E g \in Groups : Close(g)
  \/ \E m \in Merchants : ScanUninstall(m)

ScanSpec == ScanInit /\ [][ScanNext]_scanVars

-----------------------------------------------------------------------------
\* Properties.

\* Every variable stays within its type, and a worker that does not run a
\* detection has none under way: one that failed has written nothing.
ScanTypeOK ==
  /\ work \in [Workers -> [at : Stages, found : SUBSET Groups]]
  /\ pending \subseteq Groups /\ recent \subseteq pending /\ due \subseteq recent
  /\ unseen \subseteq DetectJobs
  /\ \A w \in Workers : work[w].at # "load" => pc[w] \in {"process", "report", "complete", "ack"}
  /\ \A w \in Workers : work[w].found # {} =>
       Detects(w) /\ work[w].found \subseteq OfShop(Shop(w))

\* The job a change was left to, by the dispatch that inserts it or by one that
\* is skipped for it, still has to load the cache unless a detection of the
\* shop has done so since: it is about to be inserted, queued, or "processing"
\* with nobody past the load, be it that its worker died and the sweep has to
\* find it.  It may have failed for good, but only after all its attempts.
\* Jobs that lost a call or their carrier, or outlive stuckJobAge, are left out:
\* the debounce does rely on those (Dispatch, CountPendingByType, processJob).
ChangesAreScanned ==
  \A j \in unseen : overruns = 0 /\ j \notin faulted /\ MerchantOf[j] \in installed =>
    \/ dispatch[j] = "create"
    \/ status[j] = "queued"
    \/ status[j] = "processing"
         /\ \A w \in Holders(j) : pc[w] = "ack" \/ work[w].at = "load"
    \/ status[j] = "failed" /\ retries[j] >= MaxRetries

\* The shop is told of every new group: of one it was not told of yet, a
\* detection will still tell, the one that created it if not an earlier one,
\* and whichever cleared and created groups in between (OnDetectComplete).
NewGroupsAreAnnounced ==
  \A g \in due : \E w \in Workers :
    Detects(w) /\ Shop(w) = OwnerOf[g] /\ work[w].at \in {"create", "done", "announce"}

=============================================================================
