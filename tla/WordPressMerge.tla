---------------------------- MODULE WordPressMerge ----------------------------
(***************************************************************************)
(* Merging customers of a WooCommerce site: the plugin pushes customers into *)
(* customer_cache, a detection groups them, the administrator has a group    *)
(* merged, a job asks the plugin to do it, in one call that client and job   *)
(* both repeat, and removes the merged customers from the cache.             *)
(*                                                                           *)
(* The orchestrator is that of MergePipeline, which has its snapshots and    *)
(* audit records; here is what differs for WordPress.  The plugin is outside *)
(* the repository: as the client describes it, it moves all orders of the    *)
(* secondaries to the primary and disables their accounts.                   *)
(***************************************************************************)
EXTENDS Naturals, Sequences, FiniteSets

CONSTANTS
  Customers,
  Jobs,              \* merge jobs the administrator may ask for
  Nobody,            \* no customer, no group
  MaxMergeRetries,   \* calls of the client (maxMergeRetries)
  MaxRetries,        \* attempts of a job (maxRetries)
  MaxGroups,         \* bound: groups ever created
  MaxPushes,         \* bound: pushes of the plugin
  MaxFaults          \* bound: failing calls and crashes

ASSUME WordPressMergeAssumption ==
  /\ IsFiniteSet(Customers) /\ MaxMergeRetries \in Nat \ {0} /\ MaxRetries \in Nat \ {0}
  /\ MaxGroups \in Nat /\ MaxPushes \in Nat /\ MaxFaults \in Nat

VARIABLES
  \* At the site.
  owner,     \* the account that has the orders each customer placed
  disabled,  \* accounts merged into another
  pushes,    \* payloads of the plugin under way
  \* In the database.
  cache,     \* customers with a row
  groups,    \* duplicate_groups: the sequence of those ever created
  jobs,      \* the merge jobs
  \* Bounds.
  pushed, faults,
  \* History, read by the properties only.
  leftovers, \* merged customers whose row nobody will remove any more
  unsettled  \* customers whose merge was refused in part, or overlapped another

siteVars    == <<owner, disabled>>
historyVars == <<leftovers, unsettled>>
vars == <<siteVars, pushes, cache, groups, jobs, pushed, faults, historyVars>>

Fault   == faults < MaxFaults /\ faults' = faults + 1
NoFault == UNCHANGED faults

GroupIds == DOMAIN groups
Open     == {"pending", "dismissed"}

-----------------------------------------------------------------------------
\* Pushes: some of the customers with an account that is not disabled.

Collect ==
  /\ pushed < MaxPushes
  /\ \E batch \in SUBSET (Customers \ disabled) \ {{}} : pushes' = pushes \cup {batch}
  /\ pushed' = pushed + 1
  /\ UNCHANGED <<siteVars, cache, groups, jobs, faults, historyVars>>

\* Variant: the push replaces the rows, like a sync of a Shopify shop.
IngestedReplacing(batch) == batch

\* Upserts only.
Ingested(batch) == cache \cup batch

\* IngestCustomers: the rows before the first failing upsert; nothing is
\* deleted.  The push may bring back the row of a customer merged meanwhile.
Ingest ==
  \E batch \in pushes :
    /\ pushes' = pushes \ {batch}
    /\ \/ cache' = Ingested(batch) /\ NoFault
       \/ \E part \in SUBSET batch \ {batch} : cache' = Ingested(part) /\ Fault
    /\ leftovers' = cache' \cap (leftovers \cup (batch \cap disabled))
    /\ UNCHANGED <<siteVars, groups, jobs, pushed, unsettled>>

-----------------------------------------------------------------------------
\* Groups.  A detection removes the pending ones and stores a group of cached
\* customers, unless an open one with these members is left.

Detect ==
  \E members \in SUBSET cache :
    LET cleared == [g \in GroupIds |-> IF groups[g].status = "pending"
                      THEN [groups[g] EXCEPT !.status = "gone"] ELSE groups[g]]
        exists  == \E g \in GroupIds : cleared[g] = [members |-> members, status |-> "dismissed"]
    IN
    /\ Cardinality(members) > 1 /\ Len(groups) < MaxGroups
    /\ groups' = IF exists THEN cleared
                 ELSE Append(cleared, [members |-> members, status |-> "pending"])
    /\ UNCHANGED <<siteVars, pushes, cache, jobs, pushed, faults, historyVars>>

\* DismissDuplicate: whatever the status is.
Dismiss ==
  \E g \in GroupIds :
    /\ groups[g].status \in {"pending", "merged"}
    /\ groups' = [groups EXCEPT ![g].status = "dismissed"]
    /\ UNCHANGED <<siteVars, pushes, cache, jobs, pushed, faults, historyVars>>

-----------------------------------------------------------------------------
\* ExecuteMerge: any group that is not merged.  The primary is whom the request
\* names, in the group or not; there may be jobs for the group already.

NoJob == [pc |-> "none", group |-> Nobody, primary |-> Nobody, others |-> {},
          attempts |-> 0, calls |-> 0, moved |-> {}, left |-> {}]

ExecuteMerge(j) ==
  /\ jobs[j] = NoJob
  /\ \E g \in GroupIds :
       /\ groups[g].status \in Open
       /\ \E p \in Customers :
            jobs' = [jobs EXCEPT ![j] = [NoJob EXCEPT !.pc = "queued", !.group = g,
                       !.primary = p, !.others = groups[g].members \ {p}]]
  /\ UNCHANGED <<siteVars, pushes, cache, groups, pushed, faults, historyVars>>

-----------------------------------------------------------------------------
\* A job: processWPMerge and what it calls.

Set(j, job) == jobs' = [jobs EXCEPT ![j] = job]
Goto(j, p)  == Set(j, [jobs[j] EXCEPT !.pc = p])

\* Variant: one attempt too many.
LastAttemptLate(j) == jobs[j].attempts >= MaxRetries

LastAttempt(j) == jobs[j].attempts + 1 >= MaxRetries

\* The worker tries a job again from the start.  With the last attempt goes the
\* last chance to remove the rows of customers it has merged.
FailsAfter(j, moved) ==
  IF ~LastAttempt(j)
  THEN /\ Set(j, [jobs[j] EXCEPT !.pc = "queued", !.attempts = @ + 1, !.calls = 0, !.moved = moved])
       /\ UNCHANGED leftovers
  ELSE /\ Set(j, [NoJob EXCEPT !.pc = "failed"])
       /\ leftovers' = leftovers \cup (jobs[j].others \cap cache \cap disabled')

Fails(j) == FailsAfter(j, jobs[j].moved)

\* A worker takes the job.  The group must be there and not be merged.
CheckGroup(j) ==
  /\ jobs[j].pc = "queued"
  /\ UNCHANGED siteVars
  /\ \/ groups[jobs[j].group].status \in Open /\ Goto(j, "customers") /\ UNCHANGED leftovers /\ NoFault
     \/ groups[jobs[j].group].status \notin Open /\ Fails(j) /\ NoFault
     \/ Fails(j) /\ Fault
  /\ UNCHANGED <<pushes, cache, groups, pushed, unsettled>>

\* All customers must be cached.  A call fails, or the WPValidator refuses one
\* of them (role, no email, an order in the last two hours).
LoadCustomers(j) ==
  LET cached == jobs[j].others \cup {jobs[j].primary} \subseteq cache IN
  /\ jobs[j].pc = "customers"
  /\ UNCHANGED siteVars
  /\ \/ cached /\ Goto(j, "call") /\ UNCHANGED leftovers /\ NoFault
     \/ ~cached /\ Fails(j) /\ NoFault
     \/ Fails(j) /\ Fault
  /\ UNCHANGED <<pushes, cache, groups, pushed, unsettled>>

\* Variant: one secondary only is sent, as Shopify's customerMerge takes one.
SentOne(j) == {CHOOSE c \in jobs[j].others : TRUE}

\* The secondaries of the request.
Sent(j) == jobs[j].others

\* The plugin merges "which"; nothing for a request that does not reach it.
Executed(j, which) ==
  /\ owner' = [c \in Customers |-> IF owner[c] \in which THEN jobs[j].primary ELSE owner[c]]
  /\ disabled' = disabled \cup which

\* Another job has merged one of the customers away since this one checked.
Overlaps(j, which) ==
  which # {} /\ (jobs[j].primary \in disabled \/ ~(which \cap disabled \subseteq jobs[j].moved))

Unsettled(j, which) ==
  unsettled' = unsettled \cup (IF Overlaps(j, which) THEN Sent(j) \cup {jobs[j].primary} ELSE {})

\* The plugin answers 200; errors it reports for some customers are only logged.
CallSucceeds(j) ==
  /\ jobs[j].pc = "call"
  /\ \E which \in SUBSET Sent(j) :
       /\ Executed(j, which)
       /\ unsettled' = unsettled \cup (Sent(j) \ which)
                         \cup (IF Overlaps(j, which) THEN Sent(j) \cup {jobs[j].primary} ELSE {})
       /\ IF which = Sent(j) THEN NoFault ELSE Fault
       /\ Set(j, [jobs[j] EXCEPT !.pc = "claim", !.moved = @ \cup which])
  /\ UNCHANGED <<pushes, cache, groups, pushed, leftovers>>

\* A network error, before or after the plugin did its work: the client calls
\* again, the same request.
CallIsLost(j) ==
  /\ jobs[j].pc = "call" /\ jobs[j].calls + 1 < MaxMergeRetries
  /\ \E which \in {{}, Sent(j)} :
       /\ Executed(j, which) /\ Unsettled(j, which)
       /\ Set(j, [jobs[j] EXCEPT !.calls = @ + 1, !.moved = @ \cup which])
  /\ Fault
  /\ UNCHANGED <<pushes, cache, groups, pushed, leftovers>>

\* The last network error, a timeout, a status other than 200 or an answer that
\* cannot be used: the client gives up, whatever the plugin did.
CallFails(j) ==
  /\ jobs[j].pc = "call"
  /\ \E which \in SUBSET Sent(j) :
       /\ Executed(j, which) /\ Unsettled(j, which)
       /\ FailsAfter(j, jobs[j].moved \cup which)
  /\ Fault
  /\ UNCHANGED <<pushes, cache, groups, pushed>>

\* TryTransitionToMerged: no row, or a merged one, fails the job after the merge.
Claim(j) ==
  LET g == jobs[j].group IN
  /\ jobs[j].pc = "claim"
  /\ UNCHANGED siteVars
  /\ \/ /\ groups[g].status \in Open /\ NoFault
        /\ groups' = [groups EXCEPT ![g].status = "merged"]
        /\ Set(j, [jobs[j] EXCEPT !.pc = "cleanup", !.left = jobs[j].others])
        /\ UNCHANGED leftovers
     \/ groups[g].status \notin Open /\ Fails(j) /\ NoFault /\ UNCHANGED groups
     \/ Fails(j) /\ Fault /\ UNCHANGED groups
  /\ UNCHANGED <<pushes, cache, pushed, unsettled>>

\* Variant: the loop ends at the first failing delete.
AfterFailedDeleteStop(j, c) == {}

\* What is left to remove when the row of c could not be.
AfterFailedDelete(j, c) == jobs[j].left \ {c}

\* The rows of the secondaries go one by one; a failure is only logged.
Cleanup(j) ==
  /\ jobs[j].pc = "cleanup" /\ jobs[j].left # {}
  /\ \E c \in jobs[j].left :
       \/ /\ cache' = cache \ {c} /\ leftovers' = leftovers \ {c} /\ NoFault
          /\ Set(j, [jobs[j] EXCEPT !.left = @ \ {c}])
       \/ /\ UNCHANGED cache /\ Fault
          /\ leftovers' = leftovers \cup ({c} \cap cache \cap disabled)
          /\ Set(j, [jobs[j] EXCEPT !.left = AfterFailedDelete(j, c)])
  /\ UNCHANGED <<siteVars, pushes, groups, pushed, unsettled>>

Finish(j) ==
  /\ jobs[j].pc = "cleanup" /\ jobs[j].left = {}
  /\ Set(j, [NoJob EXCEPT !.pc = "done"])
  /\ UNCHANGED <<siteVars, pushes, cache, groups, pushed, faults, historyVars>>

\* The process dies; the recovery sweep queues the jobs that were running.
Crash ==
  /\ \E j \in Jobs : jobs[j].pc \notin {"none", "queued", "done", "failed"}
  /\ Fault
  /\ jobs' = [j \in Jobs |-> IF jobs[j].pc \in {"none", "queued", "done", "failed"} THEN jobs[j]
                             ELSE [jobs[j] EXCEPT !.pc = "queued", !.calls = 0, !.left = {}]]
  /\ UNCHANGED <<siteVars, pushes, cache, groups, pushed, historyVars>>

-----------------------------------------------------------------------------
Init ==
  /\ owner = [c \in Customers |-> c] /\ disabled = {} /\ pushes = {}
  /\ cache = Customers /\ groups = <<>> /\ jobs = [j \in Jobs |-> NoJob]
  /\ pushed = 0 /\ faults = 0 /\ leftovers = {} /\ unsettled = {}

JobStep(j) ==
  \/ CheckGroup(j) \/ LoadCustomers(j)
  \/ CallSucceeds(j) \/ CallIsLost(j) \/ CallFails(j)
  \/ Claim(j) \/ Cleanup(j) \/ Finish(j)

Next ==
  \/ Collect \/ Ingest \/ Detect \/ Dismiss \/ Crash
  \/ \E j \in Jobs : ExecuteMerge(j) \/ JobStep(j)

Spec == Init /\ [][Next]_vars

-----------------------------------------------------------------------------
\* Variables have their types; a job only moves customers of its request, and
\* has rows to remove only once it has claimed its group.
TypeOK ==
  /\ owner \in [Customers -> Customers] /\ disabled \subseteq Customers
  /\ pushes \subseteq SUBSET Customers /\ cache \subseteq Customers
  /\ groups \in Seq([members : SUBSET Customers, status : {"pending", "dismissed", "merged", "gone"}])
  /\ \A j \in Jobs :
       /\ jobs[j].pc \in {"none", "queued", "customers", "call", "claim", "cleanup", "done", "failed"}
       /\ jobs[j].attempts \in 0..MaxRetries - 1 /\ jobs[j].calls \in 0..MaxMergeRetries - 1
       /\ jobs[j].moved \subseteq jobs[j].others /\ jobs[j].left \subseteq jobs[j].others
       /\ jobs[j].group \in GroupIds \cup {Nobody}
       /\ jobs[j].primary \in (Customers \cup {Nobody}) \ jobs[j].others
       /\ jobs[j].left # {} => jobs[j].pc = "cleanup"
  /\ pushed \in 0..MaxPushes /\ faults \in 0..MaxFaults
  /\ leftovers \subseteq cache \cap disabled /\ unsettled \subseteq Customers

\* The row of a merged customer is on its way out: a job for the customer is
\* under way, unless removing the row failed, the job gave up after the merge,
\* or a push collected before the merge brought the row back.  The detector would
\* flag the customer again (processor.go:243).
MergedLeaveTheCache ==
  \A c \in disabled \cap cache :
    c \in leftovers \/ \E j \in Jobs : c \in jobs[j].others

\* Nothing but a merge takes a customer out of the cache: neither a push that is
\* no full snapshot (sync_service.go:25) nor the cleanup of a job that failed
\* half-way.  A customer for whom the plugin reported an error is the exception:
\* that is taken for a success.
ActiveStayCached ==
  [][\A c \in cache \ cache' : c \in disabled \/ c \in unsettled]_vars

\* In a merged group all orders are in one account, which can still be used,
\* however often the call was repeated by the client, the job or a restart,
\* unless the plugin reported errors or jobs for the same customers overlapped.
OrdersFollowMerges ==
  /\ \A g \in GroupIds : groups[g].status = "merged" /\ groups[g].members \cap unsettled = {} =>
       \A c, d \in groups[g].members : owner[c] = owner[d]
  /\ \A c \in Customers : owner[c] \in disabled => owner[c] \in unsettled
=============================================================================
