# MergeIQ in TLA+

A formal model of the Go backend in `src/` (MergeIQ: duplicate-customer
detection and merging for Shopify shops and WooCommerce sites). The modules are
translated from the code; every definition that stands for code is mapped to
its lines in `PROJECT.json`. TLC checks small instances, TLAPS proves selected
theorems for every instance.

Run inside this directory:

    tlc -workers 2 -config jobs_safety.cfg MCJobQueue      # any cfg, with its MC module
    tlapm JobQueueProofs.tla                               # any *Proofs module

## 1. Inventory

The backend is one Go process (`cmd/api/main.go`): an HTTP server, three worker
goroutines, a recovery-sweep ticker and an hourly scheduler. PostgreSQL holds
the state, Redis a job list and idempotency keys. Nothing in the code holds a
lock or a transaction over two statements, with few exceptions; every handler
and worker interleaves with every other between any two calls.

| Component | State it keeps | Operations | Talks to | Module |
|---|---|---|---|---|
| Job queue and workers (`services/jobs`, `queue`, `repository/job_repo.go`) | table `jobs`, Redis lists `jobs` and `jobs:processing` | Dispatch, Pop, run, retry, Acknowledge, recovery sweep | everyone dispatches; the processor runs | `JobQueue`, `JobLifecycle` |
| Processor (`jobs/processor.go`) | none | one function per job type | sync, detector, orchestrator, WordPress | each type in the module of its subject |
| Merge orchestration (`services/merge`) | `duplicate_groups.status`, `merge_records`, `snapshots` | Execute: read, validate, snapshot, merge pairs, record, link, claim, confirm | Shopify, repositories | `MergePipeline` |
| Profile validation (`merge/profile_validator.go`) | none | pure: what blocks the result of a merge | merge requests | `Reports` |
| Groups and merge requests (`merge_handler.go`, `duplicate_handler.go`, `duplicate_repo.go`) | `duplicate_groups` | Execute, SafeBulkMerge, Dismiss, list, preview | dispatcher, settings | `MergePipeline`, `Reports` |
| Snapshots (`services/snapshot`) | `snapshots` | Create, LinkToMergeRecord | orchestrator | `MergePipeline` |
| Identity detection (`services/identity`, `utils/normalization.go`) | none of its own | RunDetection: read cache, normalize, score, cluster, classify; clear pending groups, upsert groups | customer cache, groups, intelligence | `StringDistance`, `Scoring`, `Detection`; tables in `MergePipeline` and `ScanTriggers` |
| Intelligence (`services/intelligence`) | none | pure: conflicts, readiness, recommendation, simulation | detector, handlers | `Reports` |
| Customer cache and sync (`services/sync`, `customer_cache_repo.go`) | `customer_cache` | fetch pages, upsert each, DeleteStaleEntries | Shopify, webhooks, detection | `CustomerCache` |
| Webhooks (`webhook_handler.go`, `queue/idempotency.go`) | idempotency keys in Redis | customers/*, orders/*, app/uninstalled, GDPR topics | cache, dispatcher, merchants | `CustomerCache`, `ScanTriggers` |
| Billing and settings (`services/billing`, `billing_handler.go`, `settings_handler.go`, `settings_repo.go`) | one `merchant_settings` row per shop: preferences, plan, monthly counter | Get (inserts defaults), Upsert, UpdatePlan, IncrementMergeCount, Subscribe, Callback | Shopify billing, merge requests, scheduler | `BillingGate`, `DailyScan` |
| Scheduler (`jobs/scheduler.go`) | the timer | hourly: dispatch the shops whose scan hour it is, purge old notifications | settings, dispatcher | `DailyScan` |
| Notifications (`services/notification`) | `notifications` | best-effort inserts, mark read, delete old | detector, processor | `ScanTriggers` |
| WordPress (`wp_handler.go`, `services/wordpress`) | cache rows, groups, tokens | ingest pushes, merge, the WP merge job | the plugin | `WordPressMerge` |
| HTTP edge (`middleware`, `server`, `auth_handler.go`) | in-memory rate limiters | auth, routing, installation | all handlers | installation in `CustomerCache` |
| Metrics, job status | none | read-only queries | tables | `JobLifecycle` (what a poller sees) |
| Tools (`cmd/*`) | none | run by hand | database, Redis | none |

What is hard here, component by component, and what makes each correct:

* **Jobs.** The row and the Redis id are two stores updated by separate calls,
  most of whose errors are ignored; a crash or the sweep may come between any
  two. Correct means: a row that says *queued* is carried by somebody; a job is
  not given up early, not run by two workers while it behaves, reported as
  finished once, and eventually finished.
* **Merging.** A Shopify merge cannot be undone, and the group is checked at
  the start of a run and claimed at its end. Correct means: what was merged for
  a paying shop is in a snapshot, an audit record describes a merge that really
  happened, a merged group has its record, one run claims a group, and a job
  ends whatever changes under it.
* **Detection.** Pairs are found through buckets and joined in the random order
  of Go maps; the reports are computed by four pieces of code with tables of
  their own. Correct means: the groups are those that comparing all pairs would
  give; a group reported safe has no conflict that the profile validation
  blocks, full readiness means that no tag stops the merge and no phone is lost,
  and no member is a better primary than the recommended one, in whatever order
  the members come. On the tables: it
  deletes and re-creates the pending groups while merges are queued for them,
  and two may run at once; one open row per set of customers.
* **Triggers and notifications.** Dispatch debounces detections by counting
  first and inserting later; new groups are recognised by the age of rows that
  every detection re-creates. Correct means: a change of the cache is left to a
  job that still has to read the cache, and no new group goes unannounced.
* **Billing and settings.** Check and count of a merge, check and activation of
  a charge, read and write of settings are pairs of statements. Correct means:
  the limit holds up to concurrency, every merge is counted, saves do not undo
  an activation or change what they do not name, the plan follows the charges.
* **Cache, sync and webhooks.** A sync works from a list fetched earlier while
  webhooks change the same rows; deliveries are retried, duplicated, reordered
  and marked processed before they are handled; an uninstallation deletes the
  shop under all of them. Correct means: a sync repairs the cache, a row is
  stale only for a reason that can be named, no row of an existing customer
  disappears, nothing is kept of a shop that is gone.
* **WordPress.** Client and job both repeat a merge whose answer was lost, and
  the rows are removed after the merge. Correct means: the orders end in one
  usable account, and merged customers, and only they, leave the cache.
* **Scheduler.** A ticker with a phase of its own, runs that take time, restarts.
  Correct means: a scan in the chosen hour of every day, once.

The hazards are listed line by line in `PROJECT.json`, with the properties that
would catch each.

## 2. Modules and how they correspond to the code

How they fit together: `CustomerCache` fills the cache and asks for detections,
`ScanTriggers` composes asking, the detect jobs of `JobQueue` and what they do
to the tables, `Detection` is what such a job computes, `MergePipeline` and
`WordPressMerge` merge what it found, `JobQueue` carries all jobs, `BillingGate` and `DailyScan` hold the settings that gate
them. Each module abstracts its neighbours to what their properties promise,
and says so in its heading. `Detection` EXTENDS `Reports`, which EXTENDS
`Scoring`, which EXTENDS `StringDistance`; `ScanTriggers` EXTENDS `JobQueue`,
which is shown to implement `JobLifecycle`.

### JobQueue, JobLifecycle, MCJobQueue, JobQueueProofs

`JobQueue` models `Dispatcher.Dispatch`, `Worker.runLoop`/`processJob`, the
recovery sweep and the four repository and four queue calls they make. Each
call is one action, because others may run between any two.

* `status`, `retries`, `old` are the columns of `jobs` (`old`: `updated_at`
  before `now - stuckJobAge`; time itself is not modelled, `Age` lets a row
  become old). `queue` is the Redis list `jobs`, `inflight` counts the entries
  of `jobs:processing`. `dispatch`, `pc`, `job`, `seen` are where each Dispatch
  call and each worker goroutine stand and what they have read; `stuck` and
  `requeuing` are the sweep's.
* Calls whose errors the code ignores (`UpdateStatus`, `IncrementRetries`,
  pushes, acknowledgements) have a branch in which nothing happens. The job is
  then in the history variable `faulted`.
* `Crash` empties what goroutines hold and keeps the tables and lists.
  `DeleteMerchant` (uninstall, shop redaction) removes rows while ids remain.
* `Age` with a holder (an *overrun*) is a job that runs longer than
  `stuckJobAge` without touching its row.

`JobLifecycle` is the abstract promise of `GET /jobs/:id`. `JobQueue` states the
refinement (`Lifecycle`, with `state <- status, attempts <- retries`);
`MCJobQueue` has the instances, `JobQueueProofs` proves it.

### MergePipeline, MCMergePipeline, MergePipelineProofs

One shop: merge requests and bulk merges dispatch jobs, each job runs
`Orchestrator.Execute` call by call (`Begin`, `LoadAndValidate`,
`CreateSnapshot`, `MergePair`, `CreateRecord`, `LinkSnapshot`, `Transition`,
`Confirm`), detections (`DetectLoad`, `DetectClear`, `DetectCreate`,
`DetectEnd`) rewrite the groups, the merchant dismisses groups, Shopify decides
which customer of a pair survives, merged customers leave the cache later, and
the process may crash. The queue below is abstracted to what `JobQueue`
promises: a failed run is tried again up to `maxRetries`, an interrupted one
starts again.

Abstractions: the detector's scoring and clustering is a partition `Persons`
of customers (a group is the cached part of a person with two members or more);
a merge is complete when Shopify answers `customerMerge` (the code asks for the
job's `done` flag and ignores it, `customer.go:264-294`, and
`orchestrator.go:323` expects that Shopify may still be consolidating orders:
that Shopify does consolidate is assumed);
ids in a request are arbitrary, as in the code, except that the primary is not
among the secondaries; a subscription tag does not change; the plan of the shop
is constant here (it changes in `BillingGate`); only customers that Shopify
merged away leave the cache. `winners`, `unrecorded` and `reopened` are history.

### BillingGate, MCBillingGate, BillingGateProofs

One row of `merchant_settings`: `Read` and `Create` are the two statements of
`settingsRepo.Get` (which inserts defaults when there is no row and returns
them even when another request was faster), `DispatchMerge` and `CountMerge`
the rest of `MergeHandler.Execute`, `SaveSettings` the write of the settings
page, `Subscribe`/`Verify`/`Activate` the billing handlers, `Decide` what the
merchant and Shopify do with a charge. The callback is as lenient as the code:
`Verify` lets an active and a pending charge pass, one that Shopify does not
know, and any charge when the request fails; the plan is a parameter of the
request that nothing compares with the charge, and the callback may be loaded
at any time, for any plan. `Activate` is the UPDATE, which without a row does
nothing and reports no error. Preferences are in `DailyScan`: a save writes them
and neither plan nor counter. History: `accepted` counts merges let through for a
shop without a paid plan, per month; `activated` is the last activation,
`confirmed` the charges whose callback came through, `mishaps` what happened to
callbacks after which the plan may differ from what is paid.

`OvershootBounded` and `CounterCoversMerges` are about `MergeHandler.Execute`:
`SafeBulkMerge` (`merge_handler.go:281-290`) looks at the plan only, lets a shop
through whose settings cannot be read and counts nothing, and the WooCommerce
merge (`wp_handler.go:967-981`) has no limit. Neither is an action here.

### DailyScan, MCDailyScan, DailyScanProofs

The preferences of the same rows and who reads them on a timer. `rows` are the
shops that have one. `ReadSettings` is the SELECT of `settingsRepo.Get` in its
three outcomes: a row; no row, after which `CreateSettings` inserts the defaults,
over a row that may have come since, and the request goes on with the defaults;
an error, after which the settings page goes on with the defaults too.
`NextRequest` is what the page makes of the settings (`Applied`,
`enforceSettingsGates`) and whether it writes them: an update always, a GET when
a gate of the plan changed something, which it does after a failed read. Other
callers of Get write nothing further (`body = Nothing`). `Upsert` is the write of
all columns; what another request saved in between is overwritten. A GET that
corrects a gated preference other than the scan hour writes what a request with
an unchanged preference writes, and is covered by it. The scheduler
is `Start` (sleep to the next hour, first run, then a ticker of its own phase),
`BeginRun` (reads the hour once, purges notifications in hour 0), `Visit` one
shop at a time, `ListFails`, `EndRun`, `Stop`. Time is counted in steps of an
hour, timers fire in time (`Tick` waits for a timer that is due), work takes as
long as it likes; a tick that comes while one waits is dropped, as Go's ticker
does. Two of the preferences are kept: the scan hour (`OnWebhook` is the default,
`Never` stands for `auto_detect` off or manual) and one that no plan gates.

### CustomerCache, MCCustomerCache, CustomerCacheProofs

The shop at Shopify (`shop`), its webhooks under way (`net`, delivered in any
order, again and again until acknowledged), the merchants row (`merchant`, the
number of the installation it belongs to) and the cache. A profile is two
version numbers that only grow, one for the columns of `customers/*`, one for
those of `orders/*`; `history` stands for the columns only the sync can fill.

* A webhook is `Receive` (check and set the idempotency key, then look up the
  merchant), `Apply` (the statement of its topic), `Respond`; a key may `Expire`
  before the retries end; GDPR topics have no key. Statements of a merchant
  whose row is gone have no effect (foreign keys), which is `Statement`.
* A sync is `BeginSync`, `FetchPage` per page, `UpsertFetched` per customer,
  `CleanStale`, `EndSync`; pages are fetched while the shop changes.
* `Install`, `RegisterAll`, `Uninstall` are the OAuth callback, the
  registration of the topics and what Shopify does. `astray` records why a row
  may be stale, `quiet` that nothing but the sync touched shop and cache.

### ScanTriggers, MCScanTriggers, ScanTriggersProofs

From asking to announcing, composed with the queue: `ScanTriggers` EXTENDS
`JobQueue`, and every step is a step of `JobQueue` or leaves its variables alone.
What `JobQueue` knows of a detect job therefore applies: the debounce in two
statements, which counts rows that are *queued* and not those *processing*; a
push, a mark or an acknowledgement that is lost; retries up to `MaxRetries`;
rows that stay *processing* after a crash until they are old enough for the
sweep.

* `Ask` is a caller of `Dispatch` (webhook, end of a sync, daily scan, button)
  that has changed the cache. `unseen` (history) is the job that is to see the
  change: the one to be inserted, or those the debounce counted.
* `JobStep` is a step of the worker. While it is in `processJob`, the detection
  goes call by call: `Load` reads the cache, `Clear` deletes the pending groups,
  `Create` upserts one group each, and when the job has stored its result
  `Notify` and `Announce` are `OnDetectComplete`. Only a failing `Load` makes the
  job fail (`MayFail`); the errors of the others are logged.
* `GroupsAge` lets the 15 minutes pass in which a group counts as new, `Close` is
  a merge or dismissal, `ScanUninstall` the cascade, `ScanCrash` ends detections
  and announcements, `Elsewhere` is the rest of the queue (rows, pushes, sweep).
  `due` (history) are the groups the shop must still be told of.

### WordPressMerge, MCWordPressMerge, WordPressMergeProofs

The plugin's pushes (`Collect`, `Ingest`), the administrator's merge requests
(`ExecuteMerge`, for a group and any customer as primary: the handler does not
look whether it is a member, `wp_handler.go:922-939`), and `processWPMerge` call by call: `CheckGroup`,
`LoadCustomers`, then the call in its three outcomes (`CallSucceeds`, with
customers the plugin reports errors for; `CallIsLost`, after which the client
repeats it; `CallFails`, after which the job is tried again), `Claim`, `Cleanup`
row by row, `Finish`; `Crash` starts running jobs again. The plugin itself is
not in the repository: `Executed` is what the client's documentation says of
it. `owner` and `disabled` are the accounts of the site; `leftovers` and
`unsettled` are history.

### StringDistance, Scoring, Reports, Detection, MCDetection, DetectionProofs

The pure part of the detection, on rows with normalized fields. Words are
sequences of letters. `StringDistance` has `Levenshtein` and `JaroWinkler` in
thousandths, rounded down where thresholds compare with *at least*, and
`JaroWinklerAtMost`, which compares with *at most* and does not round; `Scoring` normalization, the signals of a pair, the weights, the
behavioral rules, caps and guards of `scorer.go`; `Reports` what is said of a
group: conflicts, readiness, recommended primary, simulation, anchors, business
risk, risk level, and the checks of `validator.go` and `profile_validator.go`.
They are operators and recursive functions. `Detection` is the algorithm as a
state machine, because Go maps make its order random: `Score` (buckets, pairs),
`Join` pairs in any order (`ClusterPairs` with union by rank), `Classify` groups
with their members in any order.

Scores are integers in thousandths, and where rounding could decide (an anchor
score of exactly one half) the model follows floating point, with the case
named. Names are sequences of words, e-mails have a local part (with or without
a `+tag`) and a domain, addresses a street, unit, city, zip and country.

## 3. Runs

| Run | Instance | States | Question and answer |
|---|---|---|---|
| `jobs_safety` | 2 detect jobs of a shop, 2 workers, `MaxRetries` 2, any two of {crash, failed call, overrun} (`TwoTroubles`) | 1.9 M | No id is lost by any interleaving; no job is given up early; `jobs:processing` matches the holders; one runner, one effect, and no re-opening, for jobs that end within `stuckJobAge`. |
| `jobs_live` | a detect and a merge job, 2 workers, 1 crash, `FairSpec` behaviours | 0.1 M | Every queued job ends, every `processing` row is handed out again; the rows follow `JobLifecycle`. |
| `merge_race` | 3 customers, 2 jobs, 2 groups, 2 overlapping detections, bulk merge, dismissals | 1.4 M | Records are true, merged groups audited, one winner per group, one open row per set. |
| `merge_faults` | 3 customers, 1 job with 2 attempts, a detection, a lost answer or failed call, a crash; fair | 0.4 M | Paid merges are backed up by the run that made them; the job ends. |
| `billing_gate` | 2 merging clients, 1 saving, 2 charges with callbacks for any plan, 2 months, limit 1, 1 fault (`FewCallbacks`) | 1.3 M | The limit is exceeded by at most one merge per concurrent request and per ignored failure; the counter covers every merge; saves keep the plan; a paid plan is that of an approved charge, and of the active one once its callback came through, but for named mishaps. |
| `billing_lockout` | 1 client, limit 2, 2 months | 50 | *Violated*: a shop that used up one month is refused in the next (a bug, see 3.1). |
| `cache_sync` | 2 customers on 2 pages, 1 webhook request, a sync, 2 events, 2 installations, 1 fault | 0.6 M | A sync repairs everything; a row is up to date unless something named happened; existing customers keep their rows; nothing is kept of a gone shop. |
| `daily_scan` | 1 shop, with or without a row, 2 requests, days of 2 hours of 2 steps, 4 hours, 2 faults | 1.6 M | A scan in its hour of every day, once; a request changes only what it names, unless it read too early or could not read. |
| `scan_triggers` | 2 detect jobs of a shop, 2 workers, 2 groups, `MaxRetries` 2, one of {crash, failed call, overrun} (`OneTrouble`) | 1.1 M | A change is left to a job that still has to read the cache, or that failed after all its attempts; every new group is announced. |
| `wordpress` | 3 customers, 2 jobs with 2 attempts of 2 calls, 2 groups, any primary, 1 push, 1 fault | 3.8 M | Orders end in one account; merged customers, and only they, leave the cache. |
| `detection` | every group of up to 4 of 9 customers and some of 5, 4 preferences | 13,381 | The groups are the components of all accepted pairs; what a report says of safety, readiness and the primary holds when the group is merged. |
| `detection_spread` | the same | 6,940 | *Violated*: a safe group with a risky pair in it (see 3.1). |

### 3.1 What the code does and its documents do not say

`billing_lockout` is a defect: `merges_this_month` is compared with the limit
without regard to `merges_month_start`, and it is reset only by
`IncrementMergeCount`, which runs after the check let a merge through. A free
shop at its limit is refused in every later month. `detection_spread` is a
disagreement with a comment: the severity of the worst pair of a group is
computed (`detector.go:230`) and then not used, while `detector.go:602` says it
makes the cluster risky. Both are quoted in `PROJECT.json` under `findings`.

Other disagreements met while modelling, which the models contain and no run of
its own shows:

* Jobs. A failed LPUSH in Dispatch leaves a row queued for ever, while
  `dispatcher.go:63` says the sweep can re-queue it. If it is a detect job, the
  debounce (`dispatcher.go:39`) counts it from then on and skips every later
  detection of the shop; so it does after a lost mark (`worker.go:122`) or a crash
  between pop and mark. An id popped before a
  crash stays in `jobs:processing`; `queue.go:30` and `:53` promise
  re-delivery, `Requeue` has no caller. A job that completes after the sweep
  listed it is reset and run again (`worker.go:116`).
* Merging. `SafeBulkMerge` sends no plan, so its jobs take no snapshot
  (`merge_handler.go:355`). Of two overlapping detections the second may store a
  group with a customer that is gone (`detector.go:112`). `Dismiss` re-opens a
  merged group (`concurrent_test.go:80`). `plan.go:5` speaks of 10 free merges,
  `MergeLimitFree` is 5.
* Billing. A comment wants the subscription "actually ACTIVE before activating
  the plan" (`billing_handler.go:142`); a PENDING or unknown status passes
  (`:159`), a failed check too (`:154`), and the plan is the one the request names
  (`:118`, `:167`).
* Webhooks and settings. Every handler error is answered with 200 after the key
  is set, so the event is lost (`webhook_handler.go:118`). A save that cannot
  read the settings writes defaults over the fields the request does not name
  (`settings_handler.go:88`); so does one of two saves at once with the other's
  fields, a GET that cannot read them (`:29`), and whoever found no row and
  inserts the defaults after another has saved (`settings_repo.go:48`).
* Notifications. A group re-created within 15 minutes is announced again
  (`notification/service.go:47`).
* WordPress. `wordpress/client.go:83` says an answer from the plugin is never
  retried; the client keeps to it and the job does not.
* Detection. `cluster_test.go:40-41` and `:63-73` assert that a high name
  similarity with a partial address match (base 0.76) is no strong signal and
  must not cluster; `cluster.go:62` accepts it, and so does `HasStrongSignal`.
  The instance of `detection` has such a pair (customers 2 and 5 under
  `NoContacts`), so that `GroupsAreComponents` is about the relation of the code,
  not that of the test. Customers without a name count as having the same name;
  `OrderAddressConflict` depends on the order of the pair; a behavioral rule can
  lower a score an exact e-mail gave; a known age beats an unknown one and an
  unknown one falls back to the last update, so that the recommended primary
  may depend on the order of the members; "membership" costs readiness but does
  not stop a merge; the conflict of phone country codes never occurs, because
  normalization strips the "+"; two customers with the same e-mail local part
  and order address but unlike names at different domains are never compared,
  although a behavioral rule exists for them; the order names the sync stores
  are Shopify's order numbers (`customer.go:212`), which never equal a
  customer's name.

Some properties say what holds *unless* one of these has happened, and show that
nothing else leads there. They name the mishaps and do not claim the code avoids
them: `faulted` and `overruns` in `QueuedIsCarried`, `OneRunner`,
`SuccessPaidByCrash`, `FinishedIsFinal` and `ChangesAreScanned`, `astray` in
`CurrentRows`, `quiet` in `SyncRepairs`, `mishaps` in `PlanFollowsCharges`,
`mayChange` in `OtherPreferencesKept`, `leftovers` and `unsettled` in the
WordPress properties. What is lost in these cases is in the list above.

### 3.2 Bounds and why they suffice

* Two workers and two jobs of one shop are what it takes for duplicates,
  debounce and retry races; a third worker only adds a bystander. `MaxRetries`
  is 2 instead of 3 so that *last* and *not last* attempts both occur.
* `MaxQueue` keeps the sweep from pushing into a list that already holds both
  jobs; real sweeps are minutes apart.
* `MaxCrashes`, `MaxFaults`, `MaxOverruns` count troubles in one behaviour;
  `TwoTroubles` allows each pair of them in `jobs_safety`. Hazards of the code
  need at most one crash and one lost call to bite.
* Merging: three customers give merges of two pairs, which may stop halfway; two
  merge jobs give the race for a customer and for a group. `Groups` bounds how
  many rows are ever created. `merge_race` leaves out faults, `merge_faults` the
  second job: together they exceed what can be enumerated in minutes.
* Billing: a limit of one or two is reached, overshot and crossed by a turn of
  the month; `MaxCount` ends behaviours beyond it. `FewCallbacks` (a CONSTRAINT)
  keeps the product of two independent parts small: a behaviour has one mishap of
  the callbacks at most, and several clients are under way only while no callback
  is and none had a mishap; one client and all callbacks interleave freely. The
  proofs have no such bound.
* Cache: two customers on two pages give a change between two pages, a stale
  row next to a fresh one and a partial sync; two events give an older and a
  newer version under way at once; two installations give webhooks and syncs of
  the one before. One request besides the sync: two requests for one customer
  race through re-deliveries, whose order is free.
* Daily scans: two hours a day and two steps an hour are the least in which a
  tick can drift within its hour and a run pass into the next; four hours are
  two days. `MaxTime` ends the behaviour. Two requests are what it takes to
  insert defaults over a row another has saved.
* Triggers: two dispatches race through the debounce, two workers through the
  tables; two groups give one that is old and one that is new. `OneTrouble`
  allows one crash, one lost call or one overrun; combinations of two are in
  `jobs_safety` for the queue alone, and the proofs have no such bound.
* WordPress: two jobs of two calls and two attempts over three customers give
  repeated and overlapping merges; one push is enough to arrive late.
* Detection: the nine customers of `MCDetection` are chosen so that each signal,
  rule, bucket, conflict, anchor part and risk rule holds of some group and
  fails of another, with sparse and dense clusters. `CrossDomainLimit`
  (500 in the code) is 4, so that both sides occur. The string metrics are
  compared on all words of up to three letters of two with the fewest edits
  found by search, and tested for symmetry (`ASSUME`s of `MCDetection`).
* Symmetry is used where only safety is checked. `CHECK_DEADLOCK` is off
  because a system whose jobs have ended, or whose bounds are used up, may stop.

### 3.3 Fairness

`JobQueue.FairSpec`: worker goroutines loop for ever (`worker.go:51-98`), the
sweep's ticker fires (`:144`), a Dispatch call that began goes on, and
`updated_at` of an untouched row gets old because time passes. No fairness is
assumed of users, crashes, faults or overruns. `MergePipeline.FairSpec`: a
dispatched job and a detection are carried on, which is what
`EventuallyFinished` establishes of the queue for jobs that lost no call. The
other modules state what must hold whenever things have come to an end (the
scan of an hour that is over, the cache after a sync, the group nobody is left
to announce), and need no fairness.

## 4. Proofs

All proofs are from the named assumption of their module alone, which asks for
finite sets where the code has them (workers, clients, customers) and natural
numbers as bounds. The step from an inductive invariant to a theorem is the same
everywhere: it holds initially, every action keeps it (one step per action, one
lemma where an action disturbs several parts), and it implies the property. Each
of the inductive invariants was checked by TLC on the instance of a run first.

`JobQueueProofs` (any jobs, workers, merchants and bounds):

* `TypeCorrect`: `Spec => []TypeOK`.
* `QueuedCarried`: `Spec => []QueuedIsCarried`. With `TypeOK` the property is
  inductive: a row becomes *queued* only by somebody who then pushes, an id
  leaves the list only into the hands of a worker, and a worker lets go of it
  only after the row has moved on or the id was pushed, or it lost a call.
* `IdsCreated`: ids in flight belong to inserted rows (`IdsAreCreated`).
* `FailedExhausted`: `Spec => []FailedIsExhausted`, from the inductive
  `RetryInv`: ids are created, what a worker read is not ahead of the row
  (`SeenIsBehind`), and failed rows are exhausted. The strengthening is needed
  because the decision to give up uses a count read before the run.
* `InFlightCounts`: `Spec => []InFlightMatchesHolders`, inductive with `TypeOK`;
  `HoldersChange` says how one worker changes the number of holders.
* `RunsOnce` and `SuccessPaid`: `OneRunner` and `SuccessPaidByCrash`, from
  `HandoffInv`. Of a job that is calm (no call about it lost, no overrun so far)
  it says that the id is in one place, the list, one worker, the sweep, or
  nowhere (`OneCarrier`), that the status of the row says which (`RowFits`), and
  that the job has succeeded once more than there were crashes only while that is
  being stored or has been (`SuccFits`). The properties alone are not inductive:
  that a worker pops an id nobody runs follows from where the id was before.
  `CalmBefore` allows to reason backwards: a job that is calm always was.
* `FinishedStays`: `Spec => FinishedIsFinal`, an action property, and
  `ImplementsLifecycle`: `Spec /\ []Undisturbed => LifecycleSpec`, both from
  `HandoffInv` and `RetryInv`, which tell what the status is when a statement of
  a worker or of the sweep overwrites it. `Undisturbed` (no lost call, no
  overrun) is the condition under which the code keeps the promise: a lost
  UPDATE leaves a row *queued* that runs and fails, and a job that overruns is
  re-opened when it has ended, so that without it the implication is false.
  Crashes, duplicates and departing merchants are not excluded.

`MergePipelineProofs` (any customers, persons, groups, jobs, detections and
bounds):

* `TypeCorrect`.
* `BackedUp`: `Spec => []PaidMergesAreBackedUp`, from `BackupInv`: a run that
  may merge already has its snapshot when its plan includes snapshots, and a
  job that merged something was dispatched, so that its payload no longer
  changes. Without the first part a run between snapshot and merge is not
  covered, without the second a later dispatch could change the plan.
* `RecordsTrue`: `Spec => []RecordsAreTrue`, from `MergesInv`: what Shopify has
  left of a job's customers is among the survivor and the secondaries still to
  merge, and shrinks to one before the record is written. This is where it
  matters that a run starts again from the requested primary.
* `Exclusive` and `MergedAreAudited`: `OneWinner` and `MergedGroupsAreAudited`,
  from `ClaimsInv`: a run that is past its record is audited or noted as
  unrecorded, a merged group has a winner, and a group with a winner is still
  merged or was dismissed after the merge, so the compare-and-set of
  `TryTransitionToMerged` finds no second winner.
* `OneOpenGroup`: `OneOpenGroupPerSet`, inductive with `TypeOK`.

The proofs rest on frame lemmas (`RunIsLocal`, `RunAbsorbs`, `OthersFramed`,
`RunRecords`, `RunClaims`, `OthersClaimNothing`) that say what a step of one
job leaves alone.

`BillingGateProofs` (any clients, charges, limit and bounds):

* `TypeCorrect`.
* `PlanKept`: `Spec => []PlanSurvivesSaves`, from `PlanInv`, which adds that
  nothing is activated while there is no row.
* `PlanFollows`: `Spec => []PlanFollowsCharges`, from `ChargeInv` and the plan
  invariant: at most one charge is active; as long as no callback named another
  plan, came before the decision or went unanswered, a callback that has checked
  its charge, and an activated paid plan, belong to a charge that was approved;
  and without any mishap the callbacks under way and the confirmed charges are
  those of the active one. One lemma for each of `Verify`, `Activate`, `Decide`.
* `CounterCovers`: `Spec => []CounterCoversMerges`, from `CountInv`: it adds the
  months that have not come, the month of the counter and what holds while there
  is no row to count in, when every request past the check has paid for it with a
  failed read.
* `OvershootIsBounded`: `Spec => []OvershootBounded`, from `LimitInv`, which
  keeps room under the limit for all requests that passed the check and are not
  accepted yet (`Passing`). That the check is right when it reads the counter is
  `CountInv`.

`CustomerCacheProofs` (any customers, pages, requests and installations):

* `TypeCorrect`, whose strengthening says that ids of merchants in the hands of
  requests and of the sync were once inserted.
* `GoneShop`: `Spec => []NothingKeptOfGoneShop`, from `KeepInv`: nobody ever
  acts for merchant 0, and `Statement` writes for the merchant that is there
  only.
* `LiveKept`: `Spec => LiveRowsKept`, an action property, from `DeadInv`:
  Shopify never uses an id twice, so a `delete` or `redact` webhook, wherever it
  is, is about a customer who is gone for good.
* `RepairedBySync`: `Spec => []SyncRepairs`, from `QuietInv`: while nothing
  disturbs it, a sync has fetched exactly the customers of the pages behind it
  (`FetchInv`) and has written exactly those that are not in its list any more
  (`UpsertInv`). That the last page with a customer on it exists and ends the
  list (`SomeoneIsLast`) is shown by descent over the finite set of customers.
* `RowsCurrent`: `Spec => []CurrentRows`, from `RowInv` and `HookInv`: a row that
  is out of date, and likewise a webhook that would make it so, is followed by a
  pending webhook that tells what is true, column by column, because topics write
  different columns. `IdInv` makes "followed" meaningful: ids are not used twice.

`ScanTriggersProofs` (any jobs, workers, shops, groups and bounds):

* `ScansAreJobs`: `ScanSpec => Spec`, every behaviour is one of `JobQueue`; its
  theorems and invariants hold here and are used as such.
* `ScanTypeCorrect`: `ScanSpec => []ScanTypeOK`, from `ScanTyped`, which adds
  where in its job a worker is for each stage of its detection (`StagesFit`).
* `ChangesScanned`: `ScanSpec => []ChangesAreScanned`, from `UnseenInv`, with
  `HandoffInv` and `RetryInv` of `JobQueueProofs`. A job that a change was left to
  and that lost no call is in one place, so while its row is *queued*, which is
  when the debounce relies on it, nobody is past its load: whoever runs it later
  starts with the load, and from then on the change is seen. The row leaves
  *queued* and *processing* without a load only by failing after all attempts
  (`RetryInv`) or with its shop (`GoneInv`).
* `GroupsAnnounced`: a group the shop must be told of is recent, and whoever
  created it, or cleared and created it again, has still to notify.

`WordPressMergeProofs` (any customers, jobs, retries and bounds):

* `TypeCorrect`. A job's request names a whole group, to be merged into one of its
  members or into another customer (`JobInv`); what it moved and has left to
  remove are among the secondaries of the request.
* `MergedLeave`: `Spec => []MergedLeaveTheCache`, from `RemovalInv`: a disabled
  customer in the cache is a left-over or is still to be removed by a job, its
  rows left during the cleanup and all its secondaries before.
* `ActiveStay`: `Spec => ActiveStayCached`, an action property, from
  `MergedInv`: a job that claims and cleans up has merged all its secondaries,
  or knows of those it has not.
* `OrdersFollow`: `Spec => []OrdersFollowMerges`, from `OrdersInv`: who is not
  disabled owns their orders, and what a job has moved is where its primary's
  orders are, even when the primary has been merged away in turn; `Executed`
  moves whole accounts, so who shares one goes on sharing one (`SharedStays`).

`DailyScanProofs` (any shops, requests and plans):

* `PreferencesKept`: `Spec => OtherPreferencesKept`, from `KeepInv`: what a
  request is going to write, be it the defaults it inserts, differs from the row
  only in what it may change, because a write in between makes it outdated and a
  shop without a row has the defaults.
* `TypeCorrect`.
* `ScansDaily`: `Spec => []ScannedOnceADay`, from `ScanInv`, which says of each
  stand of the scheduler (before the first run, in a run, between runs) which
  hours have been served and in which hour the next tick falls. The property
  speaks of hours that are over; the invariant knows the one that is on, shop by
  shop. The lemmas on hours and ticks are the arithmetic of a ticker that has its
  own phase within the hour.

`DetectionProofs` (any customers, settings, limit for comparing all names, order
of the pairs and of the members of a group). `DetectionAssumption` says of the
inputs what the proofs need of them: they are sequences of rows, and the fields
of a row are of the kinds that the columns of `customer_cache` are (`IsRow`).

* `GroupsRight`: `Spec => []GroupsAreComponents`, from `GroupInv`. Its heart is
  `TreesAreLinked`: `parent` and `rank` are a forest (`Forest`) whose roots tell
  apart exactly the customers that the pairs joined so far do not link.
  `CompressKeepsForest` and `UnionMerges` are `Find` and `Union`, `FindsTop` says
  that the walk up ends in the root. The rest is about the buckets: of two
  customers in no common bucket and with unlike names, the score is zero but in
  a blind spot (`BucketsSuffice`), so that the pairs found are all pairs that
  count (`ReferenceIsPairs`). It needs that normalizing twice changes nothing
  (`NormalizedOnce`): the code normalizes the rows and `ScorePair` does again.
* `ReportsKeepTheirWord`: `Spec => []ReportsAgreeWithGates`, from `ReportInv`. A
  report is made of normalized rows in a random order, the gates see the rows as
  they are stored: `ReportAgrees` shows that neither matters to a conflict that
  blocks (`BlockingIsSeen`), that a group with one is never safe
  (`SafeIsNotBlocked`), that penalties which sum to zero are all zero
  (`SumIsNothing`), and that the lexicographic order of primaries is one, so that
  whoever remains is at least as good as all (`AtLeastIsOrder`, `PrimaryIsBest`).
* `TypeCorrect`: `Spec => []TypeOK`, from `GroupInv` and `TypeInv`. That a root of
  rank k has 2^k customers under it (`RootsAreHeavy`) is inductive with the
  forest: a rank grows only when two trees of equal rank, which share no
  customer, become one (`GrowingRootIsHeavy`). That a score is between 300 and
  980 thousandths needs the types of all distances below it
  (`LevenshteinIsNumber`, `JaroWinklerIsNumber`, `ConfidenceInRange`).

The recursive functions of the model (walks in the union-find, distances, words,
sums) are unfolded by `Climb`, `Recursion` and `TypedRecursion`: induction and
recursion up to a bound, stated of sets and functions, because the provers cannot
instantiate the theorems of the library that take an operator. What they show is
what a value is bounded by or keeps, not what `Levenshtein` or `JaroWinkler`
computes: that the distances are right is tested by TLC (`ASSUME`s of
`MCDetection`).

Only model-checked is liveness (`EventuallyFinished`, `ProcessingIsRecovered`,
`RequestsSettle`): fairness and ENABLED are beyond the prover.

## 5. Plan

Done: the queue, merging, billing, the cache with its webhooks and sync, the
triggers, the scheduler and the settings, WordPress merges, the detection as
functions; and every safety property that a run checks is proved.

Next, in this order:

1. Theorems about the operators of the scoring: that a penalty never raises a
   confidence, and for which signals the order of the two rows matters.
2. A composition of `JobQueue` with `MergePipeline`, as `ScanTriggers` has it for
   detections, and an abstract ledger of merges that `MergePipeline` and `WordPressMerge` both implement.
3. The tokens of WordPress sites (registration, refresh, revocation).

## 6. Not modelled

* Registration and refresh tokens of WordPress sites
  (`wp_refresh_token_repo.go`): single statements on a table no other component
  reads; two registrations at once leave two valid tokens, which is listed as a
  hazard without a property. The dashboard, history and lists of the WordPress
  pages only read.
* Restore jobs: the processor only logs them. `PurgeOlderThan`, `Requeue`,
  `DeleteStaleEntriesForPlatform`, `durationUntilUTCHour` and `order.go` have no
  caller. Nothing reads `confirmed_by_user`.
* The wording of reports: breakdown, summary, reasons and flags.
* HTTP parsing, authentication, signatures, encryption, rate limits and logging:
  no state the other components read. Waiting for Shopify's rate limit takes
  time only.
* Metrics and listings: read-only queries.
* The command-line tools under `cmd/`, which operators run by hand.
