----------------------------- MODULE BillingGate -----------------------------
(***************************************************************************)
(* The billing plan of one shop and its monthly merge limit: one row of    *)
(* the table merchant_settings, which merge requests read, check and count *)
(* in, which the settings page reads and writes back whole, and whose plan *)
(* the callback of a Shopify charge sets.  No transaction spans two of     *)
(* these statements.                                                       *)
(*                                                                         *)
(* Of the row only what billing reads is kept; the preferences, which a    *)
(* save overwrites, are left out.                                          *)
(***************************************************************************)
EXTENDS Naturals, FiniteSets

CONSTANTS
  Mergers,    \* clients that request merges, one request after the other
  Savers,     \* clients that save settings
  Charges,    \* subscriptions the shop creates
  PlanOf,     \* the plan each charge was created for
  Absent,     \* no row; also: settings that could not be read
  FreeLimit,  \* MergeLimitFree
  MaxMonth,   \* bound: the last month
  MaxCount,   \* bound: merges are requested while the counter is below it
  MaxFaults   \* bound: calls that fail

Clients == Mergers \cup Savers

ASSUME BillingGateAssumption ==
  /\ Mergers \cap Savers = {} /\ IsFiniteSet(Mergers)
  /\ PlanOf \in [Charges -> {"basic", "pro"}]
  /\ FreeLimit \in Nat \ {0}
  /\ MaxMonth \in Nat /\ MaxCount \in Nat /\ MaxFaults \in Nat
  /\ Absent \notin [plan : {"free", "basic", "pro"}, used : Nat, window : Nat]

VARIABLES
  row,       \* plan, merges_this_month and merges_month_start, or Absent
  month,     \* the current month
  pc,        \* the statement each client's request executes next
  seen,      \* the settings it read
  charge,    \* status of each charge at Shopify
  callback,  \* for each charge, the plans of callbacks that have checked it
  faults,    \* how much of the bound is used
  \* History, read by the properties only:
  accepted,  \* merges accepted in each month without a paid plan
  activated, \* the plan last activated by a callback
  confirmed, \* charges whose callback came through
  mishaps    \* what happened to callbacks that lets the plan deviate

vars == <<row, month, pc, seen, charge, callback, faults, accepted, activated,
          confirmed, mishaps>>
clientVars  == <<pc, seen>>
billingVars == <<charge, callback, activated, confirmed, mishaps>>

Months == 0..MaxMonth
PaidPlans == {"basic", "pro"}
Rows == [plan : {"free"} \cup PaidPlans, used : Nat, window : Months]

\* Variant: the end of the window is stored.
DefaultsWithWindowEnd == [plan |-> "free", used |-> 0, window |-> month + 1]

DefaultSettings == [plan |-> "free", used |-> 0, window |-> month]

Fault   == faults < MaxFaults /\ faults' = faults + 1
NoFault == UNCHANGED faults

-----------------------------------------------------------------------------
\* The statements.

\* Variant: the plan of the struct is written back too.
UpsertWithPlan(settings) ==
  row' = IF row = Absent THEN DefaultSettings
         ELSE [row EXCEPT !.plan = IF settings = Absent THEN "free" ELSE settings.plan]

\* INSERT ... ON CONFLICT DO UPDATE of the preferences: plan and counter are
\* neither inserted, so that they get the defaults, nor updated.
Upsert(settings) == row' = IF row = Absent THEN DefaultSettings ELSE row

\* UPDATE, without effect and without an error when there is no row.
UpdatePlan(plan) ==
  /\ row' = IF row = Absent THEN Absent ELSE [row EXCEPT !.plan = plan]
  /\ activated' = IF row = Absent THEN activated ELSE plan

\* Variant: the merge that starts a month is not counted.
IncrementFromZero ==
  row' = IF row = Absent THEN Absent
         ELSE IF row.window < month
              THEN [row EXCEPT !.used = 0, !.window = month]
              ELSE [row EXCEPT !.used = @ + 1]

\* The counter starts again with the first merge counted in a new month.
IncrementMergeCount ==
  row' = IF row = Absent THEN Absent
         ELSE IF row.window < month
              THEN [row EXCEPT !.used = 1, !.window = month]
              ELSE [row EXCEPT !.used = @ + 1]

\* Variant: one merge too many.
CheckMergeAllowedPast(plan, used) == plan \in PaidPlans \/ used <= FreeLimit

CheckMergeAllowed(plan, used) == plan \in PaidPlans \/ used < FreeLimit

Goto(c, p) == pc' = [pc EXCEPT ![c] = p]
Answer(c) == Goto(c, "idle") /\ seen' = [seen EXCEPT ![c] = Absent]

-----------------------------------------------------------------------------
\* settingsRepo.Get and what its callers do with the settings.

\* A merge request is refused at the limit; settings that cannot be read do
\* not stop it.  A save starts from the defaults when they cannot be read.
Refused(settings) ==
  settings # Absent /\ ~CheckMergeAllowed(settings.plan, settings.used)

Proceed(c, settings) ==
  IF c \in Mergers /\ Refused(settings) THEN Answer(c)
  ELSE /\ seen' = [seen EXCEPT ![c] = settings]
       /\ Goto(c, IF c \in Savers THEN "save" ELSE "dispatch")

Start(c) ==
  /\ pc[c] = "idle"
  /\ row # Absent => row.used < MaxCount
  /\ Goto(c, "read")
  /\ UNCHANGED <<row, month, seen, billingVars, faults, accepted>>

\* The SELECT of Get; a request that finds no row goes on to insert one.
Read(c) ==
  /\ pc[c] = "read"
  /\ \/ row # Absent /\ Proceed(c, row) /\ NoFault
     \/ row = Absent /\ Goto(c, "create") /\ UNCHANGED seen /\ NoFault
     \/ Proceed(c, Absent) /\ Fault
  /\ UNCHANGED <<row, month, billingVars, accepted>>

\* ... and returns the defaults even when another request was faster.
Create(c) ==
  /\ pc[c] = "create"
  /\ \/ Upsert(DefaultSettings) /\ Proceed(c, DefaultSettings) /\ NoFault
     \/ UNCHANGED row /\ Proceed(c, Absent) /\ Fault
  /\ UNCHANGED <<month, billingVars, accepted>>

-----------------------------------------------------------------------------
\* MergeHandler.Execute, after the check.

\* The request may be rejected for other reasons, or the dispatch may fail.
DispatchMerge(c) ==
  /\ pc[c] = "dispatch"
  /\ \/ /\ Goto(c, "count") /\ UNCHANGED seen
        /\ accepted' = IF seen[c] # Absent /\ seen[c].plan \in PaidPlans THEN accepted
                       ELSE [accepted EXCEPT ![month] = @ + 1]
     \/ Answer(c) /\ UNCHANGED accepted
  /\ UNCHANGED <<row, month, billingVars, faults>>

\* A merge that cannot be counted is accepted all the same.
CountMerge(c) ==
  /\ pc[c] = "count"
  /\ \/ IncrementMergeCount /\ NoFault
     \/ UNCHANGED row /\ Fault
  /\ Answer(c)
  /\ UNCHANGED <<month, billingVars, accepted>>

\* SettingsHandler.Update, and Get when it corrects what the plan excludes.
SaveSettings(c) ==
  /\ pc[c] = "save"
  /\ \/ Upsert(seen[c]) /\ NoFault
     \/ UNCHANGED row /\ Fault
  /\ Answer(c)
  /\ UNCHANGED <<month, billingVars, accepted>>

-----------------------------------------------------------------------------
\* BillingHandler and Shopify's billing.

\* The link Shopify returns the merchant to names the plan of the charge.
Subscribe(ch) ==
  /\ charge[ch] = "none"
  /\ charge' = [charge EXCEPT ![ch] = "pending"]
  /\ UNCHANGED <<row, month, clientVars, callback, activated, confirmed, mishaps,
                 faults, accepted>>

\* The merchant decides at Shopify: an approved charge replaces the active
\* one, and the active one may be cancelled (or expire, or be frozen).
Decide(ch) ==
  /\ \/ /\ charge[ch] = "pending"
        /\ charge' = [h \in Charges |->
             IF h = ch THEN "active"
             ELSE IF charge[h] = "active" THEN "cancelled" ELSE charge[h]]
     \/ charge[ch] = "pending" /\ charge' = [charge EXCEPT ![ch] = "declined"]
     \/ charge[ch] = "active" /\ charge' = [charge EXCEPT ![ch] = "cancelled"]
  /\ mishaps' = IF \E h \in Charges : callback[h] # {} THEN mishaps \cup {"overtaken"}
                ELSE mishaps
  /\ UNCHANGED <<row, month, clientVars, callback, activated, confirmed, faults, accepted>>

\* Variant: the status is not looked at.
VerifyNothing(ch, plan) ==
  /\ charge[ch] # "none" /\ NoFault
  /\ callback' = [callback EXCEPT ![ch] = @ \cup {plan}]
  /\ mishaps' = mishaps \cup (IF plan # PlanOf[ch] THEN {"otherPlan"} ELSE {})
                         \cup (IF charge[ch] = "pending" THEN {"undecided"} ELSE {})
  /\ UNCHANGED <<row, month, clientVars, charge, activated, confirmed, accepted>>

\* Callback, called by the browser after the merchant's decision and whenever
\* the page is loaded again.  A charge that is ACTIVE or PENDING goes through,
\* and so does one whose status cannot be had: Shopify does not know it, or
\* the request fails.  The plan is a parameter of the request and is compared
\* with nothing.  (Without a charge nothing happens.)
Verify(ch, plan) ==
  /\ \/ charge[ch] \in {"active", "pending", "none"} /\ NoFault
     \/ Fault
  /\ callback' = [callback EXCEPT ![ch] = @ \cup {plan}]
  /\ mishaps' = mishaps \cup (IF plan # PlanOf[ch] THEN {"otherPlan"} ELSE {})
                         \cup (IF charge[ch] = "pending" THEN {"undecided"} ELSE {})
                         \cup (IF charge[ch] = "none" \/ faults' # faults
                               THEN {"unchecked"} ELSE {})
  /\ UNCHANGED <<row, month, clientVars, charge, activated, confirmed, accepted>>

Activate(ch, plan) ==
  /\ plan \in callback[ch]
  /\ \/ /\ UpdatePlan(plan) /\ NoFault
        /\ confirmed' = confirmed \cup {ch}
        /\ mishaps' = IF row = Absent THEN mishaps \cup {"noRow"} ELSE mishaps
     \/ UNCHANGED <<row, activated, confirmed, mishaps>> /\ Fault
  /\ callback' = [callback EXCEPT ![ch] = @ \ {plan}]
  /\ UNCHANGED <<month, clientVars, charge, accepted>>

-----------------------------------------------------------------------------
NextMonth ==
  /\ month < MaxMonth
  /\ month' = month + 1
  /\ UNCHANGED <<row, clientVars, billingVars, faults, accepted>>

Init ==
  /\ row = Absent /\ month = 0
  /\ pc = [c \in Clients |-> "idle"] /\ seen = [c \in Clients |-> Absent]
  /\ charge = [ch \in Charges |-> "none"] /\ callback = [ch \in Charges |-> {}]
  /\ faults = 0
  /\ accepted = [m \in Months |-> 0] /\ activated = "free"
  /\ confirmed = {} /\ mishaps = {}

Next ==
  \/ \E c \in Clients : Start(c) \/ Read(c) \/ Create(c)
  \/ \E c \in Mergers : DispatchMerge(c) \/ CountMerge(c)
  \/ \E c \in Savers : SaveSettings(c)
  \/ \E ch \in Charges : Subscribe(ch) \/ Decide(ch)
  \/ \E ch \in Charges, plan \in PaidPlans : Verify(ch, plan) \/ Activate(ch, plan)
  \/ NextMonth

Spec == Init /\ [][Next]_vars

-----------------------------------------------------------------------------
\* Properties.

TypeOK ==
  /\ row \in Rows \cup {Absent} /\ month \in Months
  /\ pc \in [Clients -> {"idle", "read", "create", "dispatch", "count", "save"}]
  /\ \A c \in Savers : pc[c] \notin {"dispatch", "count"}
  /\ seen \in [Clients -> Rows \cup {Absent}]
  /\ charge \in [Charges -> {"none", "pending", "active", "declined", "cancelled"}]
  /\ callback \in [Charges -> SUBSET PaidPlans]
  /\ faults \in 0..MaxFaults
  /\ accepted \in [Months -> Nat] /\ activated \in {"free"} \cup PaidPlans
  /\ confirmed \subseteq Charges
  /\ mishaps \subseteq {"otherPlan", "undecided", "unchecked", "overtaken", "noRow"}

\* A shop without a paid plan has at most the limit merged in a month, plus
\* one merge for each further request that was under way when the limit was
\* reached (the check and the count are two statements) and one for each call
\* whose failure Execute ignores.
OvershootBounded ==
  \A m \in Months : accepted[m] <= FreeLimit + (Cardinality(Mergers) - 1) + faults

\* The counter covers every merge accepted in its month but those whose
\* request has yet to count and those that lost the count: no save, no insert
\* of defaults and no turn of the month takes one back (IncrementMergeCount,
\* Upsert).
CounterCoversMerges ==
  row # Absent =>
    accepted[row.window]
      <= row.used + Cardinality({c \in Mergers : pc[c] = "count"}) + faults

\* The plan of the row is the last one a callback activated: a save that read
\* the row before the activation and writes it back after does not undo it
\* ("saving user settings never clobbers plan", settings_repo.go:20).
PlanSurvivesSaves == row # Absent => row.plan = activated

\* The plan follows the charges: a paid plan is that of a charge the merchant
\* approved, and once the callback of the active charge has come through the
\* plan is the one it pays, although callbacks of charges that were declined,
\* replaced or cancelled are loaded again (Callback).  Callback lets the plan
\* deviate after these mishaps only: it was called for another plan than the
\* charge's, for a charge still undecided, or without an answer about the
\* charge; and for the second half, the merchant decided about a charge between
\* the two steps of a callback, or there was no row to update.
PlanFollowsCharges ==
  /\ row # Absent /\ row.plan \in PaidPlans /\ mishaps \subseteq {"overtaken", "noRow"} =>
       \E ch \in Charges : PlanOf[ch] = row.plan /\ charge[ch] \in {"active", "cancelled"}
  /\ mishaps = {} =>
       \A ch \in confirmed :
         charge[ch] = "active" => row # Absent /\ row.plan = PlanOf[ch]

-----------------------------------------------------------------------------
\* What docs, comments and tests say, and the code does not do.

\* 019_add_billing.up.sql:4 calls merges_this_month a "rolling counter reset
\* on the 1st of each month": a request is refused only in a month that has
\* had its merges.
RefusedOnlyAtLimit ==
  [][\A c \in Mergers : pc[c] \in {"read", "create"} /\ pc'[c] = "idle" =>
       accepted[month] >= FreeLimit]_vars
=============================================================================
