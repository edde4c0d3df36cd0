------------------------------ MODULE DailyScan ------------------------------
(***************************************************************************)
(* The preferences of the shops (table merchant_settings), the settings     *)
(* page that reads and writes them, and the hourly scheduler that starts a  *)
(* detection for the shops whose scan hour it is.  BillingGate has the plan *)
(* and the merge counter of the same rows, ScanTriggers what becomes of a   *)
(* dispatched detection.                                                    *)
(*                                                                         *)
(* Of the preferences two are kept: when the shop is scanned (an hour of    *)
(* every day, after webhooks, or Never: auto_detect off or manual), which   *)
(* the plan gates, and one that no plan gates.  Timers fire in time: what   *)
(* takes time is the work.                                                  *)
(***************************************************************************)
EXTENDS Integers, FiniteSets

CONSTANTS
  Merchants,
  Clients,       \* concurrent requests of the settings page
  HoursPerDay,
  StepsPerHour,  \* how finely time is told
  OnWebhook,     \* no scan hour: scanned after webhooks
  Never,         \* no scan hour: scanned when asked for
  Nothing,       \* no merchant, no settings
  MaxTime,       \* bound: the time
  MaxRequests,   \* bound: requests of the settings page
  MaxFaults      \* bound: failing calls, restarts and changes of plan

ASSUME DailyScanAssumption ==
  /\ HoursPerDay \in Nat \ {0} /\ StepsPerHour \in Nat \ {0}
  /\ MaxTime \in Nat /\ MaxRequests \in Nat /\ MaxFaults \in Nat
  /\ Never \notin Nat /\ OnWebhook \notin Nat /\ OnWebhook # Never
  /\ Nothing \notin Merchants

VARIABLES
  prefs,     \* preferences of each merchant, the defaults if it has no row
  rows,      \* merchants with a row
  paid,      \* merchants whose plan has FeatureAutoDetect
  requests,  \* the statement each client's request executes next
  now,       \* the time, in steps
  pc,        \* the scheduler's goroutine
  alarm,     \* when its timer fires next, 0 before the ticker is made
  hour,      \* currentHour of the run
  todo,      \* merchants the run has still to look at
  outdated,  \* there are notifications older than 30 days
  used,      \* how much of the bounds on requests and faults is used
  \* History, read by the properties only.
  began,     \* when the run began
  since,     \* first hour since the scheduler started
  overran,   \* a run since then has lasted for an hour
  scans,     \* the hours of whose run each merchant got a scan
  twice,     \* merchants that got two scans by the runs of one hour
  steady     \* merchants that nothing has disturbed, see DailyScansHappen

settingsVars  == <<prefs, rows, paid, requests>>
schedulerVars == <<pc, alarm, hour, todo>>
historyVars   == <<began, since, overran, scans, twice, steady>>
vars == <<settingsVars, now, schedulerVars, outdated, used, historyVars>>

Hours  == 0..HoursPerDay - 1
Fields == {"scanHour", "other"}
Settings == [scanHour : Hours \cup {OnWebhook, Never}, other : BOOLEAN]

DefaultSettings == [scanHour |-> OnWebhook, other |-> TRUE]

HourOf(t) == t \div StepsPerHour

Fault   == used.faults < MaxFaults /\ used' = [used EXCEPT !.faults = @ + 1]
NoFault == UNCHANGED used

-----------------------------------------------------------------------------
\* SettingsHandler.Get and Update, and whoever else calls settingsRepo.Get.

NoRequest == [step |-> "idle", merchant |-> Nothing, body |-> Nothing,
              settings |-> Nothing, mayChange |-> {}]

\* Bodies with one preference, or none: the settings are only shown.
Bodies == {<<>>} \cup UNION {[{f} -> {s[f] : s \in Settings}] : f \in Fields}

\* Variant: a preference that is not in the body is switched off.
AppliedToDefaults(settings, body) ==
  [f \in Fields |-> IF f \in DOMAIN body THEN body[f] ELSE DefaultSettings[f]]

\* Only the fields of the body change.
Applied(settings, body) ==
  [f \in Fields |-> IF f \in DOMAIN body THEN body[f] ELSE settings[f]]

\* What the plan does not include is switched off.
enforceSettingsGates(settings, plan) ==
  IF plan THEN settings ELSE [settings EXCEPT !.scanHour = Never]

\* What a request with these settings goes on to write.  Update writes them,
\* Get only if a gate changed them, and other callers, whose body is Nothing,
\* never.
NextRequest(m, body, stored, plan, mayChange) ==
  LET settings == enforceSettingsGates(Applied(stored, body), plan) IN
  IF body = Nothing \/ (body = <<>> /\ settings = stored) THEN NoRequest
  ELSE [step |-> "save", merchant |-> m, body |-> Nothing, settings |-> settings,
        mayChange |-> mayChange \cup DOMAIN body \cup (IF plan THEN {} ELSE {"scanHour"})]

\* The SELECT.  Who finds no row goes on to insert the defaults; to who cannot
\* read, the settings are the defaults, of a free plan.
ReadSettings(c, m, body) ==
  /\ requests[c] = NoRequest /\ used.requests < MaxRequests
  /\ \/ /\ m \in rows
        /\ requests' = [requests EXCEPT ![c] = NextRequest(m, body, prefs[m], m \in paid, {})]
        /\ used' = [used EXCEPT !.requests = @ + 1]
     \/ /\ m \notin rows
        /\ requests' = [requests EXCEPT ![c] =
             [step |-> "create", merchant |-> m, body |-> body,
              settings |-> DefaultSettings, mayChange |-> {}]]
        /\ used' = [used EXCEPT !.requests = @ + 1]
     \/ /\ requests' = [requests EXCEPT ![c] =
             NextRequest(m, body, DefaultSettings, FALSE, Fields)]
        /\ used.faults < MaxFaults
        /\ used' = [used EXCEPT !.requests = @ + 1, !.faults = @ + 1]
  /\ UNCHANGED <<prefs, rows, paid, now, schedulerVars, outdated, historyVars>>

\* The UPSERT of all preferences.  Other requests for the shop have read what
\* it changes.
Upsert(c, next) ==
  LET m == requests[c].merchant IN
  /\ prefs' = [prefs EXCEPT ![m] = requests[c].settings]
  /\ rows' = rows \cup {m}
  /\ requests' = [d \in Clients |->
       IF d = c THEN next
       ELSE IF requests[d].merchant = m /\ prefs' # prefs
            THEN [requests[d] EXCEPT !.mayChange = Fields]
            ELSE requests[d]]
  /\ steady' = IF prefs' = prefs THEN steady ELSE steady \ {m}

\* The defaults of Get, over a row that may have come since; when it fails the
\* settings could not be read.
CreateSettings(c) ==
  LET r == requests[c] IN
  /\ r.step = "create"
  /\ \/ Upsert(c, NextRequest(r.merchant, r.body, DefaultSettings, FALSE, {})) /\ NoFault
     \/ /\ requests' = [requests EXCEPT ![c] =
             NextRequest(r.merchant, r.body, DefaultSettings, FALSE, Fields)]
        /\ UNCHANGED <<prefs, rows, steady>> /\ Fault
  /\ UNCHANGED <<paid, now, schedulerVars, outdated, began, since, overran, scans, twice>>

\* Update, or Get when a gate changed something.
SaveSettings(c) ==
  /\ requests[c].step = "save"
  /\ \/ Upsert(c, NoRequest) /\ NoFault
     \/ /\ requests' = [requests EXCEPT ![c] = NoRequest]
        /\ UNCHANGED <<prefs, rows, steady>> /\ Fault
  /\ UNCHANGED <<paid, now, schedulerVars, outdated, began, since, overran, scans, twice>>

\* Billing: an UPDATE of the row.
ChangePlan(m) ==
  /\ m \in rows
  /\ paid' = IF m \in paid THEN paid \ {m} ELSE paid \cup {m}
  /\ steady' = steady \ {m}
  /\ Fault
  /\ UNCHANGED <<prefs, rows, requests, now, schedulerVars, outdated, began, since, overran, scans, twice>>

-----------------------------------------------------------------------------
\* The scheduler.

\* Variants: the first run is at once; or an hour late.
UntilNow == now
HourAfterNext == (HourOf(now) + 2) * StepsPerHour

\* durationUntilNextHour, also when an hour has just begun.
NextHour == (HourOf(now) + 1) * StepsPerHour

\* The server starts.
Start ==
  /\ pc = "off"
  /\ pc' = "first" /\ alarm' = NextHour
  /\ since' = HourOf(alarm') /\ overran' = FALSE /\ twice' = {}
  /\ UNCHANGED <<settingsVars, now, hour, todo, outdated, used, began, scans, steady>>

\* It stops or dies, at any point of a run.
Stop ==
  /\ pc # "off" /\ Fault
  /\ pc' = "off" /\ alarm' = 0 /\ hour' = 0 /\ todo' = {} /\ began' = 0
  /\ UNCHANGED <<settingsVars, now, outdated, since, overran, scans, twice, steady>>

Due == pc \in {"first", "wait"} /\ alarm <= now

\* DELETE of the old notifications, in the first hour of the day; it may fail.
Purge(h) ==
  \/ outdated' = (outdated /\ h # 0) /\ NoFault
  \/ h = 0 /\ UNCHANGED outdated /\ Fault

\* A ticker keeps its phase; ticks that come while one waits are dropped.
NextTick == CHOOSE t \in now + 1..now + StepsPerHour : (t - alarm) % StepsPerHour = 0

\* What the goroutine knows when a run begins: the hour is read once.
RunBegins ==
  [pc |-> "run", hour |-> HourOf(now) % HoursPerDay,
   alarm |-> IF pc = "first" THEN 0 ELSE NextTick]

BeginRun ==
  LET run == RunBegins IN
  /\ Due
  /\ pc' = run.pc /\ alarm' = run.alarm /\ hour' = run.hour
  /\ began' = now /\ todo' = Merchants
  /\ Purge(hour')
  /\ UNCHANGED <<settingsVars, now, since, overran, scans, twice, steady>>

\* Variant: the hour is read for each merchant.
ScansNow(m) == m \in paid /\ prefs[m].scanHour = HourOf(now) % HoursPerDay

\* The checks of scheduledRun.
Scans(m) == m \in paid /\ prefs[m].scanHour = hour

\* One merchant: read the settings, dispatch a detection.  A failing call is
\* logged.  Without a row the settings are the defaults, and the insert that
\* follows is the one of any other caller (ReadSettings without a body).
Visit(m) ==
  /\ pc = "run" /\ m \in todo
  /\ todo' = todo \ {m}
  /\ \/ /\ Scans(m) /\ NoFault
        /\ scans' = [scans EXCEPT ![m] = @ \cup {HourOf(began)}]
        /\ twice' = IF HourOf(began) \in scans[m] THEN twice \cup {m} ELSE twice
        /\ UNCHANGED steady
     \/ ~Scans(m) /\ NoFault /\ UNCHANGED <<scans, twice, steady>>
     \/ Fault /\ steady' = steady \ {m} /\ UNCHANGED <<scans, twice>>
  /\ UNCHANGED <<settingsVars, now, pc, alarm, hour, outdated, began, since, overran>>

\* ListAll fails.
ListFails ==
  /\ pc = "run" /\ todo = Merchants /\ Fault
  /\ todo' = {} /\ steady' = {}
  /\ UNCHANGED <<settingsVars, now, pc, alarm, hour, outdated, began, since, overran, scans, twice>>

\* The ticker is made after the first run.
EndRun ==
  /\ pc = "run" /\ todo = {}
  /\ pc' = "wait" /\ hour' = 0 /\ began' = 0
  /\ alarm' = IF alarm = 0 THEN now + StepsPerHour ELSE alarm
  /\ UNCHANGED <<settingsVars, now, todo, outdated, used, since, overran, scans, twice, steady>>

\* A notification gets too old.
Age ==
  /\ outdated' = TRUE
  /\ UNCHANGED <<settingsVars, now, schedulerVars, used, historyVars>>

Tick ==
  /\ now < MaxTime /\ ~Due
  /\ now' = now + 1
  /\ overran' = (overran \/ (pc = "run" /\ now' - began >= StepsPerHour))
  /\ UNCHANGED <<settingsVars, schedulerVars, outdated, used, began, since, scans, twice, steady>>

-----------------------------------------------------------------------------
Init ==
  /\ rows \in SUBSET Merchants /\ paid \in SUBSET rows
  /\ prefs \in [Merchants -> {s \in Settings : s.other}]
  /\ \A m \in Merchants \ rows : prefs[m] = DefaultSettings
  /\ requests = [c \in Clients |-> NoRequest]
  /\ now = 0 /\ pc = "off" /\ alarm = 0 /\ hour = 0 /\ todo = {} /\ outdated = FALSE
  /\ used = [requests |-> 0, faults |-> 0]
  /\ began = 0 /\ since = 0 /\ overran = FALSE
  /\ scans = [m \in Merchants |-> {}] /\ twice = {} /\ steady = Merchants

Next ==
  \/ \E c \in Clients, m \in Merchants, body \in Bodies \cup {Nothing} : ReadSettings(c, m, body)
  \/ \E c \in Clients : CreateSettings(c) \/ SaveSettings(c)
  \/ \E m \in Merchants : ChangePlan(m) \/ Visit(m)
  \/ Start \/ Stop \/ BeginRun \/ ListFails \/ EndRun \/ Age \/ Tick

Spec == Init /\ [][Next]_vars

-----------------------------------------------------------------------------
\* Properties.

TypeOK ==
  /\ prefs \in [Merchants -> Settings] /\ rows \subseteq Merchants /\ paid \subseteq rows
  /\ \A c \in Clients :
       \/ requests[c] = NoRequest
       \/ /\ requests[c].step \in {"create", "save"} /\ requests[c].merchant \in Merchants
          /\ requests[c].body \in Bodies \cup {Nothing} /\ requests[c].settings \in Settings
  /\ now \in 0..MaxTime /\ pc \in {"off", "first", "run", "wait"}
  /\ alarm \in 0..MaxTime + StepsPerHour /\ hour \in Hours
  /\ todo \subseteq Merchants /\ outdated \in BOOLEAN
  /\ began \in 0..now /\ overran \in BOOLEAN
  /\ scans \in [Merchants -> SUBSET (0..HourOf(now))]
  /\ twice \subseteq Merchants /\ steady \subseteq Merchants

\* Every hour since the server started that is over has been served, and with
\* the right shops: a shop whose settings and plan have not changed got its
\* scan in its hour of every day and in no other, wherever in the hour the
\* ticks fall and even if the run went on into the next hour.  Not so if a run
\* lasted for an hour (ticks are then dropped or come too late), or a call for
\* the shop failed, which is only logged (Scheduler.Start, scheduledRun).
DailyScansHappen ==
  pc = "wait" /\ ~Due /\ ~overran =>
    \A m \in steady : \A h \in since..HourOf(now) - 1 :
      h \in scans[m] <=> m \in paid /\ prefs[m].scanHour = h % HoursPerDay

\* No shop is scanned twice for the same hour: not by a restart within the
\* hour, which waits for the next one, nor by the drift of the ticks, unless a
\* run lasts for an hour and the tick it held up comes late.
OncePerHour == ~overran => twice = {}

\* A shop gets one detection a day, in the hour it chose: none is missed, none
\* comes at another hour, none twice.
ScannedOnceADay == DailyScansHappen /\ OncePerHour

\* A preference changes only by a request for it, by the gate of a plan that
\* lacks it, or by a request that has not seen what it overwrites: it could not
\* read the settings, or another request changed them after it had read them
\* or had found that there are none (SettingsHandler.Get, Update,
\* settingsRepo.Get).  So a lone request that finds no row, or shows settings,
\* changes nothing that the gates do not.
OtherPreferencesKept ==
  [][\A m \in Merchants, f \in Fields :
       prefs'[m][f] # prefs[m][f] =>
         \E c \in Clients : /\ requests[c].merchant = m
                             /\ requests'[c].step # requests[c].step
                             /\ f \in requests[c].mayChange]_vars

=============================================================================
