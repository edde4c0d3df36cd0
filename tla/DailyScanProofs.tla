--------------------------- MODULE DailyScanProofs ---------------------------
(***************************************************************************)
(* Proofs about DailyScan: the settings page and the hourly scheduler, for  *)
(* any merchants, requests, plans and fineness of time.                     *)
(***************************************************************************)
EXTENDS DailyScan, TLAPS

\* What a request will write differs from what is stored only where it may.
RequestInv(r) ==
  /\ DOMAIN r.settings = Fields
  /\ \A f \in Fields \ r.mayChange : r.settings[f] = prefs[r.merchant][f]

\* The defaults are inserted by requests that found no row.
Pending(r) ==
  /\ r.step \in {"create", "save"} /\ r.step = "create" => r.settings = DefaultSettings
  /\ r.merchant \in Merchants /\ r.body \in Bodies \cup {Nothing}

KeepInv ==
  /\ DOMAIN prefs = Merchants /\ \A m \in Merchants : DOMAIN prefs[m] = Fields
  /\ \A m \in Merchants \ rows : prefs[m] = DefaultSettings
  /\ DOMAIN requests = Clients
  /\ \A c \in Clients :
       requests[c] = NoRequest \/ (Pending(requests[c]) /\ RequestInv(requests[c]))

-----------------------------------------------------------------------------
\* A body has preferences only, and changes no other.
LEMMA AppliedKeeps ==
  ASSUME NEW stored, DOMAIN stored = Fields, NEW body \in Bodies
  PROVE  /\ DOMAIN body \subseteq Fields /\ DOMAIN Applied(stored, body) = Fields
         /\ \A f \in Fields \ DOMAIN body : Applied(stored, body)[f] = stored[f]
<1>1. DOMAIN body \subseteq Fields
  <2>1. CASE body = <<>>
    <3>1. DOMAIN body = {}
      BY <2>1
    <3> QED
      BY <3>1
  <2>2. CASE body # <<>>
    <3>1. PICK f \in Fields : body \in [{f} -> {s[f] : s \in Settings}]
      BY <2>2 DEF Bodies
    <3> QED
      BY <3>1
  <2> QED
    BY <2>1, <2>2
<1> QED
  BY <1>1 DEF Applied

\* The gates change the scan hour, of a plan that lacks it.
LEMMA GatesKeep ==
  ASSUME NEW settings, DOMAIN settings = Fields, NEW plan \in BOOLEAN
  PROVE  /\ DOMAIN enforceSettingsGates(settings, plan) = Fields
         /\ \A f \in Fields \ (IF plan THEN {} ELSE {"scanHour"}) :
              enforceSettingsGates(settings, plan)[f] = settings[f]
<1>1. CASE plan
  BY <1>1 DEF enforceSettingsGates
<1>2. CASE ~plan
  <2>1. enforceSettingsGates(settings, plan) = [settings EXCEPT !["scanHour"] = Never]
    BY <1>2 DEF enforceSettingsGates
  <2> QED
    BY <1>2, <2>1
<1> QED
  BY <1>1, <1>2

\* What a request will write differs from what it has read only where it says
\* that it may: by its body and the gates.
Goes(next, m, stored, mayChange) ==
  \/ next = NoRequest
  \/ /\ next.step = "save" /\ next.merchant = m /\ next.body = Nothing
     /\ DOMAIN next.settings = Fields /\ mayChange \subseteq next.mayChange
     /\ \A f \in Fields \ next.mayChange : next.settings[f] = stored[f]

LEMMA NextRequestKeeps ==
  ASSUME NEW m, NEW body \in Bodies \cup {Nothing}, NEW stored, DOMAIN stored = Fields,
         NEW plan \in BOOLEAN, NEW mayChange
  PROVE  Goes(NextRequest(m, body, stored, plan, mayChange), m, stored, mayChange)
<1> DEFINE applied  == Applied(stored, body)
           settings == enforceSettingsGates(applied, plan)
           may      == mayChange \cup DOMAIN body \cup (IF plan THEN {} ELSE {"scanHour"})
<1>0. PICK next : next = NextRequest(m, body, stored, plan, mayChange)
  OBVIOUS
<1>1. CASE body = Nothing \/ (body = <<>> /\ settings = stored)
  BY <1>1 DEF NextRequest, Goes
<1>2. CASE ~(body = Nothing \/ (body = <<>> /\ settings = stored))
  <2>1. /\ next = [step |-> "save", merchant |-> m, body |-> Nothing, settings |-> settings,
                   mayChange |-> may]
        /\ body \in Bodies
    BY <1>0, <1>2 DEF NextRequest
  <2>2. DOMAIN applied = Fields /\ \A f \in Fields \ DOMAIN body : applied[f] = stored[f]
    BY <2>1, AppliedKeeps
  <2>3. DOMAIN settings = Fields
        /\ \A f \in Fields \ (IF plan THEN {} ELSE {"scanHour"}) : settings[f] = applied[f]
    <3> HIDE DEF applied
    <3> QED
      BY <2>2, GatesKeep
  <2>4. mayChange \subseteq may /\ \A f \in Fields \ may : settings[f] = stored[f]
    <3> HIDE DEF applied, settings
    <3> QED
      BY <2>2, <2>3
  <2>5. /\ next.step = "save" /\ next.merchant = m /\ next.body = Nothing
        /\ next.settings = settings /\ next.mayChange = may
    BY <2>1
  <2> HIDE DEF settings, may
  <2> QED
    BY <1>0, <2>3, <2>4, <2>5 DEF Goes
<1> QED
  BY <1>1, <1>2

LEMMA DefaultFields == DOMAIN DefaultSettings = Fields /\ DefaultSettings \in Settings
BY DEF DefaultSettings, Settings, Fields

LEMMA InitKeeps == Init => KeepInv
<1> SUFFICES ASSUME Init PROVE KeepInv
  OBVIOUS
<1>1. prefs \in [Merchants -> Settings]
  BY DEF Init
<1>2. \A s \in Settings : DOMAIN s = Fields
  BY DEF Settings, Fields
<1> QED
  BY <1>1, <1>2 DEF Init, KeepInv

\* One request goes on, and the preferences stay.
LEMMA RequestKeeps ==
  ASSUME KeepInv, NEW c \in Clients, NEW next, UNCHANGED <<prefs, rows>>,
         requests' = [requests EXCEPT ![c] = next],
         next = NoRequest \/ (Pending(next) /\ RequestInv(next))
  PROVE  KeepInv'
<1>1. DOMAIN requests' = Clients
      /\ \A d \in Clients : requests'[d] = requests[d] \/ requests'[d] = next
  BY DEF KeepInv
<1> QED
  BY <1>1 DEF KeepInv, RequestInv, Pending

LEMMA ReadKeeps ==
  ASSUME KeepInv, NEW c \in Clients, NEW m \in Merchants, NEW body \in Bodies \cup {Nothing},
         ReadSettings(c, m, body)
  PROVE  KeepInv'
<1>1. UNCHANGED <<prefs, rows>> /\ DOMAIN prefs[m] = Fields
  BY DEF ReadSettings, KeepInv
<1>2. CASE requests' = [requests EXCEPT ![c] = NextRequest(m, body, prefs[m], m \in paid, {})]
  <2>1. PICK stored, plan : stored = prefs[m] /\ plan = (m \in paid)
    OBVIOUS
  <2>2. plan \in BOOLEAN
    BY <2>1
  <2>3. PICK next : next = NextRequest(m, body, stored, plan, {})
    OBVIOUS
  <2>4. Goes(next, m, stored, {})
    BY <1>1, <2>1, <2>2, <2>3, NextRequestKeeps
  <2>5. next = NoRequest \/ (Pending(next) /\ RequestInv(next))
    BY <2>1, <2>4 DEF Goes, Pending, RequestInv
  <2>6. requests' = [requests EXCEPT ![c] = next]
    BY <1>2, <2>1, <2>3
  <2> QED
    BY <1>1, <2>5, <2>6, RequestKeeps
<1>3. CASE m \notin rows /\ requests' = [requests EXCEPT ![c] =
             [step |-> "create", merchant |-> m, body |-> body,
              settings |-> DefaultSettings, mayChange |-> {}]]
  <2>1. PICK next : next = [step |-> "create", merchant |-> m, body |-> body,
                            settings |-> DefaultSettings, mayChange |-> {}]
    OBVIOUS
  <2>2. prefs[m] = DefaultSettings
    BY <1>3 DEF KeepInv
  <2>3. /\ next.step = "create" /\ next.merchant = m /\ next.body = body
        /\ next.settings = DefaultSettings
    BY <2>1
  <2>4. Pending(next) /\ RequestInv(next)
    BY <2>2, <2>3, DefaultFields DEF Pending, RequestInv
  <2> QED
    BY <1>1, <1>3, <2>1, <2>4, RequestKeeps
<1>4. CASE requests' = [requests EXCEPT ![c] = NextRequest(m, body, DefaultSettings, FALSE, Fields)]
  <2>1. PICK next : next = NextRequest(m, body, DefaultSettings, FALSE, Fields)
    OBVIOUS
  <2>2. Goes(next, m, DefaultSettings, Fields)
    BY <2>1, DefaultFields, NextRequestKeeps
  <2>3. next = NoRequest \/ (Pending(next) /\ RequestInv(next))
    BY <2>2 DEF Goes, Pending, RequestInv
  <2> QED
    BY <1>1, <1>4, <2>1, <2>3, RequestKeeps
<1> QED
  BY <1>2, <1>3, <1>4 DEF ReadSettings

\* A request that writes makes the others for the shop outdated if it changes
\* something, and goes on from what it has written.
LEMMA UpsertKeeps ==
  ASSUME KeepInv, NEW c \in Clients, NEW next, requests[c].step # "idle", Upsert(c, next),
         \/ next = NoRequest
         \/ /\ Pending(next) /\ next.merchant = requests[c].merchant
            /\ DOMAIN next.settings = Fields
            /\ \A f \in Fields \ next.mayChange : next.settings[f] = requests[c].settings[f]
  PROVE  KeepInv'
<1> DEFINE m == requests[c].merchant
           s == requests[c].settings
<1>1. m \in Merchants /\ DOMAIN s = Fields
  BY DEF KeepInv, NoRequest, Pending, RequestInv
<1>2. /\ prefs' = [prefs EXCEPT ![m] = s] /\ rows' = rows \cup {m}
      /\ DOMAIN requests' = Clients
      /\ \A d \in Clients :
           requests'[d] = IF d = c THEN next
                          ELSE IF requests[d].merchant = m /\ prefs' # prefs
                               THEN [requests[d] EXCEPT !.mayChange = Fields]
                               ELSE requests[d]
  BY DEF Upsert
<1>3. /\ DOMAIN prefs' = Merchants /\ \A n \in Merchants : DOMAIN prefs'[n] = Fields
      /\ prefs'[m] = s /\ \A n \in Merchants \ {m} : prefs'[n] = prefs[n]
  BY <1>1, <1>2 DEF KeepInv
<1>4. \A n \in Merchants \ rows' : prefs'[n] = DefaultSettings
  BY <1>2, <1>3 DEF KeepInv
<1>5. ASSUME NEW d \in Clients
      PROVE  requests'[d] = NoRequest \/ (Pending(requests'[d]) /\ RequestInv(requests[d])')
  <2>1. CASE d = c
    <3>1. requests'[d] = next
      BY <1>2, <2>1
    <3> QED
      BY <1>3, <3>1 DEF RequestInv
  <2>2. CASE d # c /\ requests[d].merchant = m /\ prefs' # prefs
    <3>1. requests'[d] = [requests[d] EXCEPT !.mayChange = Fields]
      BY <1>2, <2>2
    <3>2. requests[d] # NoRequest
      BY <1>1, <2>2, DailyScanAssumption DEF DailyScanAssumption, NoRequest
    <3>3. Pending(requests[d]) /\ DOMAIN requests[d].settings = Fields
      BY <3>2 DEF KeepInv, RequestInv
    <3>4. /\ requests'[d].merchant = requests[d].merchant
          /\ requests'[d].settings = requests[d].settings
          /\ requests'[d].step = requests[d].step /\ requests'[d].body = requests[d].body
      BY <3>1
    <3>5. "mayChange" \in DOMAIN requests[d] => requests'[d].mayChange = Fields
      BY <3>1
    <3> QED
      BY <3>1, <3>3, <3>4, <3>5 DEF RequestInv, Pending
  <2>3. CASE d # c /\ ~(requests[d].merchant = m /\ prefs' # prefs)
    <3>1. requests'[d] = requests[d]
      BY <1>2, <2>3
    <3>2. requests[d] = NoRequest
          \/ (Pending(requests[d]) /\ prefs'[requests[d].merchant] = prefs[requests[d].merchant])
      BY <1>3, <2>3 DEF KeepInv, Pending
    <3> QED
      BY <3>1, <3>2 DEF KeepInv, RequestInv
  <2> QED
    BY <2>1, <2>2, <2>3
<1> QED
  BY <1>2, <1>3, <1>4, <1>5 DEF KeepInv

LEMMA CreateKeeps ==
  ASSUME KeepInv, NEW c \in Clients, CreateSettings(c)
  PROVE  KeepInv'
<1>1. PICK m, body : m = requests[c].merchant /\ body = requests[c].body
  OBVIOUS
<1>2. /\ requests[c].step = "create" /\ requests[c].settings = DefaultSettings
      /\ m \in Merchants /\ body \in Bodies \cup {Nothing}
  BY <1>1 DEF CreateSettings, KeepInv, Pending, NoRequest
<1>3. CASE Upsert(c, NextRequest(m, body, DefaultSettings, FALSE, {}))
  <2>1. PICK next : next = NextRequest(m, body, DefaultSettings, FALSE, {})
    OBVIOUS
  <2>2. Goes(next, m, DefaultSettings, {})
    BY <1>2, <2>1, DefaultFields, NextRequestKeeps
  <2>3. \/ next = NoRequest
        \/ /\ Pending(next) /\ next.merchant = requests[c].merchant
           /\ DOMAIN next.settings = Fields
           /\ \A f \in Fields \ next.mayChange : next.settings[f] = requests[c].settings[f]
    BY <1>1, <1>2, <2>2 DEF Goes, Pending
  <2>4. Upsert(c, next) /\ requests[c].step # "idle"
    BY <1>2, <1>3, <2>1
  <2> QED
    BY <2>3, <2>4, UpsertKeeps
<1>4. CASE /\ UNCHANGED <<prefs, rows>>
           /\ requests' = [requests EXCEPT ![c] = NextRequest(m, body, DefaultSettings, FALSE, Fields)]
  <2>1. PICK next : next = NextRequest(m, body, DefaultSettings, FALSE, Fields)
    OBVIOUS
  <2>2. Goes(next, m, DefaultSettings, Fields)
    BY <1>2, <2>1, DefaultFields, NextRequestKeeps
  <2>3. next = NoRequest \/ (Pending(next) /\ RequestInv(next))
    BY <1>2, <2>2 DEF Goes, Pending, RequestInv
  <2> QED
    BY <1>4, <2>1, <2>3, RequestKeeps
<1> QED
  BY <1>1, <1>3, <1>4 DEF CreateSettings

LEMMA SaveKeeps ==
  ASSUME KeepInv, NEW c \in Clients, SaveSettings(c)
  PROVE  KeepInv'
<1>1. PICK next : next = NoRequest
  OBVIOUS
<1>2. CASE Upsert(c, NoRequest)
  BY <1>1, <1>2, UpsertKeeps DEF SaveSettings
<1>3. CASE UNCHANGED <<prefs, rows>> /\ requests' = [requests EXCEPT ![c] = NoRequest]
  BY <1>1, <1>3, RequestKeeps
<1> QED
  BY <1>2, <1>3 DEF SaveSettings

LEMMA Inductive == Spec => []KeepInv
<1>1. KeepInv /\ [Next]_vars => KeepInv'
  <2> SUFFICES ASSUME KeepInv, [Next]_vars PROVE KeepInv'
    OBVIOUS
  <2>1. ASSUME NEW c \in Clients, NEW m \in Merchants, NEW body \in Bodies \cup {Nothing},
               ReadSettings(c, m, body)
        PROVE  KeepInv'
    BY <2>1, ReadKeeps
  <2>2. ASSUME NEW c \in Clients, CreateSettings(c) \/ SaveSettings(c) PROVE KeepInv'
    BY <2>2, CreateKeeps, SaveKeeps
  <2>3. ASSUME NEW m \in Merchants, ChangePlan(m) \/ Visit(m)
        PROVE  UNCHANGED <<prefs, rows, requests>>
    BY <2>3 DEF ChangePlan, Visit, settingsVars
  <2>4. CASE Start \/ Stop \/ BeginRun \/ ListFails \/ EndRun \/ Age \/ Tick \/ UNCHANGED vars
    <3>1. UNCHANGED <<prefs, rows, requests>>
      BY <2>4 DEF Start, Stop, BeginRun, ListFails, EndRun, Age, Tick, vars, settingsVars
    <3> QED
      BY <3>1 DEF KeepInv, RequestInv
  <2>5. UNCHANGED <<prefs, rows, requests>> => KeepInv'
    BY DEF KeepInv, RequestInv
  <2> QED
    BY <2>1, <2>2, <2>3, <2>4, <2>5 DEF Next
<1> QED
  BY <1>1, InitKeeps, PTL DEF Spec

\* Only the requests of the settings page and the other callers of Get write
\* preferences.
LEMMA WhoWrites ==
  ASSUME [Next]_vars, prefs' # prefs
  PROVE  \E c \in Clients : CreateSettings(c) \/ SaveSettings(c)
<1>1. CASE UNCHANGED vars
  BY <1>1 DEF vars, settingsVars
<1>2. CASE Next
  BY <1>2 DEF Next, ReadSettings, ChangePlan, Visit, Start, Stop, BeginRun, ListFails,
              EndRun, Age, Tick, settingsVars
<1> QED
  BY <1>1, <1>2

\* A preference changes only by a request for it, by a gate, or by a request
\* that has not seen what it overwrites, also when two requests insert the
\* defaults or one inserts them over what the other has saved
\* (settings_handler.go:88, settings_repo.go:48).
THEOREM PreferencesKept == Spec => OtherPreferencesKept
<1>1. ASSUME KeepInv, [Next]_vars
      PROVE  [\A m \in Merchants, f \in Fields :
                prefs'[m][f] # prefs[m][f] =>
                  \E c \in Clients : /\ requests[c].merchant = m
                                      /\ requests'[c].step # requests[c].step
                                      /\ f \in requests[c].mayChange]_vars
  <2> SUFFICES ASSUME NEW m \in Merchants, NEW f \in Fields, prefs'[m][f] # prefs[m][f]
               PROVE  \E c \in Clients : /\ requests[c].merchant = m
                                          /\ requests'[c].step # requests[c].step
                                          /\ f \in requests[c].mayChange
    OBVIOUS
  <2>1. PICK c \in Clients : CreateSettings(c) \/ SaveSettings(c)
    BY <1>1, WhoWrites
  <2>2. PICK next : Upsert(c, next) /\ next.step # requests[c].step
    <3>1. CASE SaveSettings(c)
      BY <3>1 DEF SaveSettings, NoRequest
    <3>2. CASE CreateSettings(c)
      <4>1. PICK next : /\ Upsert(c, next)
                        /\ next = NextRequest(requests[c].merchant, requests[c].body,
                                              DefaultSettings, FALSE, {})
        BY <3>2 DEF CreateSettings
      <4>2. next.step # "create"
        BY <4>1 DEF NextRequest, NoRequest
      <4> QED
        BY <3>2, <4>1, <4>2 DEF CreateSettings
    <3> QED
      BY <2>1, <3>1, <3>2
  <2>3. /\ prefs' = [prefs EXCEPT ![requests[c].merchant] = requests[c].settings]
        /\ requests'[c] = next
    BY <2>2 DEF Upsert
  <2>4. requests[c].merchant = m
    BY <2>3
  <2>5. prefs'[m] = requests[c].settings
    BY <1>1, <2>3, <2>4 DEF KeepInv
  <2>6. RequestInv(requests[c])
    <3>1. requests[c].step # "idle"
      BY <2>1 DEF CreateSettings, SaveSettings
    <3>2. requests[c] # NoRequest
      BY <3>1 DEF NoRequest
    <3> QED
      BY <1>1, <3>2 DEF KeepInv
  <2> QED
    BY <2>2, <2>3, <2>4, <2>5, <2>6 DEF RequestInv
<1> QED
  BY <1>1, Inductive, PTL DEF Spec, OtherPreferencesKept
-----------------------------------------------------------------------------
\* Hours and ticks.

LEMMA Constants ==
  /\ StepsPerHour \in Nat \ {0} /\ HoursPerDay \in Nat \ {0} /\ MaxTime \in Nat
BY DailyScanAssumption DEF DailyScanAssumption

LEMMA TimesGrow ==
  ASSUME NEW a \in Nat, NEW b \in Nat, NEW s \in Nat, a <= b
  PROVE  a * s <= b * s /\ a * s \in Nat /\ (a + 1) * s = a * s + s
<1>1. PICK d \in Nat : b = a + d
  BY b - a \in Nat
<1>2. b * s = a * s + d * s /\ d * s \in Nat /\ a * s \in Nat
  BY <1>1
<1> QED
  BY <1>2

\* The hour of a time is the one that has begun and is not over.
LEMMA HourBounds ==
  ASSUME NEW t \in Nat
  PROVE  /\ HourOf(t) \in Nat
         /\ HourOf(t) * StepsPerHour <= t /\ t < HourOf(t) * StepsPerHour + StepsPerHour
BY Constants DEF HourOf

LEMMA HourIs ==
  ASSUME NEW t \in Nat, NEW q \in Nat,
         q * StepsPerHour <= t, t < q * StepsPerHour + StepsPerHour
  PROVE  HourOf(t) = q
<1> DEFINE h == HourOf(t)
           s == StepsPerHour
<1>1. s \in Nat \ {0} /\ h \in Nat /\ h * s <= t /\ t < h * s + s
  BY Constants, HourBounds
<1> SUFFICES h = q
  OBVIOUS
<1> HIDE DEF h, s
<1>2. CASE h < q
  <2>1. h + 1 <= q
    BY <1>1, <1>2
  <2>2. (h + 1) * s <= q * s /\ (h + 1) * s = h * s + s /\ q * s \in Nat /\ h * s \in Nat
    BY <1>1, <2>1, TimesGrow
  <2> QED
    BY <1>1, <2>2 DEF s
<1>3. CASE q < h
  <2>1. q + 1 <= h
    BY <1>1, <1>3
  <2>2. (q + 1) * s <= h * s /\ (q + 1) * s = q * s + s /\ q * s \in Nat /\ h * s \in Nat
    BY <1>1, <2>1, TimesGrow
  <2> QED
    BY <1>1, <2>2 DEF s
<1> QED
  BY <1>1, <1>2, <1>3

LEMMA HourGrows ==
  ASSUME NEW t \in Nat, NEW u \in Nat, t <= u
  PROVE  HourOf(t) <= HourOf(u)
<1> DEFINE h == HourOf(t)
           g == HourOf(u)
           s == StepsPerHour
<1>1. /\ s \in Nat \ {0} /\ h \in Nat /\ h * s <= t /\ t < h * s + s
      /\ g \in Nat /\ g * s <= u /\ u < g * s + s
  BY Constants, HourBounds
<1> HIDE DEF h, g, s
<1>2. CASE g < h
  <2>1. g + 1 <= h
    BY <1>1, <1>2
  <2>2. (g + 1) * s <= h * s /\ (g + 1) * s = g * s + s /\ h * s \in Nat /\ g * s \in Nat
    BY <1>1, <2>1, TimesGrow
  <2> QED
    BY <1>1, <2>2
<1>3. h <= g
  BY <1>1, <1>2
<1> QED
  BY <1>3 DEF h, g

\* The full hours, and the same step of the next hour.
LEMMA FullHours ==
  ASSUME NEW q \in Nat
  PROVE  q * StepsPerHour \in Nat /\ HourOf(q * StepsPerHour) = q
<1>1. q * StepsPerHour \in Nat /\ StepsPerHour \in Nat \ {0}
  BY Constants, TimesGrow
<1> QED
  BY <1>1, HourIs

LEMMA HourLater ==
  ASSUME NEW t \in Nat
  PROVE  t + StepsPerHour \in Nat /\ HourOf(t + StepsPerHour) = HourOf(t) + 1
<1> DEFINE h == HourOf(t)
           s == StepsPerHour
<1>1. s \in Nat \ {0} /\ h \in Nat /\ h * s <= t /\ t < h * s + s
  BY Constants, HourBounds
<1>2. (h + 1) * s = h * s + s /\ h * s \in Nat
  BY <1>1, TimesGrow
<1>3. t + s \in Nat /\ (h + 1) * s <= t + s /\ t + s < (h + 1) * s + s
  BY <1>1, <1>2
<1> HIDE DEF h
<1>4. h + 1 \in Nat
  BY <1>1
<1>5. HourOf(t + s) = h + 1
  BY <1>3, <1>4, HourIs
<1> QED
  BY <1>3, <1>5 DEF h

\* The next tick is at most an hour away, and an hour away exactly if the last
\* one came in time.
LEMMA Ticks ==
  ASSUME now \in Nat, alarm \in Nat, alarm <= now
  PROVE  /\ NextTick \in now + 1..now + StepsPerHour
         /\ alarm = now => NextTick = now + StepsPerHour
<1> DEFINE s == StepsPerHour
           q == (now - alarm) \div s
           n == alarm + (q + 1) * s
<1>1. s \in Nat \ {0}
  BY Constants
<1>2. q \in Nat /\ q * s <= now - alarm /\ now - alarm < q * s + s
  BY <1>1
<1>3. (q + 1) * s = q * s + s /\ q * s \in Nat
  BY <1>1, <1>2, TimesGrow
<1>4. n \in now + 1..now + s
  BY <1>1, <1>2, <1>3
<1>5. (n - alarm) % s = 0
  <2> HIDE DEF q
  <2>1. n - alarm = (q + 1) * s
    BY <1>1, <1>2, <1>3
  <2>2. ((q + 1) * s) % s = 0
    BY <1>1, <1>2
  <2> QED
    BY <2>1, <2>2
<1> HIDE DEF n, q
<1>6. /\ NextTick \in now + 1..now + s
      /\ (NextTick - alarm) % s = 0
  BY <1>4, <1>5 DEF NextTick
<1>7. ASSUME alarm = now PROVE NextTick = now + s
  <2> DEFINE d == NextTick - alarm
  <2>1. d \in 1..s /\ d % s = 0
    BY <1>1, <1>6, <1>7
  <2> HIDE DEF d
  <2>2. d = s
    BY <1>1, <2>1
  <2> QED
    BY <1>1, <1>6, <1>7, <2>2 DEF d
<1> QED
  BY <1>6, <1>7

-----------------------------------------------------------------------------
\* Types.

LEMMA SettingsTyped ==
  ASSUME NEW stored \in Settings, NEW body \in Bodies, NEW plan \in BOOLEAN
  PROVE  enforceSettingsGates(Applied(stored, body), plan) \in Settings
<1>1. \A s \in Settings : s["scanHour"] \in Hours \cup {OnWebhook, Never} /\ s["other"] \in BOOLEAN
  BY DEF Settings
<1>2. \A f \in DOMAIN body : f \in Fields /\ \E s \in Settings : body[f] = s[f]
  <2>1. CASE body = <<>>
    <3>1. DOMAIN body = {}
      BY <2>1
    <3> QED
      BY <3>1
  <2>2. CASE body # <<>>
    <3>1. PICK f \in Fields : body \in [{f} -> {s[f] : s \in Settings}]
      BY <2>2 DEF Bodies
    <3> QED
      BY <3>1
  <2> QED
    BY <2>1, <2>2
<1> DEFINE applied == Applied(stored, body)
<1>3. applied = [f \in Fields |-> IF f \in DOMAIN body THEN body[f] ELSE stored[f]]
  BY DEF Applied
<1>4. applied["scanHour"] \in Hours \cup {OnWebhook, Never} /\ applied["other"] \in BOOLEAN
  <2> HIDE DEF applied
  <2>1. \A f \in Fields : \E s \in Settings : applied[f] = s[f]
    BY <1>2, <1>3
  <2> QED
    BY <1>1, <2>1 DEF Fields
<1>5. applied \in Settings
  <2>1. applied = [scanHour |-> applied["scanHour"], other |-> applied["other"]]
    BY <1>3 DEF Fields
  <2> HIDE DEF applied
  <2> QED
    BY <1>4, <2>1 DEF Settings
<1> HIDE DEF applied
<1>6. enforceSettingsGates(applied, plan) \in Settings
  BY <1>5 DEF enforceSettingsGates, Settings
<1> QED
  BY <1>6 DEF applied

\* A request does nothing, or writes settings.
Request(r) ==
  \/ r = NoRequest
  \/ /\ r.step \in {"create", "save"} /\ r.merchant \in Merchants
     /\ r.body \in Bodies \cup {Nothing} /\ r.settings \in Settings

LEMMA NextRequestTyped ==
  ASSUME NEW m \in Merchants, NEW body \in Bodies \cup {Nothing}, NEW stored \in Settings,
         NEW plan \in BOOLEAN, NEW mayChange
  PROVE  Request(NextRequest(m, body, stored, plan, mayChange))
<1> DEFINE settings == enforceSettingsGates(Applied(stored, body), plan)
           may      == mayChange \cup DOMAIN body \cup (IF plan THEN {} ELSE {"scanHour"})
           next     == [step |-> "save", merchant |-> m, body |-> Nothing, settings |-> settings,
                        mayChange |-> may]
<1>1. CASE body = Nothing \/ (body = <<>> /\ settings = stored)
  BY <1>1 DEF NextRequest, Request
<1>2. CASE ~(body = Nothing \/ (body = <<>> /\ settings = stored))
  <2>1. NextRequest(m, body, stored, plan, mayChange) = next /\ body \in Bodies
    BY <1>2 DEF NextRequest
  <2>2. settings \in Settings
    BY <2>1, SettingsTyped
  <2>3. /\ next.step = "save" /\ next.merchant = m /\ next.body = Nothing
        /\ next.settings = settings
    OBVIOUS
  <2> HIDE DEF settings, next
  <2> QED
    BY <2>1, <2>2, <2>3 DEF Request
<1> QED
  BY <1>1, <1>2

\* A request that writes, and goes on with another statement.
LEMMA UpsertTyped ==
  ASSUME TypeOK, KeepInv, NEW c \in Clients, NEW next, requests[c].step # "idle",
         Upsert(c, next), Request(next)
  PROVE  /\ prefs' \in [Merchants -> Settings] /\ rows' \subseteq Merchants /\ rows \subseteq rows'
         /\ steady' \subseteq Merchants
         /\ \A d \in Clients : Request(requests'[d])
<1> DEFINE m == requests[c].merchant
<1>1. m \in Merchants /\ requests[c].settings \in Settings
  BY DEF TypeOK, NoRequest
<1>2. /\ prefs' \in [Merchants -> Settings] /\ steady' \subseteq Merchants
      /\ rows' \subseteq Merchants /\ rows \subseteq rows'
  BY <1>1 DEF Upsert, TypeOK
<1>3. ASSUME NEW d \in Clients PROVE Request(requests'[d])
  <2>1. Request(requests[d])
    BY DEF TypeOK, Request
  <2>2. CASE requests'[d] \in {next, requests[d]}
    BY <2>1, <2>2
  <2>3. CASE requests[d].merchant = m /\ requests'[d] = [requests[d] EXCEPT !.mayChange = Fields]
    <3>1. requests[d] # NoRequest
      BY <1>1, <2>3, DailyScanAssumption DEF DailyScanAssumption, NoRequest
    <3>2. /\ requests'[d].merchant = requests[d].merchant
          /\ requests'[d].settings = requests[d].settings
          /\ requests'[d].step = requests[d].step /\ requests'[d].body = requests[d].body
      BY <2>3
    <3> QED
      BY <2>1, <3>1, <3>2 DEF Request
  <2>4. \/ requests'[d] \in {next, requests[d]}
        \/ requests[d].merchant = m /\ requests'[d] = [requests[d] EXCEPT !.mayChange = Fields]
    BY DEF Upsert
  <2> QED
    BY <2>2, <2>3, <2>4
<1> QED
  BY <1>2, <1>3

LEMMA SettingsPageTyped ==
  ASSUME TypeOK, KeepInv, NEW c \in Clients,
         \/ \E m \in Merchants, body \in Bodies \cup {Nothing} : ReadSettings(c, m, body)
         \/ CreateSettings(c) \/ SaveSettings(c)
  PROVE  TypeOK'
<1>1. /\ prefs \in [Merchants -> Settings] /\ DefaultSettings \in Settings
      /\ DOMAIN requests = Clients /\ \A d \in Clients : Request(requests[d])
  BY DefaultFields DEF TypeOK, KeepInv, Request
<1>2. ASSUME NEW next, requests' = [requests EXCEPT ![c] = next], Request(next)
      PROVE  \A d \in Clients : Request(requests'[d])
  BY <1>1, <1>2
<1>3. ASSUME NEW m \in Merchants, NEW body \in Bodies \cup {Nothing}, ReadSettings(c, m, body)
      PROVE  TypeOK'
  <2>1. PICK next : /\ requests' = [requests EXCEPT ![c] = next]
                    /\ \/ next = NextRequest(m, body, prefs[m], m \in paid, {})
                       \/ next = [step |-> "create", merchant |-> m, body |-> body,
                                  settings |-> DefaultSettings, mayChange |-> {}]
                       \/ next = NextRequest(m, body, DefaultSettings, FALSE, Fields)
    BY <1>3 DEF ReadSettings
  <2>2. ASSUME next = NextRequest(m, body, prefs[m], m \in paid, {}) PROVE Request(next)
    <3>1. PICK stored \in Settings : stored = prefs[m]
      BY <1>1
    <3>2. PICK plan : plan = (m \in paid)
      OBVIOUS
    <3>3. plan \in BOOLEAN
      BY <3>2
    <3>4. Request(NextRequest(m, body, stored, plan, {}))
      BY <3>3, NextRequestTyped
    <3> QED
      BY <2>2, <3>1, <3>2, <3>4
  <2>3. ASSUME next = [step |-> "create", merchant |-> m, body |-> body,
                       settings |-> DefaultSettings, mayChange |-> {}]
        PROVE  Request(next)
    BY <1>1, <2>3 DEF Request
  <2>4. ASSUME next = NextRequest(m, body, DefaultSettings, FALSE, Fields) PROVE Request(next)
    <3>1. Request(NextRequest(m, body, DefaultSettings, FALSE, Fields))
      BY <1>1, NextRequestTyped
    <3> QED
      BY <2>4, <3>1
  <2>5. \A d \in Clients : Request(requests'[d])
    BY <1>2, <2>1, <2>2, <2>3, <2>4
  <2>6. UNCHANGED <<prefs, rows, paid, now, schedulerVars, outdated, historyVars>>
    BY <1>3 DEF ReadSettings
  <2> QED
    BY <2>5, <2>6 DEF TypeOK, Request, schedulerVars, historyVars
<1>4. CASE CreateSettings(c) \/ SaveSettings(c)
  <2>1. PICK next : /\ \/ Upsert(c, next)
                       \/ /\ requests' = [requests EXCEPT ![c] = next]
                          /\ UNCHANGED <<prefs, rows, steady>>
                    /\ \/ next = NoRequest
                       \/ /\ CreateSettings(c)
                          /\ \/ next = NextRequest(requests[c].merchant, requests[c].body,
                                                   DefaultSettings, FALSE, {})
                             \/ next = NextRequest(requests[c].merchant, requests[c].body,
                                                   DefaultSettings, FALSE, Fields)
    BY <1>4 DEF CreateSettings, SaveSettings
  <2>2. requests[c].step # "idle"
    BY <1>4 DEF CreateSettings, SaveSettings
  <2>3. Request(next)
    <3>1. PICK m \in Merchants, body \in Bodies \cup {Nothing} :
            m = requests[c].merchant /\ body = requests[c].body
      BY <1>1, <2>2 DEF Request, NoRequest
    <3>2. /\ Request(NextRequest(m, body, DefaultSettings, FALSE, {}))
          /\ Request(NextRequest(m, body, DefaultSettings, FALSE, Fields))
      BY <1>1, NextRequestTyped
    <3>3. Request(NoRequest)
      BY DEF Request
    <3> QED
      BY <2>1, <3>1, <3>2, <3>3
  <2>4. /\ prefs' \in [Merchants -> Settings] /\ rows' \subseteq Merchants /\ rows \subseteq rows'
        /\ steady' \subseteq Merchants
        /\ \A d \in Clients : Request(requests'[d])
    <3>1. CASE Upsert(c, next)
      BY <2>2, <2>3, <3>1, UpsertTyped
    <3>2. CASE requests' = [requests EXCEPT ![c] = next] /\ UNCHANGED <<prefs, rows, steady>>
      BY <1>1, <1>2, <2>3, <3>2 DEF TypeOK
    <3> QED
      BY <2>1, <3>1, <3>2
  <2>5. UNCHANGED <<paid, now, schedulerVars, outdated, began, overran, scans, twice>>
    BY <1>4 DEF CreateSettings, SaveSettings
  <2> QED
    BY <2>4, <2>5 DEF TypeOK, Request, schedulerVars
<1> QED
  BY <1>3, <1>4

LEMMA SchedulerTyped ==
  ASSUME TypeOK, Start \/ Stop \/ BeginRun \/ ListFails \/ EndRun \/ Age \/ Tick
                 \/ \E m \in Merchants : ChangePlan(m) \/ Visit(m)
  PROVE  TypeOK'
<1> DEFINE s == StepsPerHour
           R == \A c \in Clients :
                  \/ requests[c] = NoRequest
                  \/ /\ requests[c].step \in {"create", "save"} /\ requests[c].merchant \in Merchants
                     /\ requests[c].body \in Bodies \cup {Nothing}
                     /\ requests[c].settings \in Settings
<1>1. /\ s \in Nat \ {0} /\ HoursPerDay \in Nat \ {0} /\ MaxTime \in Nat
      /\ now \in Nat /\ now <= MaxTime /\ alarm \in Nat /\ began \in Nat /\ began <= now
      /\ HourOf(now) \in Nat /\ HourOf(began) \in Nat /\ HourOf(began) <= HourOf(now)
      /\ 0 \in Hours /\ R
  BY Constants, HourBounds, HourGrows DEF TypeOK, Hours
<1>2. CASE Start
  <2>1. (HourOf(now) + 1) * s = HourOf(now) * s + s /\ HourOf(now) * s <= now
        /\ HourOf(now) * s \in Nat
    BY <1>1, TimesGrow, HourBounds
  <2>2. alarm' \in 0..MaxTime + s
    BY <1>1, <1>2, <2>1 DEF Start, NextHour
  <2> QED
    BY <1>2, <2>2 DEF Start, TypeOK, settingsVars
<1>3. CASE Stop
  BY <1>1, <1>3 DEF Stop, TypeOK, settingsVars
<1>4. CASE BeginRun
  <2>1. hour' = HourOf(now) % HoursPerDay /\ hour' \in Hours
    BY <1>1, <1>4 DEF BeginRun, RunBegins, Hours
  <2>2. outdated' \in BOOLEAN
    BY <1>4 DEF BeginRun, Purge, TypeOK
  <2>3. alarm' \in 0..MaxTime + s
    <3>1. NextTick \in now + 1..now + s
      BY <1>1, <1>4, Ticks DEF BeginRun, Due
    <3>2. alarm' = 0 \/ alarm' = NextTick
      BY <1>4 DEF BeginRun, RunBegins
    <3> QED
      BY <1>1, <3>1, <3>2
  <2>4. pc' = "run" /\ began' = now /\ todo' = Merchants
    BY <1>4 DEF BeginRun, RunBegins
  <2>5. UNCHANGED <<settingsVars, now, overran, scans, twice, steady>>
    BY <1>4 DEF BeginRun
  <2> QED
    BY <1>1, <2>1, <2>2, <2>3, <2>4, <2>5 DEF TypeOK, settingsVars
<1>5. CASE ListFails
  BY <1>5 DEF ListFails, TypeOK, settingsVars
<1>6. CASE EndRun
  BY <1>1, <1>6 DEF EndRun, TypeOK, settingsVars
<1>7. CASE Age
  BY <1>7 DEF Age, TypeOK, settingsVars, schedulerVars, historyVars
<1>8. CASE Tick
  <2>1. now' = now + 1 /\ now' <= MaxTime
    BY <1>1, <1>8 DEF Tick
  <2>2. HourOf(now)' = HourOf(now') /\ HourOf(now') \in Nat /\ HourOf(now) <= HourOf(now')
    <3>1. now \in Nat /\ now' \in Nat /\ now <= now'
      BY <1>1, <2>1
    <3>2. HourOf(now') \in Nat /\ HourOf(now) <= HourOf(now')
      BY <3>1, HourBounds, HourGrows
    <3>3. HourOf(now)' = HourOf(now')
      BY DEF HourOf
    <3> QED
      BY <3>2, <3>3
  <2>3. scans' \in [Merchants -> SUBSET (0..HourOf(now'))]
    <3>1. 0..HourOf(now) \subseteq 0..HourOf(now')
      BY <1>1, <2>2
    <3> QED
      BY <1>8, <3>1 DEF Tick, TypeOK
  <2>4. overran' \in BOOLEAN
    BY <1>8 DEF Tick, TypeOK
  <2>5. UNCHANGED <<settingsVars, schedulerVars, outdated, began, twice, steady>>
    BY <1>8 DEF Tick
  <2> QED
    BY <1>1, <2>1, <2>2, <2>3, <2>4, <2>5 DEF TypeOK, settingsVars, schedulerVars
<1>9. ASSUME NEW m \in Merchants, ChangePlan(m) PROVE TypeOK'
  <2>1. rows' \subseteq Merchants /\ paid' \subseteq rows' /\ steady' \subseteq Merchants
    BY <1>9 DEF ChangePlan, TypeOK
  <2> QED
    BY <1>9, <2>1 DEF ChangePlan, TypeOK, schedulerVars
<1>10. ASSUME NEW m \in Merchants, Visit(m) PROVE TypeOK'
  <2>1. scans' \in [Merchants -> SUBSET (0..HourOf(now))]
    <3>1. HourOf(began) \in 0..HourOf(now)
      BY <1>1
    <3>2. scans' = scans \/ scans' = [scans EXCEPT ![m] = @ \cup {HourOf(began)}]
      BY <1>10 DEF Visit
    <3> HIDE DEF R
    <3> QED
      BY <3>1, <3>2 DEF TypeOK
  <2>2. todo' \subseteq Merchants /\ twice' \subseteq Merchants /\ steady' \subseteq Merchants
    BY <1>10 DEF Visit, TypeOK
  <2>3. UNCHANGED <<settingsVars, now, pc, alarm, hour, outdated, began, overran>>
    BY <1>10 DEF Visit
  <2> QED
    BY <2>1, <2>2, <2>3 DEF TypeOK, settingsVars
<1> QED
  BY <1>2, <1>3, <1>4, <1>5, <1>6, <1>7, <1>8, <1>9, <1>10

\* The preferences, the requests, the clock and the scheduler are typed in
\* every reachable state (settings_handler.go, scheduler.go).
THEOREM TypeCorrect == Spec => []TypeOK
<1>1. Init => TypeOK
  <2> SUFFICES ASSUME Init PROVE TypeOK
    OBVIOUS
  <2>1. 0 \in Hours /\ 0 \in 0..MaxTime /\ 0 \in 0..MaxTime + StepsPerHour /\ 0 \in 0..now
    BY Constants DEF Hours, Init
  <2>2. prefs \in [Merchants -> Settings]
    BY DEF Init
  <2> QED
    BY <2>1, <2>2 DEF Init, TypeOK
<1>2. TypeOK /\ KeepInv /\ [Next]_vars => TypeOK'
  <2> SUFFICES ASSUME TypeOK, KeepInv, [Next]_vars PROVE TypeOK'
    OBVIOUS
  <2>1. CASE UNCHANGED vars
    BY <2>1 DEF vars, settingsVars, schedulerVars, historyVars, TypeOK, HourOf
  <2> QED
    BY <2>1, SettingsPageTyped, SchedulerTyped DEF Next
<1> QED
  BY <1>1, <1>2, Inductive, PTL DEF Spec

-----------------------------------------------------------------------------
\* One scan a day.

\* Each hour before k has been served, and with the right shops.
Served(k) ==
  \A m \in steady : \A h \in since..k - 1 :
    h \in scans[m] <=> m \in paid /\ prefs[m].scanHour = h % HoursPerDay

ScannedBefore(k, m) == \A h \in scans[m] : h < k

\* The first run begins with the hour, and every later one at its tick.
FirstInv ==
  pc = "first" =>
    /\ since \in Nat /\ ~overran /\ alarm = since * StepsPerHour /\ now <= alarm
    /\ \A m \in Merchants : ScannedBefore(since, m)

\* A run serves the hour that it began in, and ends before the next tick.
RunInv ==
  pc = "run" /\ ~overran =>
    /\ since \in 0..HourOf(began)
    /\ now < began + StepsPerHour
    /\ \/ alarm = 0 /\ began = since * StepsPerHour
       \/ alarm = began + StepsPerHour
    /\ hour = HourOf(began) % HoursPerDay
    /\ Served(HourOf(began))
    /\ \A m \in Merchants \ todo : ScannedBefore(HourOf(began) + 1, m)
    /\ \A m \in todo : ScannedBefore(HourOf(began), m)
    /\ \A m \in steady \ todo : HourOf(began) \in scans[m] <=> Scans(m)

\* The next tick comes in the hour after the last one served.
WaitInv ==
  pc = "wait" /\ ~overran =>
    /\ since \in 0..HourOf(alarm) /\ now <= alarm
    /\ Served(HourOf(alarm))
    /\ \A m \in Merchants : ScannedBefore(HourOf(alarm), m)

ScanInv == OncePerHour /\ FirstInv /\ RunInv /\ WaitInv

\* What is read of the state at a glance.
LEMMA Clock ==
  ASSUME TypeOK
  PROVE  /\ StepsPerHour \in Nat \ {0} /\ HoursPerDay \in Nat \ {0}
         /\ now \in Nat /\ alarm \in Nat /\ began \in Nat /\ began <= now
         /\ HourOf(now) \in Nat /\ HourOf(began) \in Nat /\ HourOf(alarm) \in Nat
         /\ \A m \in Merchants : scans[m] \subseteq 0..HourOf(now)
BY Constants, HourBounds DEF TypeOK

\* The settings page and billing: a shop whose preferences or plan change is
\* no longer steady.
LEMMA SettingsKeepScans ==
  ASSUME TypeOK, ScanInv, UNCHANGED <<now, schedulerVars, began, since, overran, scans, twice>>,
         steady' \subseteq steady,
         \A m \in steady' : prefs'[m] = prefs[m] /\ (m \in paid' <=> m \in paid)
  PROVE  ScanInv'
<1>1. UNCHANGED <<pc, alarm, hour, todo>>
  BY DEF schedulerVars
<1>2. ASSUME NEW k PROVE Served(k) => Served(k)'
  BY DEF Served
<1>3. \A k, m : ScannedBefore(k, m)' <=> ScannedBefore(k, m)
  BY DEF ScannedBefore
<1>4. \A m \in steady' : Scans(m)' <=> Scans(m)
  BY <1>1 DEF Scans
<1>5. HourOf(began)' = HourOf(began) /\ HourOf(alarm)' = HourOf(alarm)
  BY <1>1 DEF HourOf
<1>6. OncePerHour' /\ FirstInv'
  BY <1>1, <1>3 DEF ScanInv, OncePerHour, FirstInv
<1>7. RunInv'
  BY <1>1, <1>2, <1>3, <1>4, <1>5 DEF ScanInv, RunInv
<1>8. WaitInv'
  BY <1>1, <1>2, <1>3, <1>5 DEF ScanInv, WaitInv
<1> QED
  BY <1>6, <1>7, <1>8 DEF ScanInv

LEMMA StartKeepsScans ==
  ASSUME TypeOK, ScanInv, Start
  PROVE  ScanInv'
<1>1. /\ pc' = "first" /\ alarm' = (HourOf(now) + 1) * StepsPerHour /\ now' = now
      /\ since' = HourOf(alarm') /\ overran' = FALSE /\ twice' = {} /\ scans' = scans
  BY DEF Start, NextHour
<1>2. HourOf(now) + 1 \in Nat
  BY Clock
<1>3. since' = HourOf(now) + 1
  BY <1>1, <1>2, FullHours
<1>4. now' <= alarm'
  <2>1. (HourOf(now) + 1) * StepsPerHour = HourOf(now) * StepsPerHour + StepsPerHour
        /\ HourOf(now) * StepsPerHour \in Nat
    BY Clock, TimesGrow
  <2> QED
    BY <1>1, <2>1, Clock, HourBounds
<1>5. \A m \in Merchants : ScannedBefore(since, m)'
  BY <1>1, <1>3, Clock DEF ScannedBefore
<1> QED
  BY <1>1, <1>2, <1>3, <1>4, <1>5 DEF ScanInv, OncePerHour, FirstInv, RunInv, WaitInv

\* The hour a run begins in is the next to be served.
LEMMA BeginKeepsScans ==
  ASSUME TypeOK, ScanInv, BeginRun
  PROVE  ScanInv'
<1>1. /\ pc' = "run" /\ hour' = HourOf(now) % HoursPerDay /\ todo' = Merchants /\ began' = now
      /\ alarm' = IF pc = "first" THEN 0 ELSE NextTick
      /\ UNCHANGED <<prefs, paid, now, since, overran, scans, twice, steady>>
      /\ pc \in {"first", "wait"} /\ alarm <= now
  BY DEF BeginRun, RunBegins, Due, settingsVars
<1>2. HourOf(began)' = HourOf(now) /\ steady \subseteq Merchants
  BY <1>1 DEF HourOf, TypeOK
<1>3. CASE overran
  BY <1>1, <1>3 DEF ScanInv, OncePerHour, FirstInv, RunInv, WaitInv
<1>4. CASE ~overran
  <2>1. alarm = now
    BY <1>1, <1>4, Clock DEF ScanInv, FirstInv, WaitInv
  <2>2. /\ since \in 0..HourOf(now)
        /\ Served(HourOf(now)) /\ \A m \in Merchants : ScannedBefore(HourOf(now), m)
    <3>1. CASE pc = "first"
      <4>1. HourOf(now) = since /\ since \in Nat
        BY <2>1, <3>1, <1>4, FullHours DEF ScanInv, FirstInv
      <4>2. Served(since)
        BY <4>1 DEF Served
      <4> QED
        BY <3>1, <4>1, <4>2 DEF ScanInv, FirstInv
    <3>2. CASE pc = "wait"
      BY <1>4, <2>1, <3>2 DEF ScanInv, WaitInv
    <3> QED
      BY <1>1, <3>1, <3>2
  <2>3. \/ alarm' = 0 /\ began' = since * StepsPerHour
        \/ alarm' = began' + StepsPerHour
    <3>1. CASE pc = "first"
      BY <1>1, <2>1, <3>1 DEF ScanInv, FirstInv
    <3>2. CASE pc # "first"
      BY <1>1, <2>1, <3>2, Clock, Ticks
    <3> QED
      BY <3>1, <3>2
  <2>4. Served(HourOf(now))'
    <3>1. HourOf(now)' = HourOf(now)
      BY <1>1 DEF HourOf
    <3> QED
      BY <1>1, <2>2, <3>1 DEF Served
  <2>5. \A m \in Merchants : ScannedBefore(HourOf(now), m)'
    <3>1. HourOf(now)' = HourOf(now)
      BY <1>1 DEF HourOf
    <3> QED
      BY <1>1, <2>2, <3>1 DEF ScannedBefore
  <2>6. Served(HourOf(began))' /\ \A m \in Merchants : ScannedBefore(HourOf(began), m)'
    <3>1. HourOf(now)' = HourOf(began)'
      BY <1>1 DEF HourOf
    <3> QED
      BY <2>4, <2>5, <3>1 DEF Served, ScannedBefore
  <2>7. RunInv'
    BY <1>1, <1>2, <2>2, <2>3, <2>6, Clock DEF RunInv
  <2> QED
    BY <1>1, <2>7 DEF ScanInv, OncePerHour, FirstInv, WaitInv
<1> QED
  BY <1>3, <1>4

\* One merchant gets the scan of the hour, or not.
LEMMA VisitKeepsScans ==
  ASSUME TypeOK, ScanInv, NEW n \in Merchants, Visit(n)
  PROVE  ScanInv'
<1> DEFINE b == HourOf(began)
<1>1. /\ pc = "run" /\ n \in todo /\ todo' = todo \ {n} /\ todo \subseteq Merchants
      /\ steady \subseteq Merchants /\ steady' \subseteq steady
      /\ UNCHANGED <<prefs, paid, now, pc, alarm, hour, began, since, overran>>
      /\ scans \in [Merchants -> SUBSET (0..HourOf(now))]
      /\ HourOf(began)' = b
  BY DEF Visit, settingsVars, TypeOK, HourOf
<1>2. CASE overran
  BY <1>1, <1>2 DEF ScanInv, OncePerHour, FirstInv, RunInv, WaitInv
<1>3. CASE ~overran
  <2>1. /\ b \in Nat /\ since \in 0..b
        /\ Served(b) /\ ScannedBefore(b, n)
        /\ \A m \in Merchants \ todo : ScannedBefore(b + 1, m)
        /\ \A m \in todo : ScannedBefore(b, m)
        /\ \A m \in steady \ todo : b \in scans[m] <=> Scans(m)
    BY <1>1, <1>3, Clock DEF ScanInv, RunInv
  <2>2. b \notin scans[n]
    BY <2>1 DEF ScannedBefore
  <2>3. /\ \A m \in Merchants \ {n} : scans'[m] = scans[m]
        /\ scans'[n] \in {scans[n], scans[n] \cup {b}}
        /\ n \in steady' => (b \in scans'[n] <=> Scans(n))
        /\ twice' = twice
    BY <1>1, <2>2 DEF Visit
  <2>4. \A m : Scans(m)' <=> Scans(m)
    BY <1>1 DEF Scans
  <2> HIDE DEF b
  <2>5. Served(b)'
    <3>1. \A m \in steady' : \A h \in since..b - 1 : h \in scans'[m] <=> h \in scans[m]
      BY <1>1, <2>1, <2>3
    <3>2. b' = b
      BY <1>1 DEF b
    <3> QED
      BY <1>1, <2>1, <3>1, <3>2 DEF Served
  <2>6. ASSUME NEW m \in Merchants \ todo' PROVE \A h \in scans'[m] : h < b + 1
    <3>1. scans[m] \subseteq 0..HourOf(now)
      BY <1>1
    <3>2. CASE m = n
      BY <2>1, <2>3, <3>1, <3>2, Clock DEF ScannedBefore
    <3>3. CASE m # n
      BY <1>1, <2>1, <2>3, <2>6, <3>3 DEF ScannedBefore
    <3> QED
      BY <3>2, <3>3
  <2>7. ASSUME NEW m \in todo' PROVE \A h \in scans'[m] : h < b
    BY <1>1, <2>1, <2>3, <2>7 DEF ScannedBefore
  <2>8. ASSUME NEW m \in steady' \ todo' PROVE b \in scans'[m] <=> Scans(m)'
    BY <1>1, <2>1, <2>3, <2>4, <2>8
  <2>9. b' = b
    BY <1>1 DEF b
  <2>10. RunInv'
    <3>1. /\ \A m \in (Merchants \ todo)' : ScannedBefore(HourOf(began) + 1, m)'
          /\ \A m \in todo' : ScannedBefore(HourOf(began), m)'
          /\ Served(HourOf(began))'
      BY <2>5, <2>6, <2>7, <2>9 DEF ScannedBefore, b
    <3>2. /\ since' \in 0..HourOf(began)' /\ now' < began' + StepsPerHour
          /\ \/ alarm' = 0 /\ began' = since' * StepsPerHour
             \/ alarm' = began' + StepsPerHour
          /\ hour' = HourOf(began)' % HoursPerDay
      BY <1>1, <1>3 DEF ScanInv, RunInv, b
    <3>3. \A m \in (steady \ todo)' : HourOf(began)' \in scans'[m] <=> Scans(m)'
      BY <2>8, <2>9 DEF b
    <3> QED
      BY <3>1, <3>2, <3>3 DEF RunInv
  <2> QED
    BY <1>1, <2>3, <2>10 DEF ScanInv, OncePerHour, FirstInv, WaitInv
<1> QED
  BY <1>2, <1>3

LEMMA EndKeepsScans ==
  ASSUME TypeOK, ScanInv, EndRun
  PROVE  ScanInv'
<1> DEFINE b == HourOf(began)
<1>1. /\ pc = "run" /\ todo = {} /\ pc' = "wait"
      /\ alarm' = IF alarm = 0 THEN now + StepsPerHour ELSE alarm
      /\ UNCHANGED <<prefs, paid, now, since, overran, scans, twice, steady>>
      /\ steady \subseteq Merchants
  BY DEF EndRun, settingsVars, TypeOK
<1>2. CASE overran
  BY <1>1, <1>2 DEF ScanInv, OncePerHour, FirstInv, RunInv, WaitInv
<1>3. CASE ~overran
  <2>1. /\ b \in Nat /\ since \in 0..b
        /\ now < began + StepsPerHour
        /\ \/ alarm = 0 /\ began = since * StepsPerHour
           \/ alarm = began + StepsPerHour
        /\ hour = b % HoursPerDay
        /\ Served(b)
        /\ \A m \in Merchants : ScannedBefore(b + 1, m)
        /\ \A m \in steady : b \in scans[m] <=> Scans(m)
    BY <1>1, <1>3, Clock DEF ScanInv, RunInv
  <2>2. HourOf(alarm') = b + 1 /\ now <= alarm'
    <3>1. CASE alarm = 0 /\ began = since * StepsPerHour
      <4>1. b = since
        BY <2>1, <3>1, FullHours
      <4>2. HourOf(now) = since
        BY <2>1, <3>1, <4>1, Clock, HourIs
      <4> QED
        BY <1>1, <3>1, <4>1, <4>2, Clock, HourLater
    <3>2. CASE alarm = began + StepsPerHour
      <4>1. alarm # 0 /\ now <= alarm
        BY <2>1, <3>2, Clock
      <4> QED
        BY <1>1, <3>2, <4>1, Clock, HourLater
    <3> QED
      BY <2>1, <3>1, <3>2
  <2>3. Served(b + 1)
    <3>1. ASSUME NEW m \in steady, NEW h \in since..(b + 1) - 1
          PROVE  h \in scans[m] <=> m \in paid /\ prefs[m].scanHour = h % HoursPerDay
      <4> HIDE DEF b
      <4>1. h \in since..b - 1 \/ h = b
        BY <2>1
      <4> QED
        BY <2>1, <4>1 DEF Served, Scans
    <3>2. \A m \in steady : \A h \in since..(b + 1) - 1 :
            h \in scans[m] <=> m \in paid /\ prefs[m].scanHour = h % HoursPerDay
      <4> HIDE DEF b
      <4> QED
        BY <3>1
    <3> QED
      BY <3>2, Zenon DEF Served
  <2>4. HourOf(alarm)' = b + 1
    BY <2>2 DEF HourOf
  <2>5. Served(HourOf(alarm))'
    BY <1>1, <2>3, <2>4 DEF Served
  <2>6. \A m \in Merchants : ScannedBefore(HourOf(alarm), m)'
    BY <1>1, <2>1, <2>4 DEF ScannedBefore
  <2>7. since' \in 0..HourOf(alarm)'
    BY <1>1, <2>1, <2>4
  <2>8. WaitInv'
    BY <1>1, <2>2, <2>5, <2>6, <2>7 DEF WaitInv
  <2> QED
    BY <1>1, <2>8 DEF ScanInv, OncePerHour, FirstInv, RunInv
<1> QED
  BY <1>2, <1>3

\* Time does not pass a timer that is due, and a run that goes on for an hour
\* is noted.
LEMMA TickKeepsScans ==
  ASSUME TypeOK, ScanInv, Tick
  PROVE  ScanInv'
<1>1. /\ ~Due /\ now' = now + 1
      /\ overran' = (overran \/ (pc = "run" /\ now' - began >= StepsPerHour))
      /\ UNCHANGED <<prefs, paid, pc, alarm, hour, todo, began, since, scans, twice, steady>>
  BY DEF Tick, settingsVars, schedulerVars
<1>2. /\ \A k : Served(k) => Served(k)'
      /\ \A k, m : ScannedBefore(k, m)' <=> ScannedBefore(k, m)
      /\ \A m : Scans(m)' <=> Scans(m)
      /\ HourOf(began)' = HourOf(began) /\ HourOf(alarm)' = HourOf(alarm)
  BY <1>1 DEF Served, ScannedBefore, Scans, HourOf
<1>3. OncePerHour' /\ FirstInv'
  <2>1. pc = "first" => now' <= alarm'
    BY <1>1, Clock DEF Due
  <2>2. pc = "first" => ~overran'
    BY <1>1, Zenon DEF ScanInv, FirstInv
  <2> QED
    BY <1>1, <1>2, <2>1, <2>2 DEF ScanInv, OncePerHour, FirstInv
<1>4. RunInv'
  <2>1. ~overran' => ~overran /\ (pc = "run" => ~(now' - began >= StepsPerHour))
    BY <1>1, Zenon
  <2>2. ~(now' - began >= StepsPerHour) => now' < began' + StepsPerHour
    BY <1>1, Clock
  <2> QED
    BY <1>1, <1>2, <2>1, <2>2 DEF ScanInv, RunInv
<1>5. WaitInv'
  <2>1. pc = "wait" => now' <= alarm'
    BY <1>1, Clock DEF Due
  <2> QED
    BY <1>1, <1>2, <2>1 DEF ScanInv, WaitInv
<1> QED
  BY <1>3, <1>4, <1>5 DEF ScanInv

LEMMA ScansHold == Spec => []ScanInv
<1>1. Init => ScanInv
  BY DEF Init, ScanInv, OncePerHour, FirstInv, RunInv, WaitInv
<1>2. TypeOK /\ ScanInv /\ [Next]_vars => ScanInv'
  <2> SUFFICES ASSUME TypeOK, ScanInv, [Next]_vars PROVE ScanInv'
    OBVIOUS
  <2>1. ASSUME UNCHANGED <<prefs, paid, now, schedulerVars, began, since, overran, scans, twice, steady>>
        PROVE  ScanInv'
    BY <2>1, SettingsKeepScans
  <2>2. ASSUME NEW c \in Clients, NEW m \in Merchants, NEW body \in Bodies \cup {Nothing},
               ReadSettings(c, m, body)
        PROVE  ScanInv'
    BY <2>1, <2>2 DEF ReadSettings, historyVars
  <2>3. ASSUME NEW c \in Clients, CreateSettings(c) \/ SaveSettings(c) PROVE ScanInv'
    <3>1. UNCHANGED <<paid, now, schedulerVars, began, since, overran, scans, twice>>
      BY <2>3 DEF CreateSettings, SaveSettings
    <3>2. UNCHANGED <<prefs, steady>> \/ \E next : Upsert(c, next)
      BY <2>3 DEF CreateSettings, SaveSettings
    <3>3. steady' \subseteq steady /\ \A m \in steady' : m \in Merchants
      BY <3>2 DEF Upsert, TypeOK
    <3>4. \A m \in steady' : prefs'[m] = prefs[m]
      BY <3>2, <3>3 DEF Upsert, TypeOK
    <3> QED
      BY <3>1, <3>3, <3>4, SettingsKeepScans
  <2>4. ASSUME NEW m \in Merchants, ChangePlan(m) PROVE ScanInv'
    <3>1. /\ UNCHANGED <<prefs, now, schedulerVars, began, since, overran, scans, twice>>
          /\ steady' \subseteq steady
          /\ \A n \in steady' : n \in paid' <=> n \in paid
      BY <2>4 DEF ChangePlan
    <3> QED
      BY <3>1, SettingsKeepScans
  <2>5. ASSUME NEW m \in Merchants, Visit(m) PROVE ScanInv'
    BY <2>5, VisitKeepsScans
  <2>6. CASE Stop
    BY <2>6 DEF Stop, ScanInv, OncePerHour, FirstInv, RunInv, WaitInv
  <2>7. CASE ListFails
    <3>1. steady' = {} /\ todo' = {} /\ pc' = "run" /\ pc = "run" /\ todo = Merchants
          /\ UNCHANGED <<now, alarm, hour, began, since, overran, scans, twice>>
      BY <2>7 DEF ListFails, settingsVars
    <3>2. HourOf(began)' = HourOf(began)
      BY <3>1 DEF HourOf
    <3>3. RunInv'
      <4> SUFFICES ASSUME ~overran' PROVE RunInv'
        BY DEF RunInv
      <4>1. \A m \in Merchants : ScannedBefore(HourOf(began) + 1, m)'
        <5>1. \A m \in Merchants : \A h \in scans[m] : h \in Nat /\ h < HourOf(began)
          BY <3>1, Clock DEF ScanInv, RunInv, ScannedBefore
        <5> QED
          BY <3>1, <3>2, <5>1, Clock DEF ScannedBefore
      <4>2. Served(HourOf(began))'
        BY <3>1 DEF Served
      <4>3. /\ since' \in 0..HourOf(began)' /\ now' < began' + StepsPerHour
            /\ \/ alarm' = 0 /\ began' = since' * StepsPerHour
               \/ alarm' = began' + StepsPerHour
            /\ hour' = HourOf(began)' % HoursPerDay
        BY <3>1, <3>2 DEF ScanInv, RunInv
      <4> QED
        BY <3>1, <4>1, <4>2, <4>3 DEF RunInv
    <3> QED
      BY <3>1, <3>3 DEF ScanInv, OncePerHour, FirstInv, WaitInv
  <2>8. CASE Age
    BY <2>1, <2>8 DEF Age, settingsVars, historyVars
  <2>9. CASE UNCHANGED vars
    BY <2>1, <2>9 DEF vars, settingsVars, historyVars
  <2> QED
    BY <2>2, <2>3, <2>4, <2>5, <2>6, <2>7, <2>8, <2>9, StartKeepsScans, BeginKeepsScans,
       EndKeepsScans, TickKeepsScans DEF Next
<1> QED
  BY <1>1, <1>2, TypeCorrect, PTL DEF Spec

\* Wherever in the hour the ticks fall, however long a run takes within its
\* hour, and over restarts: no shop misses its daily scan, gets it at another
\* hour or gets two (Scheduler.Start, scheduledRun).
THEOREM ScansDaily == Spec => []ScannedOnceADay
<1>1. TypeOK /\ ScanInv => ScannedOnceADay
  <2> SUFFICES ASSUME TypeOK, ScanInv, pc = "wait", ~Due, ~overran
               PROVE  \A m \in steady : \A h \in since..HourOf(now) - 1 :
                        h \in scans[m] <=> m \in paid /\ prefs[m].scanHour = h % HoursPerDay
    BY DEF ScannedOnceADay, DailyScansHappen, ScanInv
  <2>1. HourOf(now) <= HourOf(alarm) /\ Served(HourOf(alarm)) /\ since \in Nat
    BY Clock, HourGrows DEF Due, ScanInv, WaitInv
  <2>2. since..HourOf(now) - 1 \subseteq since..HourOf(alarm) - 1
    BY <2>1, Clock
  <2> QED
    BY <2>1, <2>2 DEF Served
<1> QED
  BY <1>1, ScansHold, TypeCorrect, PTL

=============================================================================
