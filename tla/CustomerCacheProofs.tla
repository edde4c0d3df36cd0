-------------------------- MODULE CustomerCacheProofs --------------------------
(***************************************************************************)
(* Proofs about CustomerCache, for any customers, pages, requests and       *)
(* bounds.                                                                 *)
(***************************************************************************)
EXTENDS CustomerCache, FiniteSetTheorems, TLAPS

Items == [customer : Customers, row : Rows]
Syncs == [pc : {"idle", "fetch", "upsert", "dispatch"}, merchant : Nat, page : Nat,
          list : SUBSET Items, todo : SUBSET Items, active : SUBSET Customers]
Tasks == [stage : {"apply"}, hook : Hooks, merchant : 1..last]

\* TypeOK in a form that gives sync and work their fields.
Typed ==
  /\ shop \in [Customers -> Profiles] /\ installed \in BOOLEAN
  /\ subs \subseteq SubscribedTopics /\ events \in 0..MaxEvents
  /\ net \subseteq Hooks /\ \A h \in net : h.id < events
  /\ keys \subseteq {id \in Nat : id < events}
  /\ last \in 0..MaxInstalls /\ merchant \in {0, last}
  /\ cache \in [Customers -> Rows \cup {Absent}]
  /\ work \in [Handlers -> {Idle} \cup Tasks]
  /\ sync \in Syncs
  /\ faults \in 0..MaxFaults
  /\ astray \subseteq Customers /\ quiet \in BOOLEAN

\* Requests and the sync act for a merchant that was there when they began.
MerchantInv == sync.pc # "idle" => sync.merchant \in 1..last

\* Nothing is kept of a shop that is gone, and who is deleted does not return.
KeepInv ==
  /\ NothingKeptOfGoneShop
  /\ MerchantInv

Deleted(hook) ==
  hook.topic \in {"delete", "redact"} =>
    hook.customer \in Customers /\ ~shop[hook.customer].live
      /\ shop[hook.customer].details > 0

DeadInv ==
  /\ \A c \in Live : shop[c].details > 0
  /\ \A h \in net : Deleted(h)
  /\ \A p \in Handlers : work[p].stage = "apply" => Deleted(work[p].hook)

-----------------------------------------------------------------------------
LEMMA Constants ==
  /\ MaxEvents \in Nat /\ MaxInstalls \in Nat /\ MaxFaults \in Nat
  /\ PageOf \in [Customers -> Nat \ {0}]
  BY CustomerCacheAssumption DEF CustomerCacheAssumption

\* An event leaves a profile a profile.
LEMMA Profiled ==
  ASSUME NEW r \in Profiles
  PROVE  /\ [r EXCEPT !.live = TRUE, !.details = @ + 1] \in Profiles
         /\ [r EXCEPT !.orders = @ + 1] \in Profiles
         /\ [r EXCEPT !.live = FALSE] \in Profiles
<1>1. r.details + 1 \in Nat /\ r.orders + 1 \in Nat
  BY DEF Profiles
<1>2. TRUE \in BOOLEAN /\ FALSE \in BOOLEAN
  OBVIOUS
<1>3. ASSUME NEW live \in BOOLEAN, NEW n \in Nat
      PROVE  /\ [r EXCEPT !.live = live, !.details = n] \in Profiles
             /\ [r EXCEPT !.orders = n] \in Profiles
             /\ [r EXCEPT !.live = live] \in Profiles
  BY DEF Profiles
<1> QED
  BY <1>1, <1>2, <1>3

\* A fault leaves the counter within its bound.
LEMMA Faults ==
  ASSUME faults \in 0..MaxFaults, Fault \/ NoFault
  PROVE  faults' \in 0..MaxFaults
  BY Constants DEF Fault, NoFault

LEMMA EmitTyped ==
  ASSUME Typed, NEW topic \in SubscribedTopics \cup GDPRTopics,
         NEW c \in Customers \cup {AllCustomers}, NEW profile,
         profile.details \in Nat, profile.orders \in Nat,
         Emit(topic, c, profile)
  PROVE  /\ events' \in 0..MaxEvents
         /\ net' \subseteq Hooks /\ \A h \in net' : h.id < events'
         /\ keys \subseteq {id \in Nat : id < events'}
<1>1. events \in Nat /\ events' = events + 1 /\ events < MaxEvents
  BY Constants DEF Emit, Typed
<1>2. Hook(topic, c, profile) \in Hooks /\ Hook(topic, c, profile).id = events
  BY <1>1 DEF Hook, Hooks
<1>3. net' \subseteq net \cup {Hook(topic, c, profile)}
  BY DEF Emit
<1>4. \A h \in net : h.id \in Nat
  BY DEF Typed, Hooks
<1> QED
  BY <1>1, <1>2, <1>3, <1>4, Constants DEF Typed

\* The statements leave rows.
LEMMA StatementTyped ==
  ASSUME cache \in [Customers -> Rows \cup {Absent}], NEW m,
         NEW rows \in [Customers -> Rows \cup {Absent}], Statement(m, rows)
  PROVE  cache' \in [Customers -> Rows \cup {Absent}]
  BY DEF Statement

LEMMA NoRowsTyped == NoRows \in [Customers -> Rows \cup {Absent}]
  BY DEF NoRows

\* The effect of any webhook leaves rows, and the merchant or none.
LEMMA EffectTyped ==
  ASSUME Typed, NEW m, NEW hook \in Hooks, Effect(m, hook)
  PROVE  /\ cache' \in [Customers -> Rows \cup {Absent}]
         /\ merchant' \in {0, merchant}
         /\ merchant' # merchant => cache' = NoRows
<1> DEFINE c == hook.customer
           row == [details |-> hook.details, orders |-> hook.orders, history |-> Absent]
<1>0. cache \in [Customers -> Rows \cup {Absent}]
  BY DEF Typed
<1>1. CASE hook.topic = "update"
  <2>1. Upsert(m, c, row) /\ UNCHANGED merchant
    BY <1>1 DEF Effect
  <2>2. row \in Rows
    BY DEF Rows, Hooks
  <2>3. [cache EXCEPT ![c] = row] \in [Customers -> Rows \cup {Absent}]
    BY <1>0, <2>2
  <2> QED
    BY <1>0, <2>1, <2>3, StatementTyped DEF Upsert
<1>2. CASE hook.topic = "order"
  <2>1. UpdateOrderStats(m, c, hook) /\ UNCHANGED merchant
    BY <1>2 DEF Effect
  <2>2. hook.orders \in Nat
    BY DEF Hooks
  <2>3. ASSUME cache[c] # Absent
        PROVE  [cache EXCEPT ![c].orders = hook.orders] \in [Customers -> Rows \cup {Absent}]
    <3>1. CASE c \in Customers
      <4>1. cache[c] \in Rows
        BY <1>0, <2>3, <3>1
      <4>2. [cache[c] EXCEPT !.orders = hook.orders] \in Rows
        BY <4>1, <2>2 DEF Rows
      <4> QED
        BY <1>0, <3>1, <4>2
    <3>2. CASE c \notin Customers
      BY <1>0, <3>2
    <3> QED
      BY <3>1, <3>2
  <2> QED
    BY <1>0, <2>1, <2>3, StatementTyped DEF UpdateOrderStats
<1>3. CASE hook.topic \in {"delete", "redact"}
  <2>1. DeleteByShopifyID(m, c) /\ UNCHANGED merchant
    BY <1>3 DEF Effect
  <2>2. [cache EXCEPT ![c] = Absent] \in [Customers -> Rows \cup {Absent}]
    BY <1>0
  <2> QED
    BY <1>0, <2>1, <2>2, StatementTyped DEF DeleteByShopifyID
<1>4. CASE hook.topic \notin {"update", "order", "delete", "redact"}
  <2>1. DeleteMerchant(m)
    BY <1>4 DEF Effect
  <2> QED
    BY <1>0, <2>1, NoRowsTyped DEF DeleteMerchant
<1> QED
  BY <1>1, <1>2, <1>3, <1>4

\* What a sync fetches is a row.
LEMMA FetchedTyped ==
  ASSUME Typed, NEW c \in Customers
  PROVE  Fetched(c) \in Items
<1>1. shop[c].details \in Nat /\ shop[c].orders \in Nat
  BY DEF Typed, Profiles
<1> QED
  BY <1>1 DEF Fetched, Items, Rows

\* Starting and ending a sync, and an idle request, are well typed.
LEMMA Starts ==
  /\ NoSync \in Syncs
  /\ \A m \in Nat : [NoSync EXCEPT !.pc = "fetch", !.merchant = m] \in Syncs
  /\ Idle.stage = "idle"
  BY DEF NoSync, Syncs, Idle

\* Every step keeps the types.
LEMMA TypedStep ==
  ASSUME Typed, [Next]_vars
  PROVE  Typed'
<1>t. Tasks' = Tasks \/ last' # last
  BY DEF Tasks
<1>f. Fault \/ NoFault => faults' \in 0..MaxFaults
  BY Faults DEF Typed
<1>1. ASSUME NEW c \in Customers, CustomerEvent(c) PROVE Typed'
  <2>1. PICK topic \in SubscribedTopics, profile \in Profiles : Change(c, topic, profile)
    <3>1. shop[c] \in Profiles
      BY DEF Typed
    <3>2. /\ [shop[c] EXCEPT !.live = TRUE, !.details = @ + 1] \in Profiles
          /\ [shop[c] EXCEPT !.orders = @ + 1] \in Profiles
          /\ [shop[c] EXCEPT !.live = FALSE] \in Profiles
      BY <3>1, Profiled
    <3>3. {"update", "order", "delete"} \subseteq SubscribedTopics
      BY DEF SubscribedTopics
    <3> QED
      BY <1>1, <3>2, <3>3 DEF CustomerEvent
  <2>2. /\ shop' = [shop EXCEPT ![c] = profile]
        /\ Emit(topic, c, profile)
        /\ astray' = IF topic \in subs THEN astray ELSE astray \cup {c}
        /\ quiet' = FALSE
        /\ UNCHANGED <<installed, subs, keys, merchant, last, cache, work, sync, faults>>
    BY <2>1 DEF Change
  <2>3. /\ events' \in 0..MaxEvents
        /\ net' \subseteq Hooks /\ \A h \in net' : h.id < events'
        /\ keys \subseteq {id \in Nat : id < events'}
    BY <2>2, EmitTyped DEF Profiles
  <2>4. shop' \in [Customers -> Profiles] /\ astray' \subseteq Customers
    BY <2>2 DEF Typed
  <2> QED
    BY <1>t, <2>2, <2>3, <2>4 DEF Typed, Syncs
<1>2. CASE GDPREvent
  <2>1. PICK topic \in GDPRTopics, c \in Customers \cup {AllCustomers},
             profile \in [details : Nat, orders : Nat] \cup Profiles :
               Emit(topic, c, profile)
    BY <1>2 DEF GDPREvent, GDPRTopics, Typed
  <2>2. UNCHANGED <<shop, installed, subs, keys, merchant, last, cache, work, sync,
                    faults, astray, quiet>>
    BY <1>2 DEF GDPREvent, historyVars
  <2>3. profile.details \in Nat /\ profile.orders \in Nat
    BY DEF Profiles
  <2>4. /\ events' \in 0..MaxEvents
        /\ net' \subseteq Hooks /\ \A h \in net' : h.id < events'
        /\ keys \subseteq {id \in Nat : id < events'}
    BY <2>1, <2>3, EmitTyped
  <2> QED
    BY <1>t, <2>2, <2>4 DEF Typed, Syncs
<1>3. CASE Install
  <2>1. last \in Nat /\ last < MaxInstalls /\ last' \in {last, last + 1}
    BY <1>3, Constants DEF Install, Typed
  <2>2. last' \in 0..MaxInstalls /\ merchant' \in {0, last'}
    BY <1>3, <2>1, Constants DEF Install, Typed
  <2>3. Tasks \subseteq Tasks'
    BY <2>1 DEF Tasks
  <2> QED
    BY <1>3, <2>2, <2>3 DEF Install, Typed, historyVars
<1>4. CASE RegisterAll
  <2>1. subs' \subseteq SubscribedTopics
    BY <1>4 DEF RegisterAll
  <2>2. faults' \in 0..MaxFaults
    BY <1>4, <1>f DEF RegisterAll
  <2> QED
    BY <1>4, <1>t, <2>1, <2>2 DEF RegisterAll, Typed, historyVars
<1>5. CASE Uninstall
  <2>1. /\ events' \in 0..MaxEvents
        /\ net' \subseteq Hooks /\ \A h \in net' : h.id < events'
        /\ keys \subseteq {id \in Nat : id < events'}
    BY <1>5, EmitTyped DEF Uninstall, SubscribedTopics
  <2> QED
    BY <1>5, <1>t, <2>1 DEF Uninstall, Typed, historyVars
<1>6. ASSUME NEW p \in Handlers, NEW hook \in net, Receive(p, hook) PROVE Typed'
  <2>0. hook \in Hooks /\ hook.id < events /\ hook.id \in Nat
    BY DEF Typed, Hooks
  <2>a. About(hook) \subseteq Customers
    BY <2>0 DEF About, Hooks
  <2>1. net' \subseteq net /\ keys' \subseteq keys \cup {hook.id}
    BY <1>6 DEF Receive, Acknowledge
  <2>2. astray' \subseteq Customers
    BY <1>6, <2>a DEF Receive, Typed
  <2>3. work' \in [Handlers -> {Idle} \cup Tasks]
    <3>1. CASE UNCHANGED work
      BY <3>1 DEF Typed
    <3>2. CASE /\ merchant # 0
               /\ work' = [work EXCEPT ![p] =
                             [stage |-> "apply", hook |-> hook, merchant |-> merchant]]
      <4>1. merchant \in 1..last
        BY <3>2, Constants DEF Typed
      <4>2. [stage |-> "apply", hook |-> hook, merchant |-> merchant] \in Tasks
        BY <2>0, <4>1 DEF Tasks
      <4> QED
        BY <3>2, <4>2 DEF Typed
    <3> QED
      BY <1>6, <3>1, <3>2 DEF Receive
  <2>4. faults' \in 0..MaxFaults
    BY <1>6, <1>f DEF Receive
  <2>5. UNCHANGED <<shopVars, merchant, last, cache, sync, quiet>>
    BY <1>6 DEF Receive
  <2> QED
    BY <1>t, <2>0, <2>1, <2>2, <2>3, <2>4, <2>5 DEF Typed, shopVars
<1>7. ASSUME NEW p \in Handlers, Apply(p) PROVE Typed'
  <2>1. work[p] \in Tasks
    BY <1>7, Starts DEF Apply, Typed
  <2>2. work[p].hook \in Hooks
    BY <2>1 DEF Tasks
  <2>a. About(work[p].hook) \subseteq Customers
    BY <2>2 DEF About, Hooks
  <2>3. /\ work' = [work EXCEPT ![p] = Idle]
        /\ net' \subseteq net
        /\ faults' \in 0..MaxFaults
        /\ astray' \subseteq Customers
    BY <1>7, <1>f, <2>a DEF Apply, Respond, Acknowledge, Typed
  <2>4. cache' \in [Customers -> Rows \cup {Absent}] /\ merchant' \in {0, merchant}
    BY <1>7, <2>2, EffectTyped DEF Apply, Typed
  <2>5. UNCHANGED <<shopVars, keys, last, sync>> /\ quiet' = FALSE
    BY <1>7 DEF Apply
  <2> QED
    BY <1>t, <2>3, <2>4, <2>5 DEF Typed, shopVars
<1>8. CASE Expire
  <2>1. PICK id \in keys \cap {h.id : h \in net} :
          /\ keys' = keys \ {id}
          /\ astray' = astray \cup UNION {About(h) : h \in {k \in net : k.id = id}}
    BY <1>8 DEF Expire
  <2>2. \A h \in net : About(h) \subseteq Customers
    BY DEF About, Hooks, Typed
  <2>3. astray' \subseteq Customers
    BY <2>1, <2>2 DEF Typed
  <2>4. faults' \in 0..MaxFaults
    BY <1>8, <1>f DEF Expire
  <2> QED
    BY <1>8, <1>t, <2>1, <2>3, <2>4 DEF Expire, Typed, shopVars
<1>9. CASE BeginSync
  <2>1. sync' \in Syncs
    <3>1. merchant \in Nat
      BY Constants DEF Typed
    <3> QED
      BY <1>9, <3>1, Starts DEF BeginSync
  <2> QED
    BY <1>9, <1>t, <2>1 DEF BeginSync, Typed, shopVars
<1>10. CASE FetchPage
  <2> DEFINE page == {c \in Live : PageOf[c] = sync.page}
             list == sync.list \cup {Fetched(c) : c \in page}
  <2>1. list \in SUBSET Items
    BY FetchedTyped DEF Typed, Syncs, Live
  <2> HIDE DEF list
  <2>2. [sync EXCEPT !.list = list, !.page = @ + 1] \in Syncs
    <3>1. sync \in Syncs /\ sync.page + 1 \in Nat
      BY DEF Typed, Syncs
    <3> QED
      BY <2>1, <3>1 DEF Syncs
  <2>3. [sync EXCEPT !.pc = "upsert", !.list = {}, !.page = 1, !.todo = list] \in Syncs
    BY <2>1 DEF Typed, Syncs
  <2>4. sync' \in Syncs /\ quiet' \in {quiet, FALSE}
    BY <1>10, <2>2, <2>3, Starts DEF FetchPage, StopSync, list
  <2>5. faults' \in 0..MaxFaults
    BY <1>10, <1>f DEF FetchPage
  <2>6. UNCHANGED <<shopVars, net, keys, merchant, last, cache, work, astray>>
    BY <1>10 DEF FetchPage
  <2> QED
    BY <1>t, <2>4, <2>5, <2>6 DEF Typed, shopVars
<1>11. CASE UpsertFetched
  <2>1. PICK item \in sync.todo :
          \/ /\ Upsert(sync.merchant, item.customer, item.row)
             /\ sync' = [sync EXCEPT !.todo = @ \ {item},
                           !.active = IF sync.merchant = merchant
                                      THEN @ \cup {item.customer} ELSE @]
             /\ astray' =
                  IF sync.merchant = merchant /\ ~Current(item)
                  THEN astray \cup {item.customer}
                  ELSE IF sync.merchant = merchant
                            /\ \A h \in Pending : item.customer \notin About(h)
                  THEN astray \ {item.customer} ELSE astray
             /\ UNCHANGED quiet /\ NoFault
          \/ /\ sync' = [sync EXCEPT !.todo = @ \ {item}]
             /\ quiet' = FALSE /\ Fault
             /\ UNCHANGED <<cache, astray>>
    BY <1>11 DEF UpsertFetched
  <2>2. item.customer \in Customers /\ item.row \in Rows
    BY DEF Typed, Syncs, Items
  <2>3. cache' \in [Customers -> Rows \cup {Absent}]
    <3>1. [cache EXCEPT ![item.customer] = item.row] \in [Customers -> Rows \cup {Absent}]
      BY <2>2 DEF Typed
    <3> QED
      BY <2>1, <3>1 DEF Upsert, Statement, Typed
  <2>4. sync' \in Syncs
    <3>1. [sync EXCEPT !.todo = @ \ {item}] \in Syncs
      BY DEF Typed, Syncs
    <3>2. [sync EXCEPT !.todo = @ \ {item},
             !.active = IF sync.merchant = merchant THEN @ \cup {item.customer} ELSE @]
            \in Syncs
      BY <2>2 DEF Typed, Syncs
    <3> QED
      BY <2>1, <3>1, <3>2
  <2>5. astray' \subseteq Customers /\ quiet' \in {quiet, FALSE}
    BY <2>1, <2>2 DEF Typed
  <2>6. faults' \in 0..MaxFaults
    BY <1>f, <2>1
  <2>7. UNCHANGED <<shopVars, net, keys, merchant, last, work>>
    BY <1>11 DEF UpsertFetched
  <2> QED
    BY <1>t, <2>3, <2>4, <2>5, <2>6, <2>7 DEF Typed, shopVars
<1>12. CASE CleanStale
  <2>1. sync' \in Syncs
    <3>1. sync' = [sync EXCEPT !.pc = "dispatch", !.active = {}]
      BY <1>12 DEF CleanStale
    <3> QED
      BY <3>1 DEF Typed, Syncs
  <2>2. cache' \in [Customers -> Rows \cup {Absent}]
    BY <1>12 DEF CleanStale, DeleteStaleEntries, Statement, Typed
  <2>3. faults' \in 0..MaxFaults /\ quiet' \in {quiet, FALSE}
    BY <1>12, <1>f DEF CleanStale
  <2> QED
    BY <1>12, <1>t, <2>1, <2>2, <2>3 DEF CleanStale, Typed, shopVars
<1>13. CASE EndSync
  BY <1>13, <1>t, Starts DEF EndSync, StopSync, Typed, shopVars
<1>14. CASE Crash
  <2>1. \A h \in InHand : About(h) \subseteq Customers
    BY Starts DEF InHand, About, Typed, Tasks, Hooks
  <2>2. astray' \subseteq Customers
    BY <1>14, <2>1 DEF Crash, Typed
  <2>3. faults' \in 0..MaxFaults
    BY <1>14, <1>f DEF Crash
  <2> QED
    BY <1>14, <1>t, <2>2, <2>3, Starts DEF Crash, StopSync, Typed, shopVars
<1>15. CASE UNCHANGED vars
  BY <1>15, <1>t DEF vars, shopVars, historyVars, Typed
<1> QED
  BY <1>1, <1>2, <1>3, <1>4, <1>5, <1>6, <1>7, <1>8, <1>9, <1>10, <1>11, <1>12, <1>13,
     <1>14, <1>15 DEF Next

-----------------------------------------------------------------------------
\* No step brings back a row of a shop that is gone, because nobody acts for
\* merchant 0.
LEMMA KeepStep ==
  ASSUME Typed, Typed', KeepInv, [Next]_vars
  PROVE  KeepInv'
<1>m. ASSUME NEW m, m # 0, NEW rows, Statement(m, rows), merchant' \in {merchant, 0},
             merchant' = merchant
      PROVE  NothingKeptOfGoneShop'
  BY <1>m DEF KeepInv, NothingKeptOfGoneShop, Statement, NoRows
<1>u. ASSUME UNCHANGED <<merchant, cache>> PROVE NothingKeptOfGoneShop'
  BY <1>u DEF KeepInv, NothingKeptOfGoneShop, NoRows
<1>s. ASSUME UNCHANGED sync, last' = last PROVE MerchantInv'
  BY <1>s DEF KeepInv, MerchantInv
<1>1. ASSUME NEW c \in Customers, CustomerEvent(c) PROVE KeepInv'
  BY <1>1, <1>u, <1>s DEF CustomerEvent, Change, KeepInv
<1>2. CASE GDPREvent \/ RegisterAll \/ Uninstall
  BY <1>2, <1>u, <1>s DEF GDPREvent, RegisterAll, Uninstall, KeepInv
<1>3. CASE Install
  <2>1. last \in Nat /\ last' \in {last, last + 1} /\ merchant' # 0
    BY <1>3, Constants DEF Install, Typed
  <2>2. NothingKeptOfGoneShop'
    BY <2>1 DEF NothingKeptOfGoneShop
  <2>3. MerchantInv'
    BY <1>3, <2>1 DEF Install, KeepInv, MerchantInv
  <2> QED
    BY <2>2, <2>3 DEF KeepInv
<1>4. ASSUME NEW p \in Handlers, NEW hook \in net, Receive(p, hook) PROVE KeepInv'
  BY <1>4, <1>u, <1>s DEF Receive, shopVars, KeepInv
<1>5. ASSUME NEW p \in Handlers, Apply(p) PROVE KeepInv'
  <2> DEFINE m == work[p].merchant
             hook == work[p].hook
  <2>1. MerchantInv'
    BY <1>5, <1>s DEF Apply, shopVars
  <2>2. m \in 1..last
    BY <1>5, Starts DEF Apply, Typed, Tasks
  <2>3. m # 0
    BY <2>2, Constants DEF Typed
  <2>4. CASE UNCHANGED <<cache, merchant>>
    BY <1>u, <2>1, <2>4 DEF KeepInv
  <2>5. CASE Effect(m, hook)
    <3>1. CASE hook.topic = "update"
      <4>1. Upsert(m, hook.customer, [details |-> hook.details, orders |-> hook.orders,
                                      history |-> Absent]) /\ UNCHANGED merchant
        BY <2>5, <3>1 DEF Effect
      <4> QED
        BY <1>m, <2>1, <2>3, <4>1 DEF Upsert, KeepInv
    <3>2. CASE hook.topic = "order"
      <4>1. UpdateOrderStats(m, hook.customer, hook) /\ UNCHANGED merchant
        BY <2>5, <3>2 DEF Effect
      <4> QED
        BY <1>m, <2>1, <2>3, <4>1 DEF UpdateOrderStats, KeepInv
    <3>3. CASE hook.topic \in {"delete", "redact"}
      <4>1. DeleteByShopifyID(m, hook.customer) /\ UNCHANGED merchant
        BY <2>5, <3>3 DEF Effect
      <4> QED
        BY <1>m, <2>1, <2>3, <4>1 DEF DeleteByShopifyID, KeepInv
    <3>4. CASE hook.topic \notin {"update", "order", "delete", "redact"}
      <4>1. DeleteMerchant(m)
        BY <2>5, <3>4 DEF Effect
      <4>2. NothingKeptOfGoneShop'
        BY <4>1 DEF DeleteMerchant, KeepInv, NothingKeptOfGoneShop, NoRows
      <4> QED
        BY <2>1, <4>2 DEF KeepInv
    <3> QED
      BY <3>1, <3>2, <3>3, <3>4
  <2> QED
    BY <1>5, <2>4, <2>5 DEF Apply
<1>6. CASE Expire
  BY <1>6, <1>u, <1>s DEF Expire, shopVars, KeepInv
<1>7. CASE BeginSync
  <2>1. sync'.merchant = merchant /\ merchant \in 1..last
    BY <1>7, Constants DEF BeginSync, NoSync, Typed
  <2> QED
    BY <1>7, <1>u, <2>1 DEF BeginSync, KeepInv, MerchantInv
<1>8. CASE FetchPage
  <2>1. sync'.pc = "idle" \/ sync'.merchant = sync.merchant
    <3>1. CASE StopSync
      BY <3>1 DEF StopSync, NoSync
    <3>2. CASE ~StopSync
      BY <1>8, <3>2 DEF FetchPage, Typed, Syncs
    <3> QED
      BY <3>1, <3>2
  <2>2. sync.pc = "fetch" /\ UNCHANGED <<merchant, cache, last>>
    BY <1>8 DEF FetchPage
  <2> QED
    BY <1>u, <2>1, <2>2 DEF KeepInv, MerchantInv
<1>9. CASE UpsertFetched
  <2>1. sync'.merchant = sync.merchant /\ sync.pc = "upsert"
    BY <1>9 DEF UpsertFetched, Typed, Syncs
  <2>2. sync.merchant \in 1..last /\ sync.merchant # 0 /\ UNCHANGED <<merchant, last>>
    BY <1>9, <2>1, Constants DEF UpsertFetched, KeepInv, MerchantInv, Typed
  <2>3. NothingKeptOfGoneShop'
    BY <1>9, <1>u, <1>m, <2>2 DEF UpsertFetched, Upsert
  <2> QED
    BY <2>1, <2>2, <2>3 DEF KeepInv, MerchantInv
<1>10. CASE CleanStale
  <2>1. sync'.merchant = sync.merchant /\ sync.pc = "upsert"
    BY <1>10 DEF CleanStale, Typed, Syncs
  <2>2. sync.merchant \in 1..last /\ sync.merchant # 0 /\ UNCHANGED <<merchant, last>>
    BY <1>10, <2>1, Constants DEF CleanStale, KeepInv, MerchantInv, Typed
  <2>3. NothingKeptOfGoneShop'
    BY <1>10, <1>u, <1>m, <2>2 DEF CleanStale, DeleteStaleEntries
  <2> QED
    BY <2>1, <2>2, <2>3 DEF KeepInv, MerchantInv
<1>11. CASE EndSync \/ Crash
  BY <1>11, <1>u DEF EndSync, Crash, StopSync, NoSync, KeepInv, MerchantInv
<1>12. CASE UNCHANGED vars
  BY <1>12, <1>u, <1>s DEF vars, KeepInv
<1> QED
  BY <1>1, <1>2, <1>3, <1>4, <1>5, <1>6, <1>7, <1>8, <1>9, <1>10, <1>11, <1>12 DEF Next

\* Ids are never used again: who was deleted, or is about to be erased, stays so.
LEMMA DeadStep ==
  ASSUME Typed, Typed', DeadInv, [Next]_vars
  PROVE  DeadInv'
<1> DEFINE Dead == {c \in Customers : ~shop[c].live /\ shop[c].details > 0}
\* Steps that send nothing.
<1>n. ASSUME UNCHANGED shop, net' \subseteq net,
             \A p \in Handlers : work'[p].stage = "apply" =>
               work'[p] = work[p] \/ work'[p].hook \in net
      PROVE  DeadInv'
  BY <1>n DEF DeadInv, Deleted, Live
<1>1. ASSUME NEW c \in Customers, CustomerEvent(c) PROVE DeadInv'
  <2>0. shop[c].details \in Nat
    BY DEF Typed, Profiles
  <2>1. PICK topic \in SubscribedTopics, profile \in Profiles :
          /\ Change(c, topic, profile)
          /\ c \notin Dead
          /\ profile.details > 0
          /\ topic = "delete" => ~profile.live
          /\ topic # "redact"
    <3>1. shop[c] \in Profiles
      BY DEF Typed
    <3>2. {"update", "order", "delete"} \subseteq SubscribedTopics
      BY DEF SubscribedTopics
    <3>3. CASE /\ c \in Live \/ shop[c].details = 0
               /\ Change(c, "update", [shop[c] EXCEPT !.live = TRUE, !.details = @ + 1])
      <4>1. [shop[c] EXCEPT !.live = TRUE, !.details = @ + 1].details > 0
        BY <2>0, <3>1 DEF Profiles
      <4>2. [shop[c] EXCEPT !.live = TRUE, !.details = @ + 1] \in Profiles
        BY <3>1, Profiled
      <4>3. c \notin Dead
        BY <3>3 DEF Live
      <4> QED
        BY <3>2, <3>3, <4>1, <4>2, <4>3
    <3>4. CASE c \in Live /\ Change(c, "order", [shop[c] EXCEPT !.orders = @ + 1])
      <4>1. [shop[c] EXCEPT !.orders = @ + 1].details = shop[c].details
        BY <3>1 DEF Profiles
      <4> QED
        BY <3>1, <3>2, <3>4, <4>1, Profiled DEF Live, DeadInv
    <3>5. CASE c \in Live /\ Change(c, "delete", [shop[c] EXCEPT !.live = FALSE])
      <4>1. /\ [shop[c] EXCEPT !.live = FALSE].details = shop[c].details
            /\ ~[shop[c] EXCEPT !.live = FALSE].live
        BY <3>1 DEF Profiles
      <4> QED
        BY <3>1, <3>2, <3>5, <4>1, Profiled DEF Live, DeadInv
    <3> QED
      BY <1>1, <3>3, <3>4, <3>5 DEF CustomerEvent
  <2>2. shop' = [shop EXCEPT ![c] = profile] /\ UNCHANGED work
    BY <2>1 DEF Change
  <2>3. PICK hook : hook = Hook(topic, c, profile) /\ net' \subseteq net \cup {hook}
    BY <2>1 DEF Change, Emit
  <2>4. /\ shop'[c] = profile
        /\ \A d \in Customers \ {c} : shop'[d] = shop[d]
        /\ shop' \in [Customers -> Profiles]
    BY <2>2 DEF Typed
  <2>5. \A d \in Live' : shop'[d].details > 0
    BY <2>1, <2>4 DEF Live, DeadInv
  <2>6. \A h : Deleted(h) => Deleted(h)'
    BY <2>1, <2>4 DEF Deleted
  <2>7. Deleted(hook)'
    BY <2>1, <2>3, <2>4 DEF Deleted, Hook
  <2>8. ASSUME NEW h \in net' PROVE Deleted(h)'
    <3>1. CASE h \in net
      <4>1. Deleted(h)
        BY <3>1 DEF DeadInv
      <4> QED
        BY <2>6, <4>1
    <3> QED
      BY <2>3, <2>7, <2>8, <3>1
  <2>9. ASSUME NEW p \in Handlers, work'[p].stage = "apply" PROVE Deleted(work[p].hook)'
    <3>1. PICK h : h = work[p].hook /\ h = work'[p].hook
      BY <2>2
    <3>2. Deleted(h)
      BY <2>2, <2>9, <3>1 DEF DeadInv
    <3>3. Deleted(h)'
      BY <2>6, <3>2
    <3> QED
      BY <3>1, <3>3 DEF Deleted
  <2> QED
    BY <2>5, <2>8, <2>9 DEF DeadInv
<1>2. CASE GDPREvent
  <2>0. UNCHANGED <<shop, work>>
    BY <1>2 DEF GDPREvent
  <2>1. CASE \E c \in Customers \ Live : shop[c].details > 0 /\ Emit("redact", c, shop[c])
    <3>1. PICK c \in Customers \ Live : shop[c].details > 0 /\ Emit("redact", c, shop[c])
      BY <2>1
    <3>2. net' \subseteq net \cup {Hook("redact", c, shop[c])}
      BY <3>1 DEF Emit
    <3>3. Deleted(Hook("redact", c, shop[c]))
      BY <3>1 DEF Deleted, Hook, Live
    <3> QED
      BY <2>0, <3>2, <3>3 DEF DeadInv, Deleted, Live
  <2>2. CASE Emit("shop_redact", AllCustomers, [details |-> 0, orders |-> 0])
    <3> DEFINE hook == Hook("shop_redact", AllCustomers, [details |-> 0, orders |-> 0])
    <3>1. net' \subseteq net \cup {hook}
      BY <2>2 DEF Emit
    <3>2. Deleted(hook)
      BY DEF Deleted, Hook
    <3> QED
      BY <2>0, <3>1, <3>2 DEF DeadInv, Deleted, Live
  <2> QED
    BY <1>2, <2>1, <2>2 DEF GDPREvent
<1>3. CASE Uninstall
  <2> DEFINE hook == Hook("uninstalled", AllCustomers, [details |-> 0, orders |-> 0])
  <2>1. net' \subseteq net \cup {hook} /\ UNCHANGED <<shop, work>>
    BY <1>3 DEF Uninstall, Emit
  <2>2. Deleted(hook)
    BY DEF Deleted, Hook
  <2> QED
    BY <2>1, <2>2 DEF DeadInv, Deleted, Live
<1>4. CASE Install \/ RegisterAll
  BY <1>4, <1>n DEF Install, RegisterAll
<1>5. ASSUME NEW p \in Handlers, NEW hook \in net, Receive(p, hook) PROVE DeadInv'
  <2>1. net' \subseteq net /\ UNCHANGED shop
    BY <1>5 DEF Receive, Acknowledge, shopVars
  <2>2. ASSUME NEW q \in Handlers
        PROVE  work'[q] = work[q] \/ work'[q].hook \in net
    BY <1>5 DEF Receive, Typed
  <2> QED
    BY <1>n, <2>1, <2>2
<1>6. ASSUME NEW p \in Handlers, Apply(p) PROVE DeadInv'
  <2>1. net' \subseteq net /\ UNCHANGED shop /\ work' = [work EXCEPT ![p] = Idle]
    BY <1>6 DEF Apply, Respond, Acknowledge, shopVars
  <2>2. ASSUME NEW q \in Handlers, work'[q].stage = "apply" PROVE work'[q] = work[q]
    BY <2>1, <2>2, Starts DEF Typed
  <2> QED
    BY <1>n, <2>1, <2>2
<1>7. CASE Expire \/ BeginSync \/ FetchPage \/ UpsertFetched \/ CleanStale \/ EndSync
  <2>1. UNCHANGED <<shop, net, work>>
    BY <1>7 DEF Expire, BeginSync, FetchPage, UpsertFetched, CleanStale, EndSync, shopVars
  <2> QED
    BY <1>n, <2>1
<1>8. CASE Crash
  BY <1>8, <1>n, Starts DEF Crash, shopVars
<1>9. CASE UNCHANGED vars
  BY <1>9, <1>n DEF vars, shopVars
<1> QED
  BY <1>1, <1>2, <1>3, <1>4, <1>5, <1>6, <1>7, <1>8, <1>9 DEF Next

-----------------------------------------------------------------------------
\* What LiveRowsKept says of one step.
RowKept(c) ==
  cache[c] # Absent /\ cache'[c] = Absent =>
    \/ merchant' = 0
    \/ sync.pc = "upsert" /\ sync.active \notin {{}, {c}} /\ c \notin sync.active

LEMMA RowsKeptStep ==
  ASSUME Typed, DeadInv, [Next]_vars
  PROVE  \A c \in Live : RowKept(c)
<1>a. Absent \notin Rows
  BY CustomerCacheAssumption DEF CustomerCacheAssumption, Rows
<1>c. cache \in [Customers -> Rows \cup {Absent}]
  BY DEF Typed
<1>u. ASSUME UNCHANGED cache PROVE \A c \in Live : RowKept(c)
  BY <1>u DEF RowKept
<1>1. ASSUME NEW p \in Handlers, Apply(p) PROVE \A c \in Live : RowKept(c)
  <2> DEFINE m == work[p].merchant
             hook == work[p].hook
  <2>1. hook \in Hooks /\ Deleted(hook)
    BY <1>1, Starts DEF Apply, Typed, Tasks, DeadInv
  <2>2. SUFFICES ASSUME Effect(m, hook), NEW c \in Live, cache[c] # Absent,
                        merchant' # 0
                 PROVE  cache'[c] # Absent
    BY <1>1, <1>u DEF Apply, RowKept
  <2>3. cache[c] \in Rows /\ c \in Customers
    BY <1>c, <2>2 DEF Live
  <2>4. CASE hook.topic = "update"
    <3>1. Upsert(m, hook.customer, [details |-> hook.details, orders |-> hook.orders,
                                    history |-> Absent])
      BY <2>2, <2>4 DEF Effect
    <3>2. [details |-> hook.details, orders |-> hook.orders, history |-> Absent] \in Rows
      BY <2>1 DEF Rows, Hooks
    <3> QED
      BY <1>a, <1>c, <2>2, <2>3, <3>1, <3>2 DEF Upsert, Statement
  <2>5. CASE hook.topic = "order"
    <3>1. UpdateOrderStats(m, hook.customer, hook)
      BY <2>2, <2>5 DEF Effect
    <3>2. [cache[c] EXCEPT !.orders = hook.orders] \in Rows
      BY <2>1, <2>3 DEF Rows, Hooks
    <3> QED
      BY <1>a, <1>c, <2>2, <2>3, <3>1, <3>2 DEF UpdateOrderStats, Statement
  <2>6. CASE hook.topic \in {"delete", "redact"}
    <3>1. DeleteByShopifyID(m, hook.customer)
      BY <2>2, <2>6 DEF Effect
    <3>2. hook.customer # c
      BY <2>1, <2>2, <2>6 DEF Deleted, Live
    <3> QED
      BY <1>c, <2>2, <2>3, <3>1, <3>2 DEF DeleteByShopifyID, Statement
  <2>7. CASE hook.topic \notin {"update", "order", "delete", "redact"}
    <3>1. DeleteMerchant(m)
      BY <2>2, <2>7 DEF Effect
    <3> QED
      BY <2>2, <3>1 DEF DeleteMerchant
  <2> QED
    BY <2>4, <2>5, <2>6, <2>7
<1>2. CASE UpsertFetched
  <2>1. CASE UNCHANGED cache
    BY <1>u, <2>1
  <2>2. CASE \E item \in sync.todo : Upsert(sync.merchant, item.customer, item.row)
    <3>1. PICK item \in sync.todo : Upsert(sync.merchant, item.customer, item.row)
      BY <2>2
    <3>2. item.row \in Rows
      BY DEF Typed, Syncs, Items
    <3> QED
      BY <1>a, <1>c, <3>1, <3>2 DEF Upsert, Statement, Live, RowKept
  <2> QED
    BY <1>2, <2>1, <2>2 DEF UpsertFetched
<1>3. CASE CleanStale
  <2>1. CASE UNCHANGED cache
    BY <1>u, <2>1
  <2>2. CASE DeleteStaleEntries(sync.merchant, sync.active)
    BY <1>3, <1>c, <2>2 DEF CleanStale, DeleteStaleEntries, Statement, Live, RowKept
  <2> QED
    BY <1>3, <2>1, <2>2 DEF CleanStale
\* Nobody else writes rows.
<1>4. ASSUME NEW c \in Customers, CustomerEvent(c) PROVE UNCHANGED cache
  BY <1>4 DEF CustomerEvent, Change
<1>5. ASSUME NEW p \in Handlers, NEW hook \in net, Receive(p, hook) PROVE UNCHANGED cache
  BY <1>5 DEF Receive
<1>6. CASE GDPREvent \/ Install \/ RegisterAll \/ Uninstall
  BY <1>6, <1>u DEF GDPREvent, Install, RegisterAll, Uninstall
<1>7. CASE Expire \/ BeginSync \/ FetchPage \/ EndSync \/ Crash \/ UNCHANGED vars
  BY <1>7, <1>u DEF Expire, BeginSync, FetchPage, EndSync, Crash, vars
<1> QED
  BY <1>1, <1>2, <1>3, <1>4, <1>5, <1>6, <1>7, <1>u DEF Next

-----------------------------------------------------------------------------
LEMMA Invariants == Spec => [](Typed /\ KeepInv /\ DeadInv)
<1>1. Init => Typed /\ KeepInv /\ DeadInv
  <2> SUFFICES ASSUME Init PROVE Typed /\ KeepInv /\ DeadInv
    OBVIOUS
  <2>1. PICK early \in SUBSET Customers :
          shop = [c \in Customers |-> [live |-> c \in early, orders |-> 0,
                                       details |-> IF c \in early THEN 1 ELSE 0]]
    BY DEF Init
  <2>2. shop \in [Customers -> Profiles]
    <3>1. ASSUME NEW c \in Customers
          PROVE  [live |-> c \in early, orders |-> 0,
                  details |-> IF c \in early THEN 1 ELSE 0] \in Profiles
      <4>1. (c \in early) \in BOOLEAN /\ (IF c \in early THEN 1 ELSE 0) \in Nat
        OBVIOUS
      <4> QED
        BY <4>1 DEF Profiles
    <3> QED
      BY <2>1, <3>1
  <2>3. installed \in BOOLEAN /\ quiet \in BOOLEAN
    BY Zenon DEF Init
  <2>4. Typed
    <3>1. /\ subs = {} /\ events = 0 /\ net = {} /\ keys = {} /\ merchant = 0 /\ last = 0
          /\ cache = NoRows /\ work = [p \in Handlers |-> Idle] /\ sync = NoSync
          /\ faults = 0 /\ astray = {}
      BY DEF Init
    <3>2. events \in 0..MaxEvents /\ last \in 0..MaxInstalls /\ faults \in 0..MaxFaults
      BY <3>1, Constants
    <3>3. /\ subs \subseteq SubscribedTopics /\ astray \subseteq Customers
          /\ net \subseteq Hooks /\ (\A h \in net : h.id < events)
          /\ keys \subseteq {id \in Nat : id < events} /\ merchant \in {0, last}
      BY <3>1
    <3>4. /\ cache \in [Customers -> Rows \cup {Absent}] /\ sync \in Syncs
          /\ work \in [Handlers -> {Idle} \cup Tasks]
      BY <3>1, Starts, NoRowsTyped
    <3> QED
      BY <2>2, <2>3, <3>2, <3>3, <3>4, Zenon DEF Typed
  <2>5. KeepInv
    BY Starts DEF Init, KeepInv, NothingKeptOfGoneShop, MerchantInv, NoSync
  <2>6. DeadInv
    <3>1. \A c \in Live : shop[c].details > 0
      <4>1. ASSUME NEW c \in Customers, shop[c].live PROVE c \in early
        BY <2>1, <4>1, Zenon
      <4>2. ASSUME NEW c \in early PROVE shop[c].details = 1
        BY <2>1
      <4> QED
        BY <4>1, <4>2 DEF Live
    <3>2. net = {} /\ \A p \in Handlers : work[p].stage = "idle"
      BY Starts DEF Init
    <3> QED
      BY <3>1, <3>2 DEF DeadInv
  <2> QED
    BY <2>4, <2>5, <2>6
<1>2. Typed /\ KeepInv /\ DeadInv /\ [Next]_vars => (Typed /\ KeepInv /\ DeadInv)'
  BY TypedStep, KeepStep, DeadStep
<1> QED
  BY <1>1, <1>2, PTL DEF Spec

\* Every reachable state is well typed: what a request or a sync will write are
\* rows, and a request acts for a merchant that was once inserted.
THEOREM TypeCorrect == Spec => []TypeOK
<1>1. Typed => TypeOK
  BY DEF Typed, TypeOK, Tasks, Syncs, Items
<1> QED
  BY <1>1, Invariants, PTL

\* No row is left of a merchant that was deleted (handleAppUninstalled,
\* handleShopRedact), whatever webhooks and syncs were under way.
THEOREM GoneShop == Spec => []NothingKeptOfGoneShop
<1>1. KeepInv => NothingKeptOfGoneShop
  BY DEF KeepInv
<1> QED
  BY <1>1, Invariants, PTL

\* The row of a customer who exists goes with the whole shop or is cleared as
\* stale by a sync that did not write it (DeleteStaleEntries), never by a
\* webhook, however late or repeated.
THEOREM LiveKept == Spec => LiveRowsKept
<1>1. Typed /\ DeadInv /\ [Next]_vars =>
        [\A c \in Live : cache[c] # Absent /\ cache'[c] = Absent =>
           \/ merchant' = 0
           \/ sync.pc = "upsert" /\ sync.active \notin {{}, {c}} /\ c \notin sync.active]_vars
  BY RowsKeptStep DEF RowKept
<1> QED
  BY <1>1, Invariants, PTL DEF Spec, LiveRowsKept

-----------------------------------------------------------------------------
\* What a sync knows while nothing disturbs it.
FetchInv ==
  sync.pc = "fetch" =>
    /\ sync.todo = {} /\ sync.active = {}
    /\ sync.list = {Fetched(c) : c \in {d \in Live : PageOf[d] < sync.page}}

UpsertInv ==
  sync.pc = "upsert" =>
    /\ sync.active \subseteq Live
    /\ sync.todo = {Fetched(c) : c \in Live \ sync.active}
    /\ \A c \in sync.active : cache[c] = Fetched(c).row

QuietInv ==
  quiet /\ sync.pc # "idle" =>
    sync.merchant = merchant /\ FetchInv /\ UpsertInv /\ SyncRepairs

\* The columns of a row, its existence among them, and the topics that write
\* each of them.
Columns == {"live", "details", "orders"}
Writes(hook, col) ==
  \/ hook.topic = "update"
  \/ hook.topic = "order" /\ col = "orders"
  \/ hook.topic = "delete" /\ col = "live"

\* The hook leaves the column of the row as it is at Shopify; the row has it so.
Tells(hook, c, col) ==
  /\ hook.customer = c /\ Writes(hook, col)
  /\ col = "live"    => ((hook.topic = "update") <=> c \in Live)
  /\ col = "details" => hook.details = shop[c].details
  /\ col = "orders"  => hook.orders = shop[c].orders
Shows(c, col) ==
  /\ col = "live"    => c \in Live
  /\ col = "details" => cache[c].details = shop[c].details
  /\ col = "orders"  => cache[c].orders = shop[c].orders

\* Ids are never used twice.
IdInv ==
  \A h, k \in net \cup InHand : h.id < events /\ (h.id = k.id => h = k)

\* A hook that tells what is no longer true is followed by one that tells what is.
HookInv ==
  \A c \in Customers \ astray, col \in Columns, h \in Pending :
    h.customer = c /\ Writes(h, col) =>
      \/ Tells(h, c, col)
      \/ \E k \in Pending : h.id < k.id /\ Tells(k, c, col)

\* And so is a row.
RowInv ==
  \A c \in Customers \ astray, col \in Columns :
    cache[c] # Absent => Shows(c, col) \/ \E k \in Pending : Tells(k, c, col)

CacheInv == QuietInv /\ IdInv /\ HookInv /\ RowInv

-----------------------------------------------------------------------------
\* The sync.

\* Of some customers, one is on the last of their pages.
LEMMA SomeoneIsLast ==
  ASSUME NEW U \in SUBSET Customers, U # {}
  PROVE  \E c \in U : \A d \in U : PageOf[d] <= PageOf[c]
<1> DEFINE HasLast(V) == \E c \in V : \A d \in V : PageOf[d] <= PageOf[c]
           Counter == {V \in FiniteSubsetsOf(Customers) : V # {} /\ ~HasLast(V)}
<1>0. PageOf \in [Customers -> Nat] /\ IsFiniteSet(Customers)
  BY CustomerCacheAssumption DEF CustomerCacheAssumption
<1>1. \A V \in SUBSET Customers : V \in FiniteSubsetsOf(Customers)
  BY <1>0, FS_Subset DEF FiniteSubsetsOf
<1>2. ASSUME Counter # {} PROVE FALSE
  <2>1. PICK V \in Counter : \A W \in Counter : <<W, V>> \notin StrictSubsetOrdering(Customers)
    <3>1. IsWellFoundedOn(StrictSubsetOrdering(Customers), FiniteSubsetsOf(Customers))
      BY FS_StrictSubsetOrderingWellFounded
    <3>2. Counter \subseteq FiniteSubsetsOf(Customers)
      OBVIOUS
    <3> HIDE DEF Counter
    <3> QED
      BY <1>2, <3>1, <3>2, WFMin
  <2>2. V \in SUBSET Customers /\ V # {} /\ ~HasLast(V)
    BY <2>1 DEF FiniteSubsetsOf
  <2>3. PICK c \in V : TRUE
    BY <2>2
  <2>4. V \ {c} # {}
    <3>1. ASSUME V \ {c} = {} PROVE HasLast(V)
      <4>1. \A d \in V : d = c
        BY <3>1
      <4> QED
        BY <1>0, <2>2, <2>3, <4>1
    <3> QED
      BY <2>2, <3>1
  <2>5. HasLast(V \ {c})
    <3>1. <<V \ {c}, V>> \in StrictSubsetOrdering(Customers)
      BY <2>2, <2>3 DEF StrictSubsetOrdering
    <3>2. V \ {c} \notin Counter
      BY <2>1, <3>1
    <3> QED
      BY <1>1, <2>2, <2>4, <3>2
  <2>6. PICK e \in V \ {c} : \A d \in V \ {c} : PageOf[d] <= PageOf[e]
    BY <2>5
  <2>7. \A d \in V : PageOf[d] \in Nat
    BY <1>0, <2>2
  <2>8. CASE PageOf[e] <= PageOf[c]
    <3>1. \A d \in V : PageOf[d] <= PageOf[c]
      BY <2>3, <2>6, <2>7, <2>8
    <3> QED
      BY <2>2, <2>3, <3>1
  <2>9. CASE ~(PageOf[e] <= PageOf[c])
    <3>1. \A d \in V : PageOf[d] <= PageOf[e]
      BY <2>3, <2>6, <2>7, <2>9
    <3> QED
      BY <2>2, <2>6, <3>1
  <2> QED
    BY <2>8, <2>9
<1> QED
  BY <1>1, <1>2

\* Nobody is on a page after the last.
LEMMA LastPageIsLast == \A c \in Live : PageOf[c] <= LastPage
<1> SUFFICES ASSUME Live # {} PROVE \A c \in Live : PageOf[c] <= LastPage
  OBVIOUS
<1>1. \E p \in {PageOf[c] : c \in Live} : \A c \in Live : PageOf[c] <= p
  BY SomeoneIsLast DEF Live
<1> QED
  BY <1>1 DEF LastPage

\* What one has fetched of a customer tells who it is.
LEMMA FetchedOnce ==
  ASSUME NEW c, NEW d, Fetched(c) = Fetched(d)
  PROVE  c = d
BY DEF Fetched

\* The fields of the sync as its steps leave them.
LEMMA SyncFields ==
  ASSUME sync \in Syncs, NEW list, NEW todo, NEW active, NEW m
  PROVE  /\ LET s == [sync EXCEPT !.list = list, !.page = @ + 1]
            IN  /\ s.pc = sync.pc /\ s.merchant = sync.merchant /\ s.page = sync.page + 1
                /\ s.list = list /\ s.todo = sync.todo /\ s.active = sync.active
         /\ LET s == [sync EXCEPT !.pc = "upsert", !.list = {}, !.page = 1, !.todo = list]
            IN  /\ s.pc = "upsert" /\ s.merchant = sync.merchant
                /\ s.todo = list /\ s.active = sync.active
         /\ LET s == [sync EXCEPT !.todo = todo, !.active = active]
            IN  /\ s.pc = sync.pc /\ s.merchant = sync.merchant
                /\ s.todo = todo /\ s.active = active
         /\ LET s == [sync EXCEPT !.pc = "dispatch", !.active = {}]
            IN  s.pc = "dispatch" /\ s.merchant = sync.merchant
         /\ LET s == [NoSync EXCEPT !.pc = "fetch", !.merchant = m]
            IN  /\ s.pc = "fetch" /\ s.merchant = m /\ s.page = 1
                /\ s.list = {} /\ s.todo = {} /\ s.active = {}
         /\ NoSync.pc = "idle"
BY DEF Syncs, NoSync

LEMMA QuietStep ==
  ASSUME Typed, Typed', KeepInv, QuietInv, [Next]_vars
  PROVE  QuietInv'
<1>0. sync \in Syncs /\ quiet \in BOOLEAN
  BY DEF Typed
\* Steps of which the sync sees nothing.
<1>u. ASSUME UNCHANGED <<shop, cache, sync, quiet>>, merchant = 0 \/ merchant' = merchant
      PROVE  QuietInv'
  <2>1. UNCHANGED <<Live, Mirror>> /\ \A c : Fetched(c)' = Fetched(c)
    BY <1>u DEF Live, Mirror, Fetched
  <2>2. quiet' /\ sync'.pc # "idle" => sync.merchant # 0 /\ sync.merchant = merchant
    BY <1>u, Constants DEF KeepInv, MerchantInv, Typed, QuietInv
  <2> QED
    BY <1>u, <2>1, <2>2 DEF QuietInv, FetchInv, UpsertInv, SyncRepairs
\* Disturbances.
<1>d. ASSUME quiet' = FALSE PROVE QuietInv'
  BY <1>d DEF QuietInv
<1>1. ASSUME NEW c \in Customers, CustomerEvent(c) PROVE QuietInv'
  BY <1>1, <1>d DEF CustomerEvent, Change
<1>2. CASE GDPREvent \/ RegisterAll \/ Uninstall
  BY <1>2, <1>u DEF GDPREvent, RegisterAll, Uninstall, historyVars
<1>3. CASE Install
  BY <1>3, <1>u DEF Install, historyVars
<1>4. ASSUME NEW p \in Handlers, NEW hook \in net, Receive(p, hook) PROVE QuietInv'
  BY <1>4, <1>u DEF Receive, shopVars
<1>5. ASSUME NEW p \in Handlers, Apply(p) PROVE QuietInv'
  BY <1>5, <1>d DEF Apply
<1>6. CASE Expire
  BY <1>6, <1>u DEF Expire, shopVars
<1>7. CASE BeginSync
  <2>1. /\ sync'.pc = "fetch" /\ sync'.merchant = merchant' /\ sync'.page = 1
        /\ sync'.list = {} /\ sync'.todo = {} /\ sync'.active = {}
    BY <1>0, <1>7, SyncFields DEF BeginSync
  <2>2. ~\E c \in Live' : PageOf[c] < 1
    BY Constants DEF Live
  <2>3. FetchInv'
    BY <2>1, <2>2 DEF FetchInv
  <2> QED
    BY <2>1, <2>3 DEF QuietInv, UpsertInv, SyncRepairs
<1>8. CASE FetchPage
  <2> DEFINE page == {c \in Live : PageOf[c] = sync.page}
             list == sync.list \cup {Fetched(c) : c \in page}
  <2>1. SUFFICES ASSUME quiet, ~StopSync
                 PROVE  QuietInv'
    <3>1. quiet' = quiet \/ quiet' = FALSE
      BY <1>8 DEF FetchPage, StopSync
    <3>2. StopSync => quiet' = FALSE
      BY DEF StopSync
    <3> QED
      BY <1>0, <1>d, <2>1, <3>1, <3>2
  <2>2. /\ sync.pc = "fetch" /\ UNCHANGED <<shop, merchant, cache>>
        /\ sync' = IF sync.page < LastPage
                   THEN [sync EXCEPT !.list = list, !.page = @ + 1]
                   ELSE [sync EXCEPT !.pc = "upsert", !.list = {}, !.page = 1, !.todo = list]
    BY <1>8, <2>1 DEF FetchPage, shopVars
  <2>3. /\ sync.merchant = merchant /\ sync.active = {} /\ sync.todo = {}
        /\ list = {Fetched(c) : c \in {d \in Live : PageOf[d] < sync.page + 1}}
    <3>1. /\ sync.merchant = merchant /\ sync.active = {} /\ sync.todo = {}
          /\ sync.list = {Fetched(c) : c \in {d \in Live : PageOf[d] < sync.page}}
      BY <2>1, <2>2 DEF QuietInv, FetchInv
    <3>2. \A c \in Live : PageOf[c] < sync.page + 1 <=> PageOf[c] < sync.page \/ PageOf[c] = sync.page
      BY <1>0, Constants DEF Live, Syncs
    <3> QED
      BY <3>1, <3>2
  <2>4. UNCHANGED Live /\ \A c : Fetched(c)' = Fetched(c)
    BY <2>2 DEF Live, Fetched
  <2> HIDE DEF list
  <2>5. CASE sync.page < LastPage
    <3>1. /\ sync'.pc = "fetch" /\ sync'.merchant = merchant' /\ sync'.page = sync.page + 1
          /\ sync'.list = list /\ sync'.todo = {} /\ sync'.active = {}
      BY <1>0, <2>2, <2>3, <2>5, SyncFields
    <3>2. FetchInv'
      BY <2>3, <2>4, <3>1 DEF FetchInv
    <3> QED
      BY <3>1, <3>2 DEF QuietInv, UpsertInv, SyncRepairs
  <2>6. CASE ~(sync.page < LastPage)
    <3>1. /\ sync'.pc = "upsert" /\ sync'.merchant = merchant'
          /\ sync'.todo = list /\ sync'.active = {}
      BY <1>0, <2>2, <2>3, <2>6, SyncFields
    <3>2. {d \in Live : PageOf[d] < sync.page + 1} = Live
      <4>1. LastPage \in Nat
        <5>1. CASE Live = {}
          BY <5>1 DEF LastPage
        <5>2. CASE Live # {}
          BY <5>2, SomeoneIsLast, Constants DEF LastPage, Live
        <5> QED
          BY <5>1, <5>2
      <4>2. \A d \in Live : PageOf[d] \in Nat /\ PageOf[d] <= LastPage
        BY LastPageIsLast, Constants DEF Live
      <4>3. sync.page \in Nat
        BY <1>0 DEF Syncs
      <4> QED
        BY <2>6, <4>1, <4>2, <4>3
    <3>3. UpsertInv'
      BY <2>3, <2>4, <3>1, <3>2 DEF UpsertInv
    <3> QED
      BY <3>1, <3>3 DEF QuietInv, FetchInv, SyncRepairs
  <2> QED
    BY <2>5, <2>6
<1>9. CASE UpsertFetched
  <2>1. SUFFICES ASSUME quiet, quiet' # FALSE
                 PROVE  QuietInv'
    BY <1>0, <1>9, <1>d DEF UpsertFetched
  <2>2. PICK item \in sync.todo :
          /\ sync.pc = "upsert" /\ UNCHANGED <<shop, merchant>>
          /\ Upsert(sync.merchant, item.customer, item.row)
          /\ sync' = [sync EXCEPT !.todo = @ \ {item},
                        !.active = IF sync.merchant = merchant
                                   THEN @ \cup {item.customer} ELSE @]
    BY <1>9, <2>1 DEF UpsertFetched, shopVars
  <2>3. sync.merchant = merchant /\ UpsertInv
    BY <2>1, <2>2 DEF QuietInv
  <2>4. PICK c \in Live \ sync.active : item = Fetched(c)
    BY <2>2, <2>3 DEF UpsertInv
  <2>5. item.customer = c /\ item.row = Fetched(c).row
    BY <2>4 DEF Fetched
  <2>6. /\ sync'.pc = "upsert" /\ sync'.merchant = merchant'
        /\ sync'.todo = sync.todo \ {item} /\ sync'.active = sync.active \cup {c}
    BY <1>0, <2>2, <2>3, <2>5, SyncFields
  <2>7. cache' = [cache EXCEPT ![c] = Fetched(c).row] /\ DOMAIN cache = Customers
    BY <2>2, <2>3, <2>5 DEF Upsert, Statement, Typed
  <2>8. UNCHANGED Live /\ \A d : Fetched(d)' = Fetched(d)
    BY <2>2 DEF Live, Fetched
  <2>9. UpsertInv'
    <3>1. sync'.active \subseteq Live'
      BY <2>2, <2>3, <2>4, <2>6, <2>8 DEF UpsertInv
    <3>2. sync'.todo = {Fetched(d)' : d \in (Live \ sync.active)'}
      <4>1. sync.todo = {Fetched(d) : d \in Live \ sync.active}
        BY <2>2, <2>3 DEF UpsertInv
      <4>2. sync'.todo = {Fetched(d) : d \in Live \ (sync.active \cup {c})}
        BY <2>4, <2>6, <4>1, FetchedOnce
      <4> QED
        BY <2>6, <2>8, <4>2
    <3>3. \A d \in sync'.active : cache'[d] = Fetched(d)'.row
      BY <2>2, <2>3, <2>6, <2>7, <2>8 DEF UpsertInv, Live
    <3> QED
      BY <3>1, <3>2, <3>3 DEF UpsertInv
  <2> QED
    BY <2>6, <2>9 DEF QuietInv, FetchInv, SyncRepairs
<1>10. CASE CleanStale
  <2>1. SUFFICES ASSUME quiet, quiet' # FALSE
                 PROVE  QuietInv'
    BY <1>0, <1>10, <1>d DEF CleanStale
  <2>2. /\ sync.pc = "upsert" /\ sync.todo = {} /\ UNCHANGED <<shop, merchant>>
        /\ DeleteStaleEntries(sync.merchant, sync.active)
        /\ sync' = [sync EXCEPT !.pc = "dispatch", !.active = {}]
    BY <1>10, <2>1 DEF CleanStale, shopVars
  <2>3. sync.merchant = merchant /\ UpsertInv
    BY <2>1, <2>2 DEF QuietInv
  <2>4. sync.active = Live
    <3>1. {Fetched(d) : d \in Live \ sync.active} = {} /\ sync.active \subseteq Live
      BY <2>2, <2>3 DEF UpsertInv
    <3>2. Live \ sync.active = {}
      BY <3>1
    <3> QED
      BY <3>1, <3>2
  <2>5. sync'.pc = "dispatch" /\ sync'.merchant = merchant'
    BY <1>0, <2>2, <2>3, SyncFields
  <2>6. UNCHANGED <<Live, Mirror>>
    BY <2>2 DEF Live, Mirror, Fetched
  <2>7. Live # {} => cache' = Mirror
    BY <2>2, <2>3, <2>4 DEF DeleteStaleEntries, Statement, UpsertInv, Mirror
  <2> QED
    BY <2>5, <2>6, <2>7 DEF QuietInv, FetchInv, UpsertInv, SyncRepairs
<1>11. CASE EndSync \/ Crash
  BY <1>11, <1>d DEF EndSync, Crash, StopSync
<1>12. CASE UNCHANGED vars
  BY <1>12, <1>u DEF vars, shopVars, historyVars
<1> QED
  BY <1>1, <1>2, <1>3, <1>4, <1>5, <1>6, <1>7, <1>8, <1>9, <1>10, <1>11, <1>12 DEF Next

-----------------------------------------------------------------------------
\* The webhooks.

LEMMA AboutSomeone ==
  ASSUME NEW hook, NEW c \in Customers, hook.customer = c
  PROVE  c \in About(hook)
BY DEF About

LEMMA PendingWhere == Pending \subseteq net \cup InHand
BY DEF Pending

\* What a request may have in hand.
LEMMA HandsFull ==
  ASSUME Typed, NEW p \in Handlers, work[p].stage = "apply"
  PROVE  work[p].hook \in InHand /\ work[p].hook \in Pending /\ work[p].hook \in Hooks
<1>1. work[p].hook \in InHand
  BY DEF InHand
<1>2. work[p] \in Tasks
  BY Starts DEF Typed
<1> QED
  BY <1>1, <1>2 DEF Pending, Tasks

\* A new webhook has a new id.
LEMMA EmitIds ==
  ASSUME Typed, Typed', IdInv, UNCHANGED work,
         NEW topic, NEW c, NEW profile, Emit(topic, c, profile)
  PROVE  IdInv'
<1>1. events \in Nat /\ events' = events + 1
  BY Constants DEF Emit, Typed
<1>2. net' \subseteq net \cup {Hook(topic, c, profile)} /\ Hook(topic, c, profile).id = events
  BY DEF Emit, Hook
<1>3. InHand' = InHand
  BY DEF InHand
<1>4. \A h \in net \cup InHand : h.id \in Nat /\ h.id < events
  <2>1. \A p \in Handlers : work[p].stage = "apply" => work[p].hook \in Hooks
    BY HandsFull
  <2>2. net \cup InHand \subseteq Hooks
    BY <2>1 DEF InHand, Typed
  <2> QED
    BY <2>2 DEF IdInv, Hooks
<1>5. ASSUME NEW h \in net' \cup InHand', NEW k \in net' \cup InHand'
      PROVE  h.id < events' /\ (h.id = k.id => h = k)
  BY <1>1, <1>2, <1>3, <1>4 DEF IdInv
<1> QED
  BY <1>5 DEF IdInv

LEMMA IdStep ==
  ASSUME Typed, Typed', IdInv, [Next]_vars
  PROVE  IdInv'
<1>s. ASSUME UNCHANGED events, net' \subseteq net, InHand' \subseteq net \cup InHand
      PROVE  IdInv'
  BY <1>s DEF IdInv
<1>h. ASSUME UNCHANGED work PROVE InHand' = InHand
  BY <1>h DEF InHand
<1>1. ASSUME NEW c \in Customers, CustomerEvent(c) PROVE IdInv'
  BY <1>1, EmitIds DEF CustomerEvent, Change
<1>2. CASE GDPREvent
  BY <1>2, EmitIds DEF GDPREvent
<1>3. CASE Uninstall
  BY <1>3, EmitIds DEF Uninstall
<1>4. CASE Install \/ RegisterAll
  BY <1>4, <1>s, <1>h DEF Install, RegisterAll
<1>5. ASSUME NEW p \in Handlers, NEW hook \in net, Receive(p, hook) PROVE IdInv'
  <2>1. UNCHANGED events /\ net' \subseteq net
    BY <1>5 DEF Receive, Acknowledge, shopVars
  <2>2. \A q \in Handlers : work'[q] = work[q] \/ work'[q].hook = hook
    BY <1>5 DEF Receive, Typed
  <2>3. InHand' \subseteq net \cup InHand
    BY <2>2 DEF InHand
  <2> QED
    BY <1>s, <2>1, <2>3
<1>6. ASSUME NEW p \in Handlers, Apply(p) PROVE IdInv'
  <2>1. UNCHANGED events /\ net' \subseteq net /\ work' = [work EXCEPT ![p] = Idle]
    BY <1>6 DEF Apply, Respond, Acknowledge, shopVars
  <2>2. \A q \in Handlers : work'[q] = work[q] \/ work'[q].stage # "apply"
    BY <2>1, Starts DEF Typed
  <2>3. InHand' \subseteq InHand
    BY <2>2 DEF InHand
  <2> QED
    BY <1>s, <2>1, <2>3
<1>7. CASE Expire \/ BeginSync \/ FetchPage \/ UpsertFetched \/ CleanStale \/ EndSync
  <2>1. UNCHANGED <<events, net, work>>
    BY <1>7 DEF Expire, BeginSync, FetchPage, UpsertFetched, CleanStale, EndSync, shopVars
  <2> QED
    BY <1>s, <1>h, <2>1
<1>8. CASE Crash
  <2>1. InHand' = {} /\ UNCHANGED <<events, net>>
    BY <1>8, Starts DEF Crash, InHand, shopVars
  <2> QED
    BY <1>s, <2>1
<1>9. CASE UNCHANGED vars
  BY <1>9, <1>s, <1>h DEF vars, shopVars
<1> QED
  BY <1>1, <1>2, <1>3, <1>4, <1>5, <1>6, <1>7, <1>8, <1>9 DEF Next

\* Hooks are seen in order: what is pending tells the same.
LEMMA HooksStay ==
  ASSUME HookInv, UNCHANGED shop,
         \A c \in Customers \ astray' :
           /\ c \notin astray
           /\ \A h \in Pending' : h.customer = c /\ h \notin Pending => \A col : ~Writes(h, col)
           /\ \A k \in Pending, h \in Pending :
                k.customer = c /\ h.customer = c /\ h.id < k.id => k \in Pending'
  PROVE  HookInv'
<1>1. \A h, c, col : Tells(h, c, col)' <=> Tells(h, c, col)
  BY DEF Tells, Live
<1>2. ASSUME NEW c \in Customers \ astray', NEW col \in Columns, NEW h \in Pending',
             h.customer = c, Writes(h, col), ~Tells(h, c, col)
      PROVE  \E k \in Pending' : h.id < k.id /\ Tells(k, c, col)
  <2>1. h \in Pending
    BY <1>2
  <2>2. PICK k \in Pending : h.id < k.id /\ Tells(k, c, col)
    BY <1>2, <2>1 DEF HookInv
  <2>3. k \in Pending'
    BY <1>2, <2>1, <2>2 DEF Tells
  <2> QED
    BY <2>2, <2>3
<1>3. ASSUME NEW c \in (Customers \ astray)', NEW col \in Columns, NEW h \in Pending',
             h.customer = c, Writes(h, col)
      PROVE  Tells(h, c, col)' \/ \E k \in Pending' : h.id < k.id /\ Tells(k, c, col)'
  BY <1>1, <1>2, <1>3
<1> QED
  BY <1>3 DEF HookInv, Writes

\* A row that stays, and what is pending about it.
LEMMA RowsStay ==
  ASSUME RowInv, UNCHANGED shop,
         \A c \in Customers \ astray' :
           \/ cache'[c] = Absent
           \/ /\ c \notin astray /\ cache'[c] = cache[c]
              /\ \A k \in Pending : k.customer = c => k \in Pending'
  PROVE  RowInv'
<1>1. \A h, c, col : Tells(h, c, col)' <=> Tells(h, c, col)
  BY DEF Tells, Live
<1>2. ASSUME NEW c \in Customers \ astray', NEW col \in Columns, cache'[c] # Absent
      PROVE  Shows(c, col)' \/ \E k \in Pending' : Tells(k, c, col)'
  <2>1. /\ c \notin astray /\ cache'[c] = cache[c]
        /\ \A k \in Pending : k.customer = c => k \in Pending'
    BY <1>2
  <2>2. CASE Shows(c, col)
    BY <2>1, <2>2 DEF Shows, Live
  <2>3. CASE ~Shows(c, col)
    <3>1. PICK k \in Pending : Tells(k, c, col)
      BY <1>2, <2>1, <2>3 DEF RowInv
    <3> QED
      BY <1>1, <2>1, <3>1 DEF Tells
  <2> QED
    BY <2>2, <2>3
<1> QED
  BY <1>2 DEF RowInv

\* What an event at Shopify sends tells what it changed.
LEMMA ChangeTold ==
  ASSUME Typed, NEW c \in Customers, CustomerEvent(c)
  PROVE  \E topic \in {"update", "order", "delete"}, profile \in Profiles : \E hook :
           /\ Change(c, topic, profile) /\ hook = Hook(topic, c, profile)
           /\ \A col \in Columns :
                \/ Tells(hook, c, col)'
                \/ /\ ~Writes(hook, col)
                   /\ Shows(c, col) => Shows(c, col)'
                   /\ \A h : Tells(h, c, col) => Tells(h, c, col)'
<1>0. shop \in [Customers -> Profiles] /\ shop[c] \in Profiles
  BY DEF Typed
<1>1. CASE Change(c, "update", [shop[c] EXCEPT !.live = TRUE, !.details = @ + 1])
  <2>0. PICK profile, hook :
          profile = [shop[c] EXCEPT !.live = TRUE, !.details = @ + 1] /\ hook = Hook("update", c, profile)
    OBVIOUS
  <2>1. profile \in Profiles /\ profile.live
    BY <1>0, <2>0, Profiled DEF Profiles
  <2>2. shop'[c] = profile
    BY <1>0, <1>1, <2>0 DEF Change
  <2>3. \A col \in Columns : Tells(hook, c, col)'
    BY <2>0, <2>1, <2>2 DEF Tells, Writes, Hook, Live
  <2> QED
    BY <1>1, <2>0, <2>1, <2>3
<1>2. CASE c \in Live /\ Change(c, "order", [shop[c] EXCEPT !.orders = @ + 1])
  <2>0. PICK profile, hook :
          profile = [shop[c] EXCEPT !.orders = @ + 1] /\ hook = Hook("order", c, profile)
    OBVIOUS
  <2>1. profile \in Profiles /\ profile.live = shop[c].live /\ profile.details = shop[c].details
    BY <1>0, <2>0, Profiled DEF Profiles
  <2>2. shop'[c] = profile /\ cache' = cache
    BY <1>0, <1>2, <2>0 DEF Change
  <2>3. Tells(hook, c, "orders")'
    BY <2>0, <2>2 DEF Tells, Writes, Hook
  <2>4. ASSUME NEW col \in {"live", "details"}
        PROVE  /\ ~Writes(hook, col)
               /\ Shows(c, col) => Shows(c, col)'
               /\ \A h : Tells(h, c, col) => Tells(h, c, col)'
    <3>1. c \in Live' <=> c \in Live
      BY <2>1, <2>2 DEF Live
    <3>2. ~Writes(hook, col)
      BY <2>0 DEF Writes, Hook
    <3>3. Shows(c, col) => Shows(c, col)'
      BY <2>1, <2>2, <3>1 DEF Shows
    <3>4. \A h : Tells(h, c, col) => Tells(h, c, col)'
      BY <2>1, <2>2, <3>1 DEF Tells, Writes
    <3> QED
      BY <3>2, <3>3, <3>4
  <2> QED
    BY <1>2, <2>0, <2>1, <2>3, <2>4 DEF Columns
<1>3. CASE Change(c, "delete", [shop[c] EXCEPT !.live = FALSE])
  <2>0. PICK profile, hook :
          profile = [shop[c] EXCEPT !.live = FALSE] /\ hook = Hook("delete", c, profile)
    OBVIOUS
  <2>1. /\ profile \in Profiles /\ ~profile.live
        /\ profile.details = shop[c].details /\ profile.orders = shop[c].orders
    BY <1>0, <2>0, Profiled DEF Profiles
  <2>2. shop'[c] = profile /\ cache' = cache
    BY <1>0, <1>3, <2>0 DEF Change
  <2>3. Tells(hook, c, "live")'
    BY <2>0, <2>1, <2>2 DEF Tells, Writes, Hook, Live
  <2>4. ASSUME NEW col \in {"details", "orders"}
        PROVE  /\ ~Writes(hook, col)
               /\ Shows(c, col) => Shows(c, col)'
               /\ \A h : Tells(h, c, col) => Tells(h, c, col)'
    <3>1. ~Writes(hook, col)
      BY <2>0 DEF Writes, Hook
    <3>2. Shows(c, col) => Shows(c, col)'
      BY <2>1, <2>2 DEF Shows
    <3>3. \A h : Tells(h, c, col) => Tells(h, c, col)'
      BY <2>1, <2>2 DEF Tells, Writes
    <3> QED
      BY <3>1, <3>2, <3>3
  <2> QED
    BY <1>3, <2>0, <2>1, <2>3, <2>4 DEF Columns
<1> QED
  BY <1>1, <1>2, <1>3 DEF CustomerEvent

LEMMA EventKeepsTold ==
  ASSUME Typed, IdInv, HookInv, RowInv, NEW c \in Customers, CustomerEvent(c)
  PROVE  HookInv' /\ RowInv'
<1>0. PICK topic \in {"update", "order", "delete"}, profile \in Profiles : \E hook :
        /\ Change(c, topic, profile) /\ hook = Hook(topic, c, profile)
        /\ \A col \in Columns :
             \/ Tells(hook, c, col)'
             \/ /\ ~Writes(hook, col)
                /\ Shows(c, col) => Shows(c, col)'
                /\ \A h : Tells(h, c, col) => Tells(h, c, col)'
  BY ChangeTold
<1>1. PICK hook :
        /\ Change(c, topic, profile) /\ hook = Hook(topic, c, profile)
        /\ \A col \in Columns :
             \/ Tells(hook, c, col)'
             \/ /\ ~Writes(hook, col)
                /\ Shows(c, col) => Shows(c, col)'
                /\ \A h : Tells(h, c, col) => Tells(h, c, col)'
  BY <1>0
<1>2. /\ hook.customer = c /\ hook.id = events /\ hook.topic = topic
      /\ \A d \in Customers \ {c} : shop'[d] = shop[d]
      /\ astray' = IF topic \in subs THEN astray ELSE astray \cup {c}
      /\ net' = IF topic \in subs \cup GDPRTopics THEN net \cup {hook} ELSE net
      /\ UNCHANGED <<keys, work, cache>>
  BY <1>1 DEF Change, Hook, Emit, Typed
<1>3. \A col \in Columns :
        \/ Tells(hook, c, col)'
        \/ /\ ~Writes(hook, col)
           /\ Shows(c, col) => Shows(c, col)'
           /\ \A h : Tells(h, c, col) => Tells(h, c, col)'
  BY <1>1
<1>4. InHand' = InHand /\ Pending \subseteq Pending' /\ Pending' \subseteq Pending \cup {hook}
  BY <1>2 DEF InHand, Pending
<1>5. topic \in subs => hook \in Pending'
  <2>1. hook.id \notin keys
    BY <1>2 DEF Typed
  <2> QED
    BY <1>2, <2>1 DEF Pending
<1>6. \A h \in Pending : h.id < hook.id
  BY <1>2, PendingWhere DEF IdInv
<1>7. \A d \in Customers \ {c} : \A h, col :
        (Tells(h, d, col)' <=> Tells(h, d, col)) /\ (Shows(d, col)' <=> Shows(d, col))
  BY <1>2 DEF Tells, Shows, Live
<1>8. ASSUME NEW d \in Customers \ astray', NEW col \in Columns, NEW h \in Pending',
             h.customer = d, Writes(h, col)
      PROVE  Tells(h, d, col)' \/ \E k \in Pending' : h.id < k.id /\ Tells(k, d, col)'
  <2>1. CASE d # c
    <3>1. h \in Pending /\ d \notin astray
      BY <1>2, <1>4, <1>8, <2>1
    <3>2. Tells(h, d, col) \/ \E k \in Pending : h.id < k.id /\ Tells(k, d, col)
      BY <1>8, <3>1 DEF HookInv
    <3> QED
      BY <1>4, <1>7, <2>1, <3>2
  <2>2. CASE d = c
    <3>1. hook \in Pending' /\ c \notin astray
      BY <1>2, <1>5, <2>2
    <3>2. CASE Tells(hook, c, col)'
      <4>1. h = hook \/ h.id < hook.id
        BY <1>4, <1>6
      <4> QED
        BY <2>2, <3>1, <3>2, <4>1
    <3>3. CASE ~Tells(hook, c, col)'
      <4>1. h \in Pending
        BY <1>3, <1>4, <1>8, <3>3
      <4>2. Tells(h, c, col) \/ \E k \in Pending : h.id < k.id /\ Tells(k, c, col)
        BY <1>8, <2>2, <3>1, <4>1 DEF HookInv
      <4> QED
        BY <1>3, <1>4, <2>2, <3>3, <4>2
    <3> QED
      BY <3>2, <3>3
  <2> QED
    BY <2>1, <2>2
<1>9. ASSUME NEW d \in Customers \ astray', NEW col \in Columns, cache'[d] # Absent
      PROVE  Shows(d, col)' \/ \E k \in Pending' : Tells(k, d, col)'
  <2>1. d \notin astray /\ (d = c => hook \in Pending')
    BY <1>2, <1>5
  <2>2. Shows(d, col) \/ \E k \in Pending : Tells(k, d, col)
    BY <1>2, <1>9, <2>1 DEF RowInv
  <2> QED
    BY <1>3, <1>4, <1>7, <2>1, <2>2
<1> QED
  BY <1>8, <1>9 DEF HookInv, RowInv, Writes

\* A webhook that nobody subscribed to writes no column of a row.
LEMMA OtherEventKeepsTold ==
  ASSUME HookInv, RowInv, UNCHANGED <<shop, keys, cache, work, astray>>,
         NEW topic \in {"redact", "shop_redact", "uninstalled"}, NEW c, NEW profile,
         Emit(topic, c, profile)
  PROVE  HookInv' /\ RowInv'
<1>1. PICK hook : hook = Hook(topic, c, profile)
  OBVIOUS
<1>2. net' = net \/ net' = net \cup {hook}
  BY <1>1 DEF Emit
<1>3. Pending \subseteq Pending' /\ Pending' \subseteq Pending \cup {hook}
  BY <1>2 DEF Pending, InHand
<1>4. \A col : ~Writes(hook, col)
  BY <1>1 DEF Writes, Hook
<1> QED
  BY <1>3, <1>4, HooksStay, RowsStay

\* A delivery that finds a merchant, or is a duplicate, leaves pending what was.
LEMMA ReceivePending ==
  ASSUME Typed, IdInv, NEW p \in Handlers, NEW hook \in net, Receive(p, hook)
  PROVE  /\ Pending' \subseteq Pending /\ Pending \subseteq Pending' \cup {hook}
         /\ \/ Pending' = Pending /\ UNCHANGED astray
            \/ /\ merchant = 0
               /\ astray' = IF OutOfOrder(hook) THEN astray \cup About(hook) ELSE astray
<1>1. CASE Already(hook)
  <2>1. net' = net \ {hook} /\ UNCHANGED <<keys, work, astray>>
    BY <1>1 DEF Receive, Acknowledge
  <2>2. InHand' = InHand
    BY <2>1 DEF InHand
  <2> QED
    BY <1>1, <2>1, <2>2 DEF Pending, Already
<1>2. CASE ~Already(hook) /\ merchant = 0
  <2>1. /\ net' = net \ {hook} /\ UNCHANGED work
        /\ keys' = keys \/ keys' = keys \cup {hook.id}
        /\ astray' = IF OutOfOrder(hook) THEN astray \cup About(hook) ELSE astray
    BY <1>2 DEF Receive, Acknowledge
  <2>2. InHand' = InHand
    BY <2>1 DEF InHand
  <2>3. \A h \in net : h.id = hook.id => h = hook
    BY DEF IdInv
  <2> QED
    BY <1>2, <2>1, <2>2, <2>3 DEF Pending
<1>3. CASE ~Already(hook) /\ merchant # 0
  <2>1. /\ work' = [work EXCEPT ![p] =
                      [stage |-> "apply", hook |-> hook, merchant |-> merchant]]
        /\ keys' = keys \/ keys' = keys \cup {hook.id}
        /\ work[p] = Idle
        /\ UNCHANGED <<net, astray>>
    BY <1>3 DEF Receive
  <2>2. InHand' = InHand \cup {hook}
    <3>1. work'[p].stage = "apply" /\ work'[p].hook = hook
      BY <2>1 DEF Typed
    <3>2. \A q \in Handlers \ {p} : work'[q] = work[q]
      BY <2>1 DEF Typed
    <3>3. work[p].stage # "apply"
      BY <2>1, Starts
    <3> QED
      BY <3>1, <3>2, <3>3 DEF InHand
  <2>3. \A h \in net : h.id = hook.id => h = hook
    BY DEF IdInv
  <2> QED
    BY <1>3, <2>1, <2>2, <2>3 DEF Pending, Already
<1> QED
  BY <1>1, <1>2, <1>3

LEMMA ReceiveKeepsTold ==
  ASSUME Typed, KeepInv, IdInv, HookInv, RowInv,
         NEW p \in Handlers, NEW hook \in net, Receive(p, hook)
  PROVE  HookInv' /\ RowInv'
<1>1. UNCHANGED <<shop, cache>>
  BY DEF Receive, shopVars
<1>2. /\ Pending' \subseteq Pending /\ Pending \subseteq Pending' \cup {hook}
      /\ \/ Pending' = Pending /\ UNCHANGED astray
         \/ /\ merchant = 0
            /\ astray' = IF OutOfOrder(hook) THEN astray \cup About(hook) ELSE astray
  BY ReceivePending
<1>3. \A c \in Customers \ astray' : c \notin astray
  BY <1>2
<1>4. ASSUME NEW c \in Customers \ astray', NEW k \in Pending, NEW h \in Pending,
             k.customer = c, h.customer = c, h.id < k.id
      PROVE  k \in Pending'
  <2>1. SUFFICES ASSUME k = hook, Pending' # Pending
                 PROVE  FALSE
    BY <1>2
  <2>2. c \in About(h) /\ c \in About(k)
    BY <1>4, AboutSomeone
  <2>3. OutOfOrder(hook)
    BY <1>4, <2>1, <2>2 DEF OutOfOrder
  <2> QED
    BY <1>2, <1>4, <2>1, <2>2, <2>3
<1>5. HookInv'
  BY <1>1, <1>2, <1>3, <1>4, HooksStay
<1>6. CASE Pending' = Pending
  BY <1>1, <1>3, <1>5, <1>6, RowsStay
<1>7. CASE merchant = 0
  <2>1. \A c \in Customers : cache'[c] = Absent
    BY <1>1, <1>7 DEF KeepInv, NothingKeptOfGoneShop, NoRows
  <2> QED
    BY <1>1, <1>5, <2>1, RowsStay
<1> QED
  BY <1>2, <1>6, <1>7

\* What a webhook does to one row.
LEMMA EffectOnRow ==
  ASSUME Typed, NEW m, NEW hook \in Hooks, Effect(m, hook), NEW c \in Customers
  PROVE  \/ cache'[c] = Absent
         \/ cache'[c] = cache[c] /\ (hook.customer # c \/ m # merchant)
         \/ /\ hook.customer = c /\ hook.topic = "update"
            /\ cache'[c].details = hook.details /\ cache'[c].orders = hook.orders
         \/ /\ hook.customer = c /\ hook.topic = "order" /\ cache[c] # Absent
            /\ cache'[c].details = cache[c].details /\ cache'[c].orders = hook.orders
<1>0. cache \in [Customers -> Rows \cup {Absent}]
  BY DEF Typed
<1>1. CASE hook.topic = "update"
  <2>1. Upsert(m, hook.customer, [details |-> hook.details, orders |-> hook.orders,
                                  history |-> Absent])
    BY <1>1 DEF Effect
  <2> QED
    BY <1>0, <1>1, <2>1 DEF Upsert, Statement
<1>2. CASE hook.topic = "order"
  <2>1. UpdateOrderStats(m, hook.customer, hook)
    BY <1>2 DEF Effect
  <2>2. CASE m # merchant \/ cache[hook.customer] = Absent
    BY <2>1, <2>2 DEF UpdateOrderStats, Statement
  <2>3. CASE m = merchant /\ cache[hook.customer] # Absent
    <3>1. cache' = [cache EXCEPT ![hook.customer].orders = hook.orders]
      BY <2>1, <2>3 DEF UpdateOrderStats, Statement
    <3>2. CASE hook.customer # c
      BY <1>0, <3>1, <3>2
    <3>3. CASE hook.customer = c
      <4>1. cache[c] \in Rows /\ cache'[c] = [cache[c] EXCEPT !.orders = hook.orders]
        BY <1>0, <2>3, <3>1, <3>3
      <4> QED
        BY <1>2, <2>3, <3>3, <4>1 DEF Rows
    <3> QED
      BY <3>2, <3>3
  <2> QED
    BY <2>2, <2>3
<1>3. CASE hook.topic \in {"delete", "redact"}
  <2>1. DeleteByShopifyID(m, hook.customer)
    BY <1>3 DEF Effect
  <2> QED
    BY <1>0, <2>1 DEF DeleteByShopifyID, Statement
<1>4. CASE hook.topic \notin {"update", "order", "delete", "redact"}
  <2>1. DeleteMerchant(m)
    BY <1>4 DEF Effect
  <2> QED
    BY <1>0, <2>1 DEF DeleteMerchant, NoRows
<1> QED
  BY <1>1, <1>2, <1>3, <1>4

LEMMA ApplyKeepsTold ==
  ASSUME Typed, IdInv, HookInv, RowInv, NEW p \in Handlers, Apply(p)
  PROVE  HookInv' /\ RowInv'
<1>1. PICK hook, m : hook = work[p].hook /\ m = work[p].merchant
  OBVIOUS
<1>2. /\ work[p].stage = "apply" /\ work' = [work EXCEPT ![p] = Idle]
      /\ net' \subseteq net /\ net \subseteq net' \cup {hook}
      /\ UNCHANGED <<shop, keys>>
  BY <1>1 DEF Apply, Respond, Acknowledge, shopVars
<1>3. hook \in Hooks /\ hook \in Pending
  BY <1>1, <1>2, HandsFull
<1>4. InHand' \subseteq InHand /\ InHand \subseteq InHand' \cup {hook}
  <2>1. work'[p].stage # "apply" /\ \A q \in Handlers \ {p} : work'[q] = work[q]
    BY <1>2, Starts DEF Typed
  <2> QED
    BY <1>1, <2>1 DEF InHand
<1>5. Pending' \subseteq Pending /\ Pending \subseteq Pending' \cup {hook}
  BY <1>2, <1>4 DEF Pending
<1>6. \/ /\ Effect(m, hook)
         /\ astray' = IF OutOfOrder(hook) \/ m # merchant
                      THEN astray \cup About(hook) ELSE astray
      \/ astray' = astray \cup About(hook) /\ UNCHANGED cache
  BY <1>1 DEF Apply
<1>7. /\ \A c \in Customers \ astray' : c \notin astray
      /\ \A c \in Customers \ astray' : hook.customer = c => ~OutOfOrder(hook) /\ m = merchant
  BY <1>6, AboutSomeone
<1>8. HookInv'
  <2>1. ASSUME NEW c \in Customers \ astray', NEW k \in Pending, NEW h \in Pending,
               k.customer = c, h.customer = c, h.id < k.id
        PROVE  k \in Pending'
    <3>1. SUFFICES ASSUME k = hook
                   PROVE  FALSE
      BY <1>5
    <3>2. c \in About(h) /\ c \in About(k)
      BY <2>1, AboutSomeone
    <3>3. OutOfOrder(hook)
      BY <2>1, <3>1, <3>2 DEF OutOfOrder
    <3> QED
      BY <1>7, <2>1, <3>1, <3>3
  <2> QED
    BY <1>2, <1>5, <1>7, <2>1, HooksStay
<1>9. ASSUME NEW c \in Customers \ astray', NEW col \in Columns, cache'[c] # Absent
      PROVE  Shows(c, col)' \/ \E k \in Pending' : Tells(k, c, col)'
  <2>0. /\ \A h : Tells(h, c, col)' <=> Tells(h, c, col)
        /\ c \in Live' <=> c \in Live
        /\ shop' = shop
    BY <1>2 DEF Tells, Live
  <2>1. CASE cache'[c] = cache[c] /\ hook.customer # c
    <3>1. Shows(c, col) \/ \E k \in Pending : Tells(k, c, col)
      BY <1>7, <1>9, <2>1 DEF RowInv
    <3>2. Shows(c, col) => Shows(c, col)'
      BY <2>0, <2>1 DEF Shows
    <3>3. \A k \in Pending : Tells(k, c, col) => k \in Pending'
      BY <1>5, <2>1 DEF Tells
    <3> QED
      BY <2>0, <3>1, <3>2, <3>3
  <2>2. ASSUME hook.customer = c, Writes(hook, col), hook.topic # "delete",
               cache'[c].orders = hook.orders,
               hook.topic = "update" => cache'[c].details = hook.details
        PROVE  Shows(c, col)' \/ \E k \in Pending' : Tells(k, c, col)'
    <3>1. c \notin astray
      BY <1>7
    <3>2. Tells(hook, c, col) \/ \E k \in Pending : hook.id < k.id /\ Tells(k, c, col)
      BY <1>3, <2>2, <3>1 DEF HookInv
    <3>3. CASE Tells(hook, c, col)
      BY <1>9, <2>0, <2>2, <3>3 DEF Tells, Shows, Writes, Columns
    <3>4. CASE \E k \in Pending : hook.id < k.id /\ Tells(k, c, col)
      <4>1. hook.id \in Nat
        BY <1>3 DEF Hooks
      <4> QED
        BY <1>5, <2>0, <3>4, <4>1
    <3> QED
      BY <3>2, <3>3, <3>4
  <2>3. CASE /\ hook.customer = c /\ hook.topic = "order" /\ cache[c] # Absent
             /\ cache'[c].details = cache[c].details /\ cache'[c].orders = hook.orders
    <3>1. CASE col = "orders"
      BY <2>2, <2>3, <3>1 DEF Writes
    <3>2. CASE col # "orders"
      <4>1. Shows(c, col) \/ \E k \in Pending : Tells(k, c, col)
        BY <1>7, <2>3 DEF RowInv
      <4>2. Shows(c, col) => Shows(c, col)'
        BY <2>0, <2>3, <3>2 DEF Shows
      <4>3. \A k \in Pending : Tells(k, c, col) => k \in Pending'
        BY <1>5, <2>3, <3>2 DEF Tells, Writes
      <4> QED
        BY <2>0, <4>1, <4>2, <4>3
    <3> QED
      BY <3>1, <3>2
  <2>4. CASE UNCHANGED cache /\ hook.customer # c
    BY <2>1, <2>4
  <2>5. CASE Effect(m, hook)
    BY <1>3, <1>7, <1>9, <2>1, <2>2, <2>3, <2>5, EffectOnRow DEF Writes
  <2>6. CASE astray' = astray \cup About(hook) /\ UNCHANGED cache
    BY <2>4, <2>6, AboutSomeone
  <2> QED
    BY <1>6, <2>5, <2>6
<1> QED
  BY <1>8, <1>9 DEF RowInv

LEMMA UpsertKeepsTold ==
  ASSUME Typed, HookInv, RowInv, UpsertFetched
  PROVE  HookInv' /\ RowInv'
<1>1. UNCHANGED <<shop, net, keys, merchant, work>>
  BY DEF UpsertFetched, shopVars
<1>2. Pending' = Pending /\ Live' = Live
  BY <1>1 DEF Pending, InHand, Live
<1>3. CASE UNCHANGED <<cache, astray>>
  BY <1>1, <1>2, <1>3, HooksStay, RowsStay
<1>4. ASSUME NEW item \in sync.todo, Upsert(sync.merchant, item.customer, item.row),
             astray' = IF sync.merchant = merchant /\ ~Current(item)
                       THEN astray \cup {item.customer}
                       ELSE IF /\ sync.merchant = merchant
                               /\ \A h \in Pending : item.customer \notin About(h)
                       THEN astray \ {item.customer} ELSE astray
      PROVE  HookInv' /\ RowInv'
  <2>1. CASE sync.merchant # merchant
    <3>1. UNCHANGED <<cache, astray>>
      BY <1>4, <2>1 DEF Upsert, Statement
    <3> QED
      BY <1>3, <3>1
  <2>2. CASE sync.merchant = merchant /\ ~Current(item)
    <3>1. cache' = [cache EXCEPT ![item.customer] = item.row]
          /\ astray' = astray \cup {item.customer}
      BY <1>4, <2>2 DEF Upsert, Statement
    <3>2. \A c \in Customers \ astray' : c \notin astray /\ cache'[c] = cache[c]
      BY <3>1 DEF Typed
    <3> QED
      BY <1>1, <1>2, <3>2, HooksStay, RowsStay
  <2>3. CASE sync.merchant = merchant /\ Current(item)
    <3>1. PICK c \in Live : item = Fetched(c)
      BY <2>3 DEF Current
    <3>2. c \in Customers /\ item.customer = c /\ item.row = Fetched(c).row
      BY <3>1 DEF Fetched, Live
    <3>3. /\ cache' = [cache EXCEPT ![c] = Fetched(c).row]
          /\ astray \subseteq astray' \cup {c}
          /\ c \notin astray' => c \notin astray \/ \A h \in Pending : h.customer # c
      BY <1>4, <2>3, <3>2, AboutSomeone DEF Upsert, Statement
    <3>4. /\ cache'[c].details = shop[c].details /\ cache'[c].orders = shop[c].orders
          /\ \A d \in Customers \ {c} : cache'[d] = cache[d]
      BY <3>2, <3>3 DEF Fetched, Typed
    <3>5. \A h, d, col : Tells(h, d, col)' <=> Tells(h, d, col)
      BY <1>1 DEF Tells, Live
    <3>6. \A col : Shows(c, col)'
      BY <1>1, <1>2, <3>1, <3>4 DEF Shows
    <3>7. \A d \in Customers \ {c} : \A col : Shows(d, col)' <=> Shows(d, col)
      BY <1>1, <1>2, <3>4 DEF Shows
    <3>8. HookInv'
      BY <1>2, <3>3, <3>5 DEF HookInv, Writes
    <3>9. RowInv'
      BY <1>2, <3>3, <3>4, <3>5, <3>6, <3>7 DEF RowInv
    <3> QED
      BY <3>8, <3>9
  <2> QED
    BY <2>1, <2>2, <2>3
<1> QED
  BY <1>3, <1>4 DEF UpsertFetched

\* A key that has expired makes a webhook pending again, a crash makes one lost.
LEMMA FaultsKeepTold ==
  ASSUME Typed, HookInv, RowInv, Expire \/ Crash
  PROVE  HookInv' /\ RowInv'
<1>1. UNCHANGED <<shop, cache>>
  BY DEF Expire, Crash, shopVars
<1>2. CASE Expire
  <2>1. PICK id \in Nat :
          /\ keys' = keys \ {id} /\ UNCHANGED <<net, work>>
          /\ astray' = astray \cup UNION {About(h) : h \in {k \in net : k.id = id}}
    BY <1>2 DEF Expire, Typed
  <2>2. InHand' = InHand
    BY <2>1 DEF InHand
  <2>3. /\ Pending \subseteq Pending'
        /\ \A h \in Pending' : h \in Pending \/ (h \in net /\ h.id = id)
    BY <2>1, <2>2 DEF Pending
  <2>4. ASSUME NEW c \in Customers \ astray', NEW h \in Pending', h.customer = c
        PROVE  h \in Pending
    BY <2>1, <2>3, <2>4, AboutSomeone
  <2> QED
    BY <1>1, <2>1, <2>3, <2>4, HooksStay, RowsStay
<1>3. CASE Crash
  <2>1. /\ UNCHANGED <<net, keys>> /\ InHand' = {}
        /\ astray' = astray \cup UNION {About(h) : h \in InHand}
    BY <1>3, Starts DEF Crash, InHand
  <2>2. Pending' \subseteq Pending /\ Pending \subseteq Pending' \cup InHand
    BY <2>1 DEF Pending
  <2>3. ASSUME NEW c \in Customers \ astray', NEW k \in Pending, k.customer = c
        PROVE  k \in Pending'
    BY <2>1, <2>2, <2>3, AboutSomeone
  <2> QED
    BY <1>1, <2>1, <2>2, <2>3, HooksStay, RowsStay
<1> QED
  BY <1>2, <1>3

LEMMA ToldStep ==
  ASSUME Typed, KeepInv, IdInv, HookInv, RowInv, [Next]_vars
  PROVE  HookInv' /\ RowInv'
<1>s. ASSUME UNCHANGED <<shop, net, keys, work, astray>>,
             \A c \in Customers : cache'[c] \in {cache[c], Absent}
      PROVE  HookInv' /\ RowInv'
  <2>1. Pending' = Pending
    BY <1>s DEF Pending, InHand
  <2> QED
    BY <1>s, <2>1, HooksStay, RowsStay
<1>1. ASSUME NEW c \in Customers, CustomerEvent(c) PROVE HookInv' /\ RowInv'
  BY <1>1, EventKeepsTold
<1>2. CASE GDPREvent
  <2>1. UNCHANGED <<shop, keys, cache, work, astray>>
    BY <1>2 DEF GDPREvent, historyVars
  <2>2. \E topic \in {"redact", "shop_redact"} : \E c, profile : Emit(topic, c, profile)
    BY <1>2 DEF GDPREvent
  <2> QED
    BY <2>1, <2>2, OtherEventKeepsTold
<1>3. CASE Uninstall
  <2>1. UNCHANGED <<shop, keys, cache, work, astray>>
    BY <1>3 DEF Uninstall, historyVars
  <2> QED
    BY <1>3, <2>1, OtherEventKeepsTold DEF Uninstall
<1>4. CASE Install \/ RegisterAll \/ BeginSync \/ FetchPage \/ EndSync \/ UNCHANGED vars
  <2>1. UNCHANGED <<shop, net, keys, work, astray, cache>>
    BY <1>4 DEF Install, RegisterAll, BeginSync, FetchPage, EndSync, vars, shopVars, historyVars
  <2> QED
    BY <1>s, <2>1
<1>5. ASSUME NEW p \in Handlers, NEW hook \in net, Receive(p, hook)
      PROVE  HookInv' /\ RowInv'
  BY <1>5, ReceiveKeepsTold
<1>6. ASSUME NEW p \in Handlers, Apply(p) PROVE HookInv' /\ RowInv'
  BY <1>6, ApplyKeepsTold
<1>7. CASE CleanStale
  <2>1. UNCHANGED <<shop, net, keys, work, astray>>
    BY <1>7 DEF CleanStale, shopVars
  <2>2. \A c \in Customers : cache'[c] \in {cache[c], Absent}
    BY <1>7 DEF CleanStale, DeleteStaleEntries, Statement
  <2> QED
    BY <1>s, <2>1, <2>2
<1>8. CASE UpsertFetched \/ Expire \/ Crash
  BY <1>8, UpsertKeepsTold, FaultsKeepTold
<1> QED
  BY <1>1, <1>2, <1>3, <1>4, <1>5, <1>6, <1>7, <1>8 DEF Next

-----------------------------------------------------------------------------
LEMMA CacheHolds == Spec => []CacheInv
<1>1. Init => CacheInv
  <2>1. Init => InHand = {} /\ Pending = {} /\ sync.pc = "idle"
    <3> SUFFICES ASSUME Init PROVE InHand = {} /\ Pending = {} /\ sync.pc = "idle"
      OBVIOUS
    <3>1. net = {} /\ sync.pc = "idle" /\ \A p \in Handlers : work[p].stage # "apply"
      BY Starts DEF Init, NoSync
    <3>2. InHand = {}
      BY <3>1 DEF InHand
    <3> QED
      BY <3>1, <3>2 DEF Pending
  <2>2. ASSUME Init, NEW c \in Customers PROVE cache[c] = Absent
    BY <2>2 DEF Init, NoRows
  <2> QED
    BY <2>1, <2>2 DEF Init, CacheInv, QuietInv, IdInv, HookInv, RowInv
<1>2. Typed /\ Typed' /\ KeepInv /\ CacheInv /\ [Next]_vars => CacheInv'
  BY QuietStep, IdStep, ToldStep DEF CacheInv
<1> QED
  BY <1>1, <1>2, Invariants, PTL DEF Spec

\* Whatever webhooks were lost, repeated or overtaken before: a sync that
\* nothing disturbs leaves the rows as the shop is, however many pages the
\* customers are on (SyncCustomers).
THEOREM RepairedBySync == Spec => []SyncRepairs
<1>1. Typed /\ CacheInv => SyncRepairs
  <2> SUFFICES ASSUME Typed, CacheInv, sync.pc = "dispatch", quiet, Live # {}
               PROVE  cache = Mirror
    BY DEF SyncRepairs
  <2> QED
    BY DEF CacheInv, QuietInv, SyncRepairs
<1> QED
  BY <1>1, CacheHolds, Invariants, PTL

\* A row that nothing sent astray, with nothing pending about its customer, is
\* as at Shopify (IsProcessed, handleCustomerUpsert, handleOrderEvent).
THEOREM RowsCurrent == Spec => []CurrentRows
<1>1. RowInv => CurrentRows
  <2> SUFFICES ASSUME RowInv, NEW c \in Customers, cache[c] # Absent, c \notin astray,
                      \A h \in Pending : c \notin About(h)
               PROVE  /\ c \in Live
                      /\ cache[c].details = shop[c].details /\ cache[c].orders = shop[c].orders
    BY DEF CurrentRows
  <2>1. \A k \in Pending, col \in Columns : ~Tells(k, c, col)
    BY AboutSomeone DEF Tells
  <2>2. \A col \in Columns : Shows(c, col)
    BY <2>1 DEF RowInv
  <2> QED
    BY <2>2 DEF Shows, Columns
<1> QED
  BY <1>1, CacheHolds, PTL DEF CacheInv

=============================================================================
