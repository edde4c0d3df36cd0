---------------------------- MODULE CustomerCache ----------------------------
(***************************************************************************)
(* The local copy of a Shopify shop's customers (table customer_cache): the *)
(* webhooks that patch it, the sync job that rebuilds it, the installation  *)
(* of the app that its rows hang on.  The detection that a webhook and a    *)
(* sync ask for in the end is in ScanTriggers.                              *)
(*                                                                         *)
(* A profile is reduced to two version numbers that only grow at Shopify:   *)
(* of the details (name, email, address, tags, ...) and of the orders       *)
(* (orders_count, total_spent).  A row also has the columns derived from    *)
(* the last orders (last_order_at, order_addresses, order_names), which     *)
(* the sync alone knows.  Deliveries of webhooks arrive in any order.       *)
(***************************************************************************)
EXTENDS Naturals, FiniteSets

CONSTANTS
  Customers,    \* ids at Shopify, never used twice
  PageOf,       \* the page of the customer list each of them is on
  Handlers,     \* concurrent webhook requests
  Absent,       \* no row, no history, nothing to do
  MaxEvents,    \* bound: what happens at Shopify
  MaxInstalls,  \* bound: installations
  MaxFaults     \* bound: failing calls, lost answers, expired keys, crashes

ASSUME CustomerCacheAssumption ==
  /\ IsFiniteSet(Customers) /\ PageOf \in [Customers -> Nat \ {0}]
  /\ MaxEvents \in Nat /\ MaxInstalls \in Nat /\ MaxFaults \in Nat
  /\ Absent \notin [details : Nat, orders : Nat, history : Nat \cup {Absent}]

VARIABLES
  \* At Shopify.
  shop,       \* the customers
  installed,  \* the shop has the app
  subs,       \* topics subscribed at the current URL
  events,     \* number of events, the id of the next webhook
  net,        \* webhooks not yet acknowledged
  \* In Redis and in the database.
  keys,       \* ids marked as processed
  merchant,   \* number of the installation whose merchants row exists, or 0
  last,       \* number of the last row inserted into merchants
  cache,      \* rows of that merchant
  \* In the processes.
  work,       \* what each webhook request is doing
  sync,       \* the sync job
  faults,     \* how much of the bound is used
  \* History, read by the properties only.
  astray,     \* customers whose row missed something, see CurrentRows
  quiet       \* nothing but the sync has touched shop and cache since it began

shopVars    == <<shop, installed, subs, events>>
historyVars == <<astray, quiet>>
vars == <<shopVars, net, keys, merchant, last, cache, work,
          sync, faults, historyVars>>

SubscribedTopics == {"update", "order", "delete", "uninstalled"}
GDPRTopics == {"redact", "shop_redact"}
AllCustomers == "all"

Profiles == [live : BOOLEAN, details : Nat, orders : Nat]
Rows  == [details : Nat, orders : Nat, history : Nat \cup {Absent}]
Hooks == [id : Nat, topic : SubscribedTopics \cup GDPRTopics,
          customer : Customers \cup {AllCustomers}, details : Nat, orders : Nat]

Live == {c \in Customers : shop[c].live}
LastPage == IF Live = {} THEN 1
            ELSE CHOOSE p \in {PageOf[c] : c \in Live} : \A c \in Live : PageOf[c] <= p

Fault   == faults < MaxFaults /\ faults' = faults + 1
NoFault == UNCHANGED faults

-----------------------------------------------------------------------------
\* Shopify.

Hook(topic, c, profile) ==
  [id |-> events, topic |-> topic, customer |-> c,
   details |-> profile.details, orders |-> profile.orders]

\* A webhook is sent for a subscribed topic only.  (What happens before the
\* first installation is in Init.)
Emit(topic, c, profile) ==
  /\ last > 0 /\ events < MaxEvents /\ events' = events + 1
  /\ net' = IF topic \in subs \cup GDPRTopics
            THEN net \cup {Hook(topic, c, profile)} ELSE net

Change(c, topic, profile) ==
  /\ shop' = [shop EXCEPT ![c] = profile]
  /\ Emit(topic, c, profile)
  /\ astray' = IF topic \in subs THEN astray ELSE astray \cup {c}
  /\ quiet' = FALSE
  /\ UNCHANGED <<installed, subs, keys, merchant, last, cache, work,
                 sync, faults>>

\* A customer is created or edited, places an order, or is deleted.
CustomerEvent(c) ==
  \/ /\ c \in Live \/ shop[c].details = 0
     /\ Change(c, "update", [shop[c] EXCEPT !.live = TRUE, !.details = @ + 1])
  \/ c \in Live /\ Change(c, "order", [shop[c] EXCEPT !.orders = @ + 1])
  \/ c \in Live /\ Change(c, "delete", [shop[c] EXCEPT !.live = FALSE])

\* The mandatory topics, sent for an erased customer and, some time after an
\* uninstallation, for the shop.
GDPREvent ==
  /\ \/ \E c \in Customers \ Live : shop[c].details > 0 /\ Emit("redact", c, shop[c])
     \/ ~installed
        /\ Emit("shop_redact", AllCustomers, [details |-> 0, orders |-> 0])
  /\ UNCHANGED <<shop, installed, subs, keys, merchant, last, cache,
                 work, sync, faults, historyVars>>

\* The OAuth callback: an upsert by domain, which keeps a row that exists.
Install ==
  /\ ~installed \/ merchant = 0
  /\ last < MaxInstalls
  /\ installed' = TRUE
  /\ IF merchant = 0 THEN last' = last + 1 /\ merchant' = last + 1
     ELSE UNCHANGED <<last, merchant>>
  /\ UNCHANGED <<shop, subs, events, net, keys, cache, work, sync,
                 faults, historyVars>>

\* Registration of the topics, after the callback and whenever the server
\* starts: those that fail are left out.
RegisterAll ==
  /\ installed /\ merchant # 0
  /\ \/ subs' = SubscribedTopics /\ NoFault
     \/ \E t \in SubscribedTopics \ subs : subs' = SubscribedTopics \ {t} /\ Fault
  /\ UNCHANGED <<shop, installed, events, net, keys, merchant, last, cache,
                 work, sync, historyVars>>

Uninstall ==
  /\ installed
  /\ installed' = FALSE /\ subs' = {}
  /\ Emit("uninstalled", AllCustomers, [details |-> 0, orders |-> 0])
  /\ UNCHANGED <<shop, keys, merchant, last, cache, work, sync,
                 faults, historyVars>>

-----------------------------------------------------------------------------
\* Variant: rows do not refer to the merchant.
StatementUnchecked(m, rows) == cache' = rows

\* Statements on customer_cache.  A row refers to its merchant: an insert for
\* a merchant that is gone fails, and deleting the merchant deletes the rows.
Statement(m, rows) == cache' = IF m = merchant THEN rows ELSE cache

\* Variant: a row that exists is not overwritten.
UpsertNewOnly(m, c, row) ==
  Statement(m, IF cache[c] = Absent THEN [cache EXCEPT ![c] = row] ELSE cache)

Upsert(m, c, row) == Statement(m, [cache EXCEPT ![c] = row])

\* Variant: a row that is missing is inserted.
UpdateOrderStatsOrInsert(m, c, hook) ==
  Statement(m, IF cache[c] = Absent
               THEN [cache EXCEPT ![c] = [details |-> Absent, orders |-> hook.orders,
                                          history |-> Absent]]
               ELSE [cache EXCEPT ![c].orders = hook.orders])

\* Only the statistics, and nothing without a row.
UpdateOrderStats(m, c, hook) ==
  Statement(m, IF cache[c] = Absent THEN cache
               ELSE [cache EXCEPT ![c].orders = hook.orders])

DeleteByShopifyID(m, c) == Statement(m, [cache EXCEPT ![c] = Absent])

\* Variant: an empty list deletes all rows.
DeleteStaleUnguarded(m, active) ==
  Statement(m, [c \in Customers |-> IF c \in active THEN cache[c] ELSE Absent])

\* Nothing is deleted when the list is empty.
DeleteStaleEntries(m, active) ==
  Statement(m, IF active = {} THEN cache
               ELSE [c \in Customers |-> IF c \in active THEN cache[c] ELSE Absent])

NoRows == [c \in Customers |-> Absent]

\* DELETE FROM merchants, with ON DELETE CASCADE.
DeleteMerchant(m) ==
  /\ merchant' = IF m = merchant THEN 0 ELSE merchant
  /\ cache'  = IF m = merchant THEN NoRows ELSE cache

-----------------------------------------------------------------------------
\* WebhookHandler.Handle.

Idle == [stage |-> "idle", hook |-> Absent, merchant |-> 0]

\* Variant: duplicates are not recognised.
AlreadyNever(hook) == FALSE

\* The id is in Redis.
Already(hook) == hook.topic \notin GDPRTopics /\ hook.id \in keys

\* Webhooks whose effect is still to come.
InHand  == {work[p].hook : p \in {q \in Handlers : work[q].stage = "apply"}}
Pending == {h \in net : h.topic \in GDPRTopics \/ h.id \notin keys} \cup InHand

\* Customers that a webhook is about.
About(hook) == IF hook.customer = AllCustomers THEN Customers ELSE {hook.customer}

Acknowledge(hook) == net' = net \ {hook}

\* It overtakes an older one about the same customer.
OutOfOrder(hook) == \E h \in Pending : h.id < hook.id /\ About(h) \cap About(hook) # {}

\* A delivery: SETNX marks the id before anything is done; a duplicate and the
\* webhook of an unknown shop are acknowledged at once; a failing Redis does
\* not stop it.
Receive(p, hook) ==
  /\ work[p] = Idle
  /\ IF Already(hook)
     THEN Acknowledge(hook) /\ NoFault /\ UNCHANGED <<keys, work, astray>>
     ELSE /\ \/ keys' = (IF hook.topic \in GDPRTopics THEN keys ELSE keys \cup {hook.id})
                /\ NoFault
             \/ hook.topic \notin GDPRTopics /\ UNCHANGED keys /\ Fault
          /\ IF merchant = 0
             THEN /\ Acknowledge(hook) /\ UNCHANGED work
                  /\ astray' = IF OutOfOrder(hook) THEN astray \cup About(hook) ELSE astray
             ELSE /\ work' = [work EXCEPT ![p] =
                               [stage |-> "apply", hook |-> hook, merchant |-> merchant]]
                  /\ UNCHANGED <<net, astray>>
  /\ UNCHANGED <<shopVars, merchant, last, cache, sync, quiet>>

\* The 200 may be lost; the webhook is then delivered again.
Respond(p) ==
  /\ work' = [work EXCEPT ![p] = Idle]
  /\ \/ Acknowledge(work[p].hook) /\ NoFault
     \/ UNCHANGED net /\ Fault

\* The effect of a webhook on the database.
Effect(m, hook) ==
  CASE hook.topic = "update" ->
         /\ Upsert(m, hook.customer, [details |-> hook.details, orders |-> hook.orders,
                                       history |-> Absent])
         /\ UNCHANGED merchant
    [] hook.topic = "order" -> UpdateOrderStats(m, hook.customer, hook) /\ UNCHANGED merchant
    [] hook.topic \in {"delete", "redact"} ->
         DeleteByShopifyID(m, hook.customer) /\ UNCHANGED merchant
    [] OTHER -> DeleteMerchant(m)

Apply(p) ==
  LET hook == work[p].hook
      m    == work[p].merchant
  IN
  /\ work[p].stage = "apply"
  /\ \/ /\ Effect(m, hook)
        /\ Respond(p)
        /\ astray' = IF OutOfOrder(hook) \/ m # merchant
                     THEN astray \cup About(hook) ELSE astray
     \* A failing statement is answered with 200.
     \/ /\ Fault
        /\ work' = [work EXCEPT ![p] = Idle] /\ Acknowledge(hook)
        /\ astray' = astray \cup About(hook)
        /\ UNCHANGED <<cache, merchant>>
  /\ quiet' = FALSE
  /\ UNCHANGED <<shopVars, keys, last, sync>>

\* The key of a processed id lives for 25 hours; it matters while the webhook
\* may be delivered again.
Expire ==
  /\ Fault
  /\ \E id \in keys \cap {h.id : h \in net} :
       /\ keys' = keys \ {id}
       /\ astray' = astray \cup UNION {About(h) : h \in {k \in net : k.id = id}}
  /\ UNCHANGED <<shopVars, net, merchant, last, cache, work, sync, quiet>>

-----------------------------------------------------------------------------
\* sync.Service.SyncCustomers and processSync.

NoSync == [pc |-> "idle", merchant |-> 0, page |-> 1, list |-> {}, todo |-> {},
           active |-> {}]

StopSync == sync' = NoSync /\ quiet' = FALSE

\* What a sync knows of a customer it has fetched.
Fetched(c) == [customer |-> c, row |-> [details |-> shop[c].details,
                orders |-> shop[c].orders,
                history |-> IF shop[c].orders = 0 THEN Absent ELSE shop[c].orders]]

BeginSync ==
  /\ sync.pc = "idle" /\ merchant # 0 /\ installed
  /\ sync' = [NoSync EXCEPT !.pc = "fetch", !.merchant = merchant]
  /\ quiet' = TRUE
  /\ UNCHANGED <<shopVars, net, keys, merchant, last, cache, work,
                 faults, astray>>

\* One page; a page that cannot be had ends the attempt.
FetchPage ==
  LET page == {c \in Live : PageOf[c] = sync.page}
      list == sync.list \cup {Fetched(c) : c \in page}
  IN
  /\ sync.pc = "fetch"
  /\ \/ /\ installed /\ NoFault
        /\ sync' = IF sync.page < LastPage
                   THEN [sync EXCEPT !.list = list, !.page = @ + 1]
                   ELSE [sync EXCEPT !.pc = "upsert", !.list = {},
                                           !.page = 1, !.todo = list]
        /\ UNCHANGED quiet
     \/ ~installed /\ NoFault /\ StopSync
     \/ Fault /\ StopSync
  /\ UNCHANGED <<shopVars, net, keys, merchant, last, cache, work, astray>>

Current(item) == item.customer \in Live /\ item = Fetched(item.customer)

\* The next upsert: one that fails is skipped, and its customer is not active.
UpsertFetched ==
  /\ sync.pc = "upsert" /\ sync.todo # {}
  /\ \E item \in sync.todo :
       LET c == item.customer IN
       /\ \A other \in sync.todo : PageOf[c] <= PageOf[other.customer]
       /\ \/ /\ Upsert(sync.merchant, c, item.row)
             /\ sync' = [sync EXCEPT !.todo = @ \ {item},
                           !.active = IF sync.merchant = merchant THEN @ \cup {c} ELSE @]
             /\ astray' =
                  IF sync.merchant = merchant /\ ~Current(item) THEN astray \cup {c}
                  ELSE IF sync.merchant = merchant /\ \A h \in Pending : c \notin About(h)
                  THEN astray \ {c} ELSE astray
             /\ UNCHANGED quiet /\ NoFault
          \/ /\ sync' = [sync EXCEPT !.todo = @ \ {item}]
             /\ quiet' = FALSE /\ Fault
             /\ UNCHANGED <<cache, astray>>
  /\ UNCHANGED <<shopVars, net, keys, merchant, last, work>>

CleanStale ==
  /\ sync.pc = "upsert" /\ sync.todo = {}
  /\ \/ DeleteStaleEntries(sync.merchant, sync.active) /\ UNCHANGED quiet /\ NoFault
     \/ UNCHANGED cache /\ quiet' = FALSE /\ Fault
  /\ sync' = [sync EXCEPT !.pc = "dispatch", !.active = {}]
  /\ UNCHANGED <<shopVars, net, keys, merchant, last, work, astray>>

EndSync ==
  /\ sync.pc = "dispatch"
  /\ StopSync
  /\ UNCHANGED <<shopVars, net, keys, merchant, last, cache, work, faults, astray>>

-----------------------------------------------------------------------------
\* The server dies; the sync job is started again by the recovery sweep.
Crash ==
  /\ Fault
  /\ work' = [p \in Handlers |-> Idle] /\ StopSync
  /\ astray' = astray \cup UNION {About(h) : h \in InHand}
  /\ UNCHANGED <<shopVars, net, keys, merchant, last, cache>>

Init ==
  /\ shop \in {[c \in Customers |-> [live |-> c \in early, orders |-> 0,
                  details |-> IF c \in early THEN 1 ELSE 0]] : early \in SUBSET Customers}
  /\ installed = FALSE /\ subs = {} /\ events = 0 /\ net = {}
  /\ keys = {} /\ merchant = 0 /\ last = 0 /\ cache = NoRows
  /\ work = [p \in Handlers |-> Idle] /\ sync = NoSync /\ faults = 0
  /\ astray = {} /\ quiet = FALSE

Next ==
  \/ \E c \in Customers : CustomerEvent(c)
  \/ GDPREvent \/ Install \/ RegisterAll \/ Uninstall
  \/ \E p \in Handlers : \/ \E hook \in net : Receive(p, hook)
                         \/ Apply(p)
  \/ Expire
  \/ BeginSync \/ FetchPage \/ UpsertFetched \/ CleanStale \/ EndSync
  \/ Crash

Spec == Init /\ [][Next]_vars

-----------------------------------------------------------------------------
\* Properties.

TypeOK ==
  /\ shop \in [Customers -> Profiles] /\ installed \in BOOLEAN
  /\ subs \subseteq SubscribedTopics /\ events \in 0..MaxEvents
  /\ net \subseteq Hooks /\ \A h \in net : h.id < events
  /\ keys \subseteq {id \in Nat : id < events}
  /\ last \in 0..MaxInstalls /\ merchant \in {0, last}
  /\ cache \in [Customers -> Rows \cup {Absent}]
  /\ \A p \in Handlers :
       work[p] = Idle \/ work[p] \in [stage : {"apply"}, hook : Hooks, merchant : 1..last]
  /\ sync.pc \in {"idle", "fetch", "upsert", "dispatch"}
  /\ sync.active \subseteq Customers
  /\ sync.list \cup sync.todo \subseteq [customer : Customers, row : Rows]
  /\ faults \in 0..MaxFaults
  /\ astray \subseteq Customers /\ quiet \in BOOLEAN

\* The rows go with the shop: when an uninstallation or a redaction has deleted
\* the merchant, no upsert of a webhook or a sync that was under way brings a
\* row back (app/uninstalled, shop/redact).
NothingKeptOfGoneShop == merchant = 0 => cache = NoRows

Mirror == [c \in Customers |-> IF c \in Live THEN Fetched(c).row ELSE Absent]

\* A sync repairs everything: if nothing but the sync touched shop and cache
\* since it began, the cache is then the shop, in every column and without
\* rows of deleted customers, whatever webhooks were lost, repeated or
\* overtaken before (SyncCustomers).  Of an empty shop it deletes nothing.
SyncRepairs == sync.pc = "dispatch" /\ quiet /\ Live # {} => cache = Mirror

\* A row of a customer with nothing pending is up to date, unless something
\* made it go astray: a change nobody was subscribed for, a webhook that
\* overtook an older one or was dropped by a failing statement, a crash or an
\* expired key, or a sync that wrote what it had fetched before a change.  In
\* particular a repeated delivery never undoes a newer one (IsProcessed).
CurrentRows ==
  \A c \in Customers :
    /\ cache[c] # Absent /\ c \notin astray
    /\ \A h \in Pending : c \notin About(h)
    => /\ c \in Live
       /\ cache[c].details = shop[c].details /\ cache[c].orders = shop[c].orders

\* The row of a customer who exists is removed with the whole shop, or by a
\* sync that did write other rows but did not fetch or could not write this
\* one: one created meanwhile, or one whose upsert failed (DeleteStaleEntries).
LiveRowsKept ==
  [][\A c \in Live : cache[c] # Absent /\ cache'[c] = Absent =>
       \/ merchant' = 0
       \/ sync.pc = "upsert" /\ sync.active \notin {{}, {c}} /\ c \notin sync.active]_vars

=============================================================================
