-------------------------- MODULE BillingGateProofs --------------------------
(***************************************************************************)
(* Proofs about BillingGate, for any clients, charges, limit and bounds.   *)
(***************************************************************************)
EXTENDS BillingGate, FiniteSetTheorems, TLAPS

\* A row is there before a callback can change its plan.
PlanInv == IF row = Absent THEN activated = "free" ELSE row.plan = activated

\* An approved charge stays approved or is cancelled.
Approved(ch) == charge[ch] \in {"active", "cancelled"}

\* Shopify has one active charge at a time.
OneActive == \A g, h \in Charges : charge[g] = "active" /\ charge[h] = "active" => g = h

\* A callback that was called for the plan of its charge and has seen it
\* approved activates a plan the merchant approved.
ApprovedInv ==
  mishaps \subseteq {"overtaken", "noRow"} =>
    /\ \A ch \in Charges, plan \in PaidPlans :
         plan \in callback[ch] => plan = PlanOf[ch] /\ Approved(ch)
    /\ activated \in PaidPlans =>
         \E ch \in Charges : PlanOf[ch] = activated /\ Approved(ch)

\* Unless a decision comes between its steps, its charge is still the active
\* one when it activates.
FollowInv ==
  mishaps = {} =>
    /\ \A ch \in Charges, plan \in PaidPlans : plan \in callback[ch] => charge[ch] = "active"
    /\ \A ch \in confirmed :
         Approved(ch) /\ (charge[ch] = "active" => activated = PlanOf[ch])

ChargeInv == OneActive /\ ApprovedInv /\ FollowInv

-----------------------------------------------------------------------------
\* The default settings are a row, and Absent is not.
LEMMA RowFacts ==
  ASSUME BillingGateAssumption, month \in Months
  PROVE  /\ Absent \notin Rows
         /\ DefaultSettings \in Rows
         /\ DefaultSettings.plan = "free"
  BY DEF BillingGateAssumption, Rows, DefaultSettings, Months, PaidPlans

\* Whatever a client does with settings it read, it stays well typed.
LEMMA ProceedTyped ==
  ASSUME TypeOK, NEW c \in Clients, NEW settings \in Rows \cup {Absent},
         Proceed(c, settings)
  PROVE  /\ pc' \in [Clients -> {"idle", "read", "create", "dispatch", "count", "save"}]
         /\ seen' \in [Clients -> Rows \cup {Absent}]
         /\ \A d \in Savers : pc'[d] \notin {"dispatch", "count"}
  BY DEF TypeOK, Proceed, Answer, Goto, Clients

\* Counting leaves a row a row, and its plan alone.
LEMMA IncrementTyped ==
  ASSUME row \in Rows, month \in Months, IncrementMergeCount, row # Absent
  PROVE  row' \in Rows /\ row'.plan = row.plan
<1>1. row.used + 1 \in Nat
  BY DEF Rows
<1>2. \/ row' = [row EXCEPT !.used = 1, !.window = month]
      \/ row' = [row EXCEPT !.used = @ + 1]
  BY DEF IncrementMergeCount
<1>3. CASE row' = [row EXCEPT !.used = 1, !.window = month]
  BY <1>3 DEF Rows
<1>4. CASE row' = [row EXCEPT !.used = @ + 1]
  BY <1>1, <1>4 DEF Rows
<1> QED
  BY <1>2, <1>3, <1>4

\* Every reachable state is well typed: the counter stays a natural number of a
\* month that has come, and a save never waits to dispatch or to count.
THEOREM TypeCorrect == Spec => []TypeOK
<1>1. Init => TypeOK
  BY BillingGateAssumption DEF BillingGateAssumption, Init, TypeOK, Months, Clients
<1>2. TypeOK /\ [Next]_vars => TypeOK'
  <2> SUFFICES ASSUME TypeOK, [Next]_vars PROVE TypeOK'
    OBVIOUS
  <2> USE BillingGateAssumption
  <2>1. ASSUME NEW c \in Clients, Start(c) PROVE TypeOK'
    BY <2>1 DEF Start, TypeOK, Goto, billingVars, Clients
  <2>2. ASSUME NEW c \in Clients, Read(c) PROVE TypeOK'
    <3>1. CASE row = Absent /\ Goto(c, "create") /\ UNCHANGED seen /\ NoFault
      BY <2>2, <3>1 DEF Read, TypeOK, Goto, NoFault, billingVars, Clients
    <3>2. CASE \E settings \in Rows \cup {Absent} : Proceed(c, settings)
      <4>1. PICK settings \in Rows \cup {Absent} : Proceed(c, settings)
        BY <3>2
      <4>2. faults' \in 0..MaxFaults
        BY <2>2 DEF Read, Fault, NoFault, TypeOK, BillingGateAssumption
      <4>3. UNCHANGED <<row, month, charge, callback, accepted, activated, confirmed, mishaps>>
        BY <2>2 DEF Read, billingVars
      <4> QED
        BY <4>1, <4>2, <4>3, ProceedTyped DEF TypeOK
    <3> QED
      BY <2>2, <3>1, <3>2 DEF Read, TypeOK
  <2>3. ASSUME NEW c \in Clients, Create(c) PROVE TypeOK'
    <3>1. DefaultSettings \in Rows
      BY RowFacts DEF TypeOK
    <3>2. PICK settings \in Rows \cup {Absent} : Proceed(c, settings)
      BY <2>3, <3>1 DEF Create
    <3>3. faults' \in 0..MaxFaults
      BY <2>3 DEF Create, Fault, NoFault, TypeOK, BillingGateAssumption
    <3>4. row' \in Rows \cup {Absent}
      BY <2>3, <3>1 DEF Create, Upsert, TypeOK
    <3>5. UNCHANGED <<month, charge, callback, accepted, activated, confirmed, mishaps>>
      BY <2>3 DEF Create, billingVars
    <3> QED
      BY <3>2, <3>3, <3>4, <3>5, ProceedTyped DEF TypeOK
  <2>4. ASSUME NEW c \in Mergers, DispatchMerge(c) PROVE TypeOK'
    BY <2>4 DEF DispatchMerge, TypeOK, Goto, Answer, billingVars, Clients,
                BillingGateAssumption
  <2>5. ASSUME NEW c \in Mergers, CountMerge(c) PROVE TypeOK'
    <3>1. row' \in Rows \cup {Absent}
      <4>1. CASE row' = row
        BY <4>1 DEF TypeOK
      <4>2. CASE row # Absent /\ IncrementMergeCount
        BY <4>2, IncrementTyped DEF TypeOK
      <4> QED
        BY <2>5, <4>1, <4>2 DEF CountMerge, IncrementMergeCount
    <3>2. faults' \in 0..MaxFaults
      BY <2>5 DEF CountMerge, Fault, NoFault, TypeOK, BillingGateAssumption
    <3> QED
      BY <2>5, <3>1, <3>2 DEF CountMerge, TypeOK, Answer, Goto, billingVars, Clients
  <2>6. ASSUME NEW c \in Savers, SaveSettings(c) PROVE TypeOK'
    <3>1. row' \in Rows \cup {Absent}
      BY <2>6, RowFacts DEF SaveSettings, Upsert, TypeOK
    <3>2. faults' \in 0..MaxFaults
      BY <2>6 DEF SaveSettings, Fault, NoFault, TypeOK, BillingGateAssumption
    <3> QED
      BY <2>6, <3>1, <3>2 DEF SaveSettings, TypeOK, Answer, Goto, billingVars, Clients
  <2>7. ASSUME NEW ch \in Charges, Subscribe(ch) PROVE TypeOK'
    BY <2>7 DEF Subscribe, TypeOK, clientVars
  <2>8. ASSUME NEW ch \in Charges, Decide(ch) PROVE TypeOK'
    BY <2>8 DEF Decide, TypeOK, clientVars
  <2>9. ASSUME NEW ch \in Charges, NEW plan \in PaidPlans, Verify(ch, plan) PROVE TypeOK'
    <3>1. faults' \in 0..MaxFaults
      BY <2>9 DEF Verify, Fault, NoFault, TypeOK, BillingGateAssumption
    <3>2. callback' \in [Charges -> SUBSET PaidPlans]
      BY <2>9 DEF Verify, TypeOK
    <3>3. mishaps' \subseteq {"otherPlan", "undecided", "unchecked", "overtaken", "noRow"}
      BY <2>9 DEF Verify, TypeOK
    <3> QED
      BY <2>9, <3>1, <3>2, <3>3 DEF Verify, TypeOK, clientVars
  <2>10. ASSUME NEW ch \in Charges, NEW plan \in PaidPlans, Activate(ch, plan) PROVE TypeOK'
    <3>1. /\ row' \in Rows \cup {Absent}
          /\ activated' \in {"free"} \cup PaidPlans
      BY <2>10 DEF Activate, UpdatePlan, TypeOK, Rows
    <3>2. faults' \in 0..MaxFaults
      BY <2>10 DEF Activate, Fault, NoFault, TypeOK, BillingGateAssumption
    <3>3. /\ confirmed' \subseteq Charges
          /\ mishaps' \subseteq {"otherPlan", "undecided", "unchecked", "overtaken", "noRow"}
      BY <2>10 DEF Activate, TypeOK
    <3>4. callback' \in [Charges -> SUBSET PaidPlans]
      BY <2>10 DEF Activate, TypeOK
    <3> QED
      BY <2>10, <3>1, <3>2, <3>3, <3>4 DEF Activate, TypeOK, clientVars
  <2>11. CASE NextMonth
    BY <2>11 DEF NextMonth, TypeOK, Months, clientVars, billingVars, BillingGateAssumption
  <2>12. CASE UNCHANGED vars
    BY <2>12 DEF vars, TypeOK
  <2> QED
    BY <2>1, <2>2, <2>3, <2>4, <2>5, <2>6, <2>7, <2>8, <2>9, <2>10, <2>11, <2>12
       DEF Next
<1> QED
  BY <1>1, <1>2, PTL DEF Spec

-----------------------------------------------------------------------------
\* What a statement of a client or the turn of the month does to the row keeps
\* its plan, and creates it on the free plan.
LEMMA ClientsKeepPlan ==
  ASSUME TypeOK, PlanInv, UNCHANGED activated,
         \/ UNCHANGED row
         \/ \E settings : Upsert(settings)
         \/ IncrementMergeCount
  PROVE  PlanInv'
<1> USE BillingGateAssumption
<1>1. CASE UNCHANGED row
  BY <1>1 DEF PlanInv
<1>2. CASE \E settings : Upsert(settings)
  BY <1>2, RowFacts DEF PlanInv, Upsert, TypeOK
<1>3. CASE IncrementMergeCount
  <2>1. CASE row = Absent
    BY <1>3, <2>1 DEF IncrementMergeCount, PlanInv
  <2>2. CASE row # Absent
    <3>1. row' \in Rows /\ row'.plan = row.plan
      BY <1>3, <2>2, IncrementTyped DEF TypeOK
    <3> QED
      BY <3>1, <2>2, RowFacts DEF PlanInv, TypeOK
  <2> QED
    BY <2>1, <2>2
<1> QED
  BY <1>1, <1>2, <1>3

\* The plan is the last one activated, and there is none without a row.
LEMMA PlanHolds == Spec => []PlanInv
<1>1. Init => PlanInv
  BY DEF Init, PlanInv
<1>2. TypeOK /\ PlanInv /\ [Next]_vars => PlanInv'
  <2> SUFFICES ASSUME TypeOK, PlanInv, [Next]_vars PROVE PlanInv'
    OBVIOUS
  <2>1. ASSUME NEW c \in Clients, Start(c) \/ Read(c) \/ Create(c) PROVE PlanInv'
    BY <2>1, ClientsKeepPlan DEF Start, Read, Create, billingVars
  <2>2. ASSUME NEW c \in Mergers, DispatchMerge(c) \/ CountMerge(c) PROVE PlanInv'
    BY <2>2, ClientsKeepPlan DEF DispatchMerge, CountMerge, billingVars
  <2>3. ASSUME NEW c \in Savers, SaveSettings(c) PROVE PlanInv'
    BY <2>3, ClientsKeepPlan DEF SaveSettings, billingVars
  <2>4. ASSUME NEW ch \in Charges, NEW plan \in PaidPlans, Activate(ch, plan) PROVE PlanInv'
    <3>1. CASE UNCHANGED <<row, activated>>
      BY <3>1 DEF PlanInv
    <3>2. CASE UpdatePlan(plan)
      <4>1. CASE row = Absent
        BY <3>2, <4>1 DEF UpdatePlan, PlanInv
      <4>2. CASE row # Absent
        <5>1. row \in Rows
          BY <4>2 DEF TypeOK
        <5>2. row' = [row EXCEPT !.plan = plan] /\ activated' = plan
          BY <3>2, <4>2 DEF UpdatePlan
        <5>3. row' \in Rows /\ row'.plan = activated'
          BY <5>1, <5>2 DEF Rows
        <5> QED
          BY <5>3, RowFacts, BillingGateAssumption DEF PlanInv, TypeOK
      <4> QED
        BY <4>1, <4>2
    <3> QED
      BY <2>4, <3>1, <3>2 DEF Activate
  <2>5. ASSUME NEW ch \in Charges, Subscribe(ch) \/ Decide(ch) PROVE PlanInv'
    BY <2>5 DEF Subscribe, Decide, PlanInv
  <2>7. ASSUME NEW ch \in Charges, NEW plan \in PaidPlans, Verify(ch, plan) PROVE PlanInv'
    BY <2>7 DEF Verify, PlanInv
  <2>6. CASE NextMonth \/ UNCHANGED vars
    BY <2>6 DEF NextMonth, vars, billingVars, PlanInv
  <2> QED
    BY <2>1, <2>2, <2>3, <2>4, <2>5, <2>6, <2>7 DEF Next
<1> QED
  BY <1>1, <1>2, TypeCorrect, PTL DEF Spec

\* Saving settings never undoes an activation, however a save, which writes back
\* settings read earlier, interleaves with callbacks (settings_repo.go:20).
THEOREM PlanKept == Spec => []PlanSurvivesSaves
<1>1. PlanInv => PlanSurvivesSaves
  BY DEF PlanInv, PlanSurvivesSaves
<1> QED
  BY <1>1, PlanHolds, PTL

-----------------------------------------------------------------------------
\* A callback checks its charge.  Without a mishap it is called for the plan of
\* the charge, which is active.
LEMMA VerifyKeepsCharges ==
  ASSUME TypeOK, ChargeInv, NEW c \in Charges, NEW p \in PaidPlans, Verify(c, p)
  PROVE  ChargeInv'
<1>1. /\ callback' = [callback EXCEPT ![c] = @ \cup {p}] /\ mishaps \subseteq mishaps'
      /\ UNCHANGED <<charge, activated, confirmed>>
  BY DEF Verify
<1>2. mishaps' \subseteq {"overtaken", "noRow"} => p = PlanOf[c] /\ charge[c] = "active"
  <2>1. p # PlanOf[c] => "otherPlan" \in mishaps'
    BY DEF Verify
  <2>2. charge[c] = "pending" => "undecided" \in mishaps'
    BY DEF Verify
  <2>3. charge[c] \notin {"pending", "active"} => "unchecked" \in mishaps'
    BY DEF Verify, Fault, NoFault, TypeOK
  <2> QED
    BY <2>1, <2>2, <2>3
<1>3. OneActive'
  BY <1>1 DEF OneActive, ChargeInv
<1>4. ApprovedInv'
  BY <1>1, <1>2 DEF ApprovedInv, ChargeInv, Approved, TypeOK
<1>5. FollowInv'
  BY <1>1, <1>2 DEF FollowInv, ChargeInv, Approved, TypeOK
<1> QED
  BY <1>3, <1>4, <1>5 DEF ChargeInv

\* A callback sets the plan.  Without a mishap its charge is the active one, so
\* that no other confirmed charge pays for another plan.
LEMMA ActivateKeepsCharges ==
  ASSUME TypeOK, ChargeInv, NEW c \in Charges, NEW p \in PaidPlans, Activate(c, p)
  PROVE  ChargeInv'
<1>1. /\ p \in callback[c] /\ callback' = [callback EXCEPT ![c] = @ \ {p}]
      /\ mishaps \subseteq mishaps' /\ charge' = charge
      /\ activated' = activated \/ activated' = p
  BY DEF Activate, UpdatePlan
<1>2. \/ UNCHANGED <<activated, confirmed>>
      \/ confirmed' = confirmed \cup {c} /\ (activated' = p \/ "noRow" \in mishaps')
  BY DEF Activate, UpdatePlan
<1>3. OneActive'
  BY <1>1 DEF OneActive, ChargeInv
<1>4. ApprovedInv'
  BY <1>1 DEF ApprovedInv, ChargeInv, Approved, TypeOK
<1>5. FollowInv'
  <2> SUFFICES ASSUME mishaps' = {} PROVE FollowInv'
    BY DEF FollowInv
  <2>1. mishaps = {} /\ p = PlanOf[c] /\ charge[c] = "active"
    BY <1>1 DEF ChargeInv, ApprovedInv, FollowInv
  <2>2. \A ch \in Charges : charge[ch] = "active" => ch = c
    BY <2>1 DEF ChargeInv, OneActive
  <2>3. confirmed \subseteq Charges
    BY DEF TypeOK
  <2> QED
    BY <1>1, <1>2, <2>1, <2>2, <2>3 DEF ChargeInv, FollowInv, Approved, TypeOK
<1> QED
  BY <1>3, <1>4, <1>5 DEF ChargeInv

\* The merchant subscribes or decides: an approved charge stays approved, and
\* only one that no callback has confirmed becomes the active one.
LEMMA DecideKeepsCharges ==
  ASSUME TypeOK, ChargeInv, NEW c \in Charges, Subscribe(c) \/ Decide(c)
  PROVE  ChargeInv'
<1>1. /\ UNCHANGED <<callback, activated, confirmed>> /\ mishaps \subseteq mishaps'
      /\ \A ch \in Charges : Approved(ch) => Approved(ch)'
      /\ \A ch \in Charges : charge'[ch] = "active" /\ Approved(ch) => charge[ch] = "active"
  BY DEF Subscribe, Decide, Approved, TypeOK
<1>2. OneActive'
  BY DEF Subscribe, Decide, OneActive, ChargeInv, TypeOK
<1>3. ApprovedInv'
  BY <1>1 DEF ApprovedInv, ChargeInv
<1>4. FollowInv'
  <2> SUFFICES ASSUME mishaps' = {} PROVE FollowInv'
    BY DEF FollowInv
  <2>1. CASE Decide(c)
    <3>1. mishaps = {} /\ \A ch \in Charges : callback[ch] = {}
      BY <2>1 DEF Decide
    <3> QED
      BY <1>1, <3>1 DEF ChargeInv, FollowInv, TypeOK
  <2>2. CASE Subscribe(c)
    <3>1. /\ mishaps = {}
          /\ \A ch \in Charges : charge[ch] = "active" => charge'[ch] = "active"
      BY <2>2 DEF Subscribe, TypeOK
    <3> QED
      BY <1>1, <3>1 DEF ChargeInv, FollowInv, TypeOK
  <2> QED
    BY <2>1, <2>2
<1> QED
  BY <1>2, <1>3, <1>4 DEF ChargeInv

\* Callbacks that are called for the plan of their charge and learn its status
\* keep the plan of the row that of the active charge, although any of them can
\* be loaded again after its charge was declined, replaced or cancelled
\* (billing_handler.go:142).
THEOREM PlanFollows == Spec => []PlanFollowsCharges
<1>1. Init => ChargeInv
  BY DEF Init, ChargeInv, OneActive, ApprovedInv, FollowInv, PaidPlans
<1>2. TypeOK /\ ChargeInv /\ [Next]_vars => ChargeInv'
  <2> SUFFICES ASSUME TypeOK, ChargeInv, [Next]_vars PROVE ChargeInv'
    OBVIOUS
  <2>1. ASSUME UNCHANGED billingVars PROVE ChargeInv'
    BY <2>1 DEF billingVars, ChargeInv, OneActive, ApprovedInv, FollowInv, Approved
  <2>2. ASSUME NEW c \in Clients, Start(c) \/ Read(c) \/ Create(c) PROVE ChargeInv'
    BY <2>1, <2>2 DEF Start, Read, Create
  <2>3. ASSUME NEW c \in Mergers, DispatchMerge(c) \/ CountMerge(c) PROVE ChargeInv'
    BY <2>1, <2>3 DEF DispatchMerge, CountMerge
  <2>4. ASSUME NEW c \in Savers, SaveSettings(c) PROVE ChargeInv'
    BY <2>1, <2>4 DEF SaveSettings
  <2>5. ASSUME NEW ch \in Charges, Subscribe(ch) \/ Decide(ch) PROVE ChargeInv'
    BY <2>5, DecideKeepsCharges
  <2>6. ASSUME NEW ch \in Charges, NEW plan \in PaidPlans,
               Verify(ch, plan) \/ Activate(ch, plan)
        PROVE  ChargeInv'
    BY <2>6, VerifyKeepsCharges, ActivateKeepsCharges
  <2>7. CASE NextMonth \/ UNCHANGED vars
    BY <2>1, <2>7 DEF NextMonth, vars, billingVars
  <2> QED
    BY <2>2, <2>3, <2>4, <2>5, <2>6, <2>7 DEF Next
<1>3. TypeOK /\ PlanInv /\ ChargeInv => PlanFollowsCharges
  <2> SUFFICES ASSUME TypeOK, PlanInv, ChargeInv PROVE PlanFollowsCharges
    OBVIOUS
  <2>1. ASSUME NEW ch \in confirmed, mishaps = {}, charge[ch] = "active"
        PROVE  row # Absent /\ row.plan = PlanOf[ch]
    <3>1. activated = PlanOf[ch] /\ ch \in Charges
      BY <2>1 DEF ChargeInv, FollowInv, TypeOK
    <3>2. PlanOf[ch] # "free"
      BY <3>1, BillingGateAssumption DEF BillingGateAssumption
    <3> QED
      BY <3>1, <3>2 DEF PlanInv
  <2>2. row # Absent /\ row.plan \in PaidPlans /\ mishaps \subseteq {"overtaken", "noRow"} =>
          \E ch \in Charges : PlanOf[ch] = row.plan /\ charge[ch] \in {"active", "cancelled"}
    BY DEF PlanInv, ChargeInv, ApprovedInv, Approved
  <2> QED
    BY <2>1, <2>2 DEF PlanFollowsCharges
<1> QED
  BY <1>1, <1>2, <1>3, TypeCorrect, PlanHolds, PTL DEF Spec

-----------------------------------------------------------------------------
\* Counting merges.

\* The merge requests about to execute a statement.
At(p) == {c \in Mergers : pc[c] = p}

\* Requests that the check will let through or has let through as those of a
\* shop without a paid plan, and that are not accepted yet.
Unpaid(settings) == settings = Absent \/ settings.plan \notin PaidPlans
Passing == {c \in Mergers : pc[c] = "create" \/ (pc[c] = "dispatch" /\ Unpaid(seen[c]))}

\* The counter covers the merges of its month, and those of a later month have
\* all yet to be counted or have lost the count.  As long as there is no row to
\* count in, each request past the check has paid for it with a failed read.
CountInv ==
  /\ \A m \in Months : m > month => accepted[m] = 0
  /\ row = Absent => \A m \in Months : accepted[m] + Cardinality(At("dispatch")) <= faults
  /\ row # Absent =>
       /\ row.window <= month
       /\ accepted[row.window] <= row.used + Cardinality(At("count")) + faults
       /\ \A m \in Months :
            m > row.window => accepted[m] <= Cardinality(At("count")) + faults

\* There is room under the limit for all requests that may still be accepted.
LimitInv ==
  /\ OvershootBounded
  /\ accepted[month] + Cardinality(Passing) <= FreeLimit + (Cardinality(Mergers) - 1) + faults

\* Sets of merge requests can be counted.
LEMMA MergersCount ==
  ASSUME NEW S \in SUBSET Mergers
  PROVE  /\ IsFiniteSet(S) /\ Cardinality(S) \in Nat
         /\ Cardinality(Mergers) \in Nat /\ Cardinality(S) <= Cardinality(Mergers)
  BY BillingGateAssumption, FS_Subset, FS_CardinalityType DEF BillingGateAssumption

\* A set of merge requests that changes by one of them.
LEMMA CountChanges ==
  ASSUME NEW S \in SUBSET Mergers, NEW T \in SUBSET Mergers,
         NEW c, S \ {c} = T \ {c}
  PROVE  Cardinality(T) = Cardinality(S) + (IF c \in T THEN 1 ELSE 0)
                                         - (IF c \in S THEN 1 ELSE 0)
<1>1. /\ IsFiniteSet(S) /\ Cardinality(S) \in Nat
      /\ IsFiniteSet(T) /\ Cardinality(T) \in Nat
  BY MergersCount
<1>2. /\ Cardinality(S \ {c}) = IF c \in S THEN Cardinality(S) - 1 ELSE Cardinality(S)
      /\ Cardinality(T \ {c}) = IF c \in T THEN Cardinality(T) - 1 ELSE Cardinality(T)
  BY <1>1, FS_RemoveElement, Zenon
<1>3. /\ c \in S => Cardinality(S \ {c}) = Cardinality(S) - 1
      /\ c \notin S => Cardinality(S \ {c}) = Cardinality(S)
      /\ c \in T => Cardinality(T \ {c}) = Cardinality(T) - 1
      /\ c \notin T => Cardinality(T \ {c}) = Cardinality(T)
  BY <1>2, Zenon
<1> QED
  BY <1>1, <1>3

\* Two disjoint groups of merge requests.
LEMMA CountsApart ==
  ASSUME NEW S \in SUBSET Mergers, NEW T \in SUBSET Mergers,
         S \cap T = {}
  PROVE  Cardinality(S) + Cardinality(T) <= Cardinality(Mergers)
<1>1. IsFiniteSet(S) /\ IsFiniteSet(T)
  BY MergersCount
<1>2. Cardinality(S \cup T) = Cardinality(S) + Cardinality(T) - Cardinality(S \cap T)
  BY <1>1, FS_Union
<1>3. Cardinality(S \cap T) = 0
  BY FS_EmptySet
<1>4. Cardinality(S \cup T) <= Cardinality(Mergers) /\ Cardinality(S) \in Nat /\ Cardinality(T) \in Nat
  BY MergersCount
<1> QED
  BY <1>2, <1>3, <1>4

\* What a jump of one client does to the numbers of requests.
LEMMA JumpCounts ==
  ASSUME TypeOK, NEW c \in Clients, NEW p, Goto(c, p), NEW q
  PROVE  Cardinality(At(q)') = Cardinality(At(q)) + (IF c \in Mergers /\ p = q THEN 1 ELSE 0)
                                - (IF c \in Mergers /\ pc[c] = q THEN 1 ELSE 0)
<1>1. pc' = [pc EXCEPT ![c] = p] /\ pc \in [Clients -> {"idle", "read", "create", "dispatch", "count", "save"}]
  BY DEF Goto, TypeOK
<1>2. At(q) \in SUBSET Mergers /\ At(q)' \in SUBSET Mergers
  BY DEF At
<1>3. /\ c \in At(q) <=> c \in Mergers /\ pc[c] = q
      /\ c \in At(q)' <=> c \in Mergers /\ p = q
      /\ At(q) \ {c} = At(q)' \ {c}
  BY <1>1 DEF At, Clients
<1>4. Cardinality(At(q)') = Cardinality(At(q)) + (IF c \in At(q)' THEN 1 ELSE 0)
                                - (IF c \in At(q) THEN 1 ELSE 0)
  BY <1>2, <1>3, CountChanges
<1> QED
  BY <1>3, <1>4

\* The numbers the invariants speak of.
LEMMA Numbers ==
  ASSUME TypeOK
  PROVE  /\ month \in Months /\ month \in Nat /\ faults \in Nat
         /\ \A m \in Months : m \in Nat /\ accepted[m] \in Nat
         /\ row # Absent => row.used \in Nat /\ row.window \in Months
         /\ Cardinality(Mergers) \in Nat /\ FreeLimit \in Nat \ {0}
         /\ \A p : Cardinality(At(p)) \in Nat
         /\ Cardinality(Passing) \in Nat
<1>1. \A p : At(p) \in SUBSET Mergers
  BY DEF At
<1>2. Passing \in SUBSET Mergers
  BY DEF Passing
<1>3. Cardinality(Passing) \in Nat /\ \A p : Cardinality(At(p)) \in Nat
  BY <1>1, <1>2, MergersCount
<1>4. Cardinality(Mergers) \in Nat
  BY BillingGateAssumption, FS_CardinalityType DEF BillingGateAssumption
<1> QED
  BY <1>3, <1>4, BillingGateAssumption DEF BillingGateAssumption, TypeOK, Months, Rows

LEMMA NumbersPrimed ==
  ASSUME TypeOK'
  PROVE  /\ month' \in Months /\ month' \in Nat /\ faults' \in Nat
         /\ \A p : Cardinality(At(p)') \in Nat
         /\ Cardinality(Passing') \in Nat
<1>1. \A p : At(p)' \in SUBSET Mergers
  BY DEF At
<1>2. Passing' \in SUBSET Mergers
  BY DEF Passing
<1>3. Cardinality(Passing') \in Nat /\ \A p : Cardinality(At(p)') \in Nat
  BY <1>1, <1>2, MergersCount
<1> QED
  BY <1>3, BillingGateAssumption DEF BillingGateAssumption, TypeOK, Months

\* Whatever a client does with settings it read, at most one more request is
\* past the check, and one more that the limit is about if they allow it.
LEMMA ProceedCounts ==
  ASSUME TypeOK, NEW c \in Clients, pc[c] \in {"read", "create"},
         NEW settings \in Rows \cup {Absent}, Proceed(c, settings)
  PROVE  /\ Cardinality(At("count")') = Cardinality(At("count"))
         /\ Cardinality(At("dispatch")') <= Cardinality(At("dispatch")) + 1
         /\ Passing \ {c} = Passing' \ {c}
         /\ c \in Passing' <=> c \in Mergers /\ ~Refused(settings) /\ Unpaid(settings)
<1>1. PICK p \in {"idle", "dispatch", "save"} : Goto(c, p)
  BY DEF Proceed, Answer
<1>2. /\ Cardinality(At("count")') = Cardinality(At("count"))
      /\ Cardinality(At("dispatch")') <= Cardinality(At("dispatch")) + 1
  <2>1. Cardinality(At("count")) \in Nat /\ Cardinality(At("dispatch")) \in Nat
    BY Numbers
  <2>2. Cardinality(At("count")') = Cardinality(At("count")) + (IF c \in Mergers /\ p = "count" THEN 1 ELSE 0)
                                    - (IF c \in Mergers /\ pc[c] = "count" THEN 1 ELSE 0)
    BY <1>1, JumpCounts
  <2>3. Cardinality(At("dispatch")') = Cardinality(At("dispatch")) + (IF c \in Mergers /\ p = "dispatch" THEN 1 ELSE 0)
                                    - (IF c \in Mergers /\ pc[c] = "dispatch" THEN 1 ELSE 0)
    BY <1>1, JumpCounts
  <2> QED
    BY <2>1, <2>2, <2>3
<1>3. \A d \in Mergers \ {c} : pc'[d] = pc[d] /\ seen'[d] = seen[d]
  BY DEF Proceed, Answer, Goto, TypeOK, Clients
<1>4. Passing \ {c} = Passing' \ {c}
  BY <1>3 DEF Passing
<1>5. CASE c \in Mergers /\ Refused(settings)
  <2>1. pc'[c] = "idle"
    BY <1>5 DEF Proceed, Answer, Goto, TypeOK
  <2> QED
    BY <1>2, <1>4, <1>5, <2>1 DEF Passing
<1>6. CASE ~(c \in Mergers /\ Refused(settings))
  <2>1. seen'[c] = settings /\ pc'[c] = IF c \in Savers THEN "save" ELSE "dispatch"
    BY <1>6 DEF Proceed, Goto, TypeOK
  <2>2. c \in Mergers => c \notin Savers
    BY BillingGateAssumption DEF BillingGateAssumption
  <2> QED
    BY <1>2, <1>4, <1>6, <2>1, <2>2 DEF Passing
<1> QED
  BY <1>5, <1>6

\* Steps that accept nothing and count nothing.
LEMMA CountKept ==
  ASSUME TypeOK, TypeOK', CountInv, UNCHANGED <<month, accepted>>,
         \/ row' = row
         \/ row = Absent /\ row' = DefaultSettings
         \/ row # Absent /\ row' # Absent /\ row'.used = row.used /\ row'.window = row.window,
         Cardinality(At("count")') + faults' >= Cardinality(At("count")) + faults,
         faults' >= faults,
         row = Absent /\ row' = Absent =>
           Cardinality(At("dispatch")') - faults' <= Cardinality(At("dispatch")) - faults
  PROVE  CountInv'
<1> DEFINE n == Cardinality(At("count"))
           d == Cardinality(At("dispatch"))
<1>1. /\ month \in Nat /\ faults \in Nat /\ n \in Nat /\ d \in Nat /\ month \in Months
      /\ \A m \in Months : m \in Nat /\ accepted[m] \in Nat
      /\ row # Absent => row.used \in Nat /\ row.window \in Months
  BY Numbers
<1>2. faults' \in Nat /\ n' \in Nat /\ d' \in Nat
  BY NumbersPrimed
<1>3. /\ \A m \in Months : m > month' => accepted'[m] = 0
      /\ row' = Absent => row = Absent
  BY DEF CountInv
<1>4. ASSUME row' = Absent, NEW m \in Months PROVE accepted'[m] + d' <= faults'
  BY <1>1, <1>2, <1>3, <1>4 DEF CountInv
<1>5. ASSUME row' # Absent, row = Absent
      PROVE  /\ row'.window <= month'
             /\ accepted'[row'.window] <= row'.used + n' + faults'
             /\ \A m \in Months : m > row'.window => accepted'[m] <= n' + faults'
  <2>1. row'.window = month /\ row'.used = 0
    BY <1>5 DEF DefaultSettings
  <2>2. accepted[month] + d <= faults /\ \A m \in Months : m > month => accepted[m] = 0
    BY <1>1, <1>5 DEF CountInv
  <2> QED
    BY <1>1, <1>2, <2>1, <2>2
<1>6. ASSUME row # Absent
      PROVE  /\ row'.window <= month'
             /\ accepted'[row'.window] <= row'.used + n' + faults'
             /\ \A m \in Months : m > row'.window => accepted'[m] <= n' + faults'
  <2>1. row'.window = row.window /\ row'.used = row.used
    BY <1>6
  <2>2. /\ row.window <= month
        /\ accepted[row.window] <= row.used + n + faults
        /\ \A m \in Months : m > row.window => accepted[m] <= n + faults
    BY <1>6 DEF CountInv
  <2>3. row.used \in Nat /\ row.window \in Nat /\ accepted[row.window] \in Nat
    BY <1>1, <1>6
  <2>4. \A m \in Months : m > row.window => accepted[m] <= n' + faults'
    BY <1>1, <1>2, <2>2
  <2>5. accepted[row.window] <= row.used + n' + faults'
    BY <1>1, <1>2, <2>2, <2>3
  <2> QED
    BY <2>1, <2>2, <2>4, <2>5
<1> QED
  BY <1>3, <1>4, <1>5, <1>6 DEF CountInv

\* Steps that accept nothing and let no request in.
LEMMA LimitKept ==
  ASSUME TypeOK, TypeOK', LimitInv, UNCHANGED <<month, accepted>>, faults' >= faults,
         Cardinality(Passing') - faults' <= Cardinality(Passing) - faults
  PROVE  LimitInv'
<1> DEFINE p == Cardinality(Passing)
           N == Cardinality(Mergers)
<1>1. /\ month \in Months /\ faults \in Nat /\ p \in Nat /\ N \in Nat /\ FreeLimit \in Nat
      /\ \A m \in Months : accepted[m] \in Nat
  BY Numbers
<1>2. faults' \in Nat /\ p' \in Nat
  BY NumbersPrimed
<1>3. ASSUME NEW m \in Months PROVE accepted'[m] <= FreeLimit + (N - 1) + faults'
  BY <1>1, <1>2 DEF LimitInv, OvershootBounded
<1>4. accepted'[month'] + p' <= FreeLimit + (N - 1) + faults'
  BY <1>1, <1>2 DEF LimitInv
<1> QED
  BY <1>3, <1>4 DEF LimitInv, OvershootBounded

\* A client reads the settings, or inserts them.
LEMMA ReadKeepsCount ==
  ASSUME TypeOK, TypeOK', CountInv, LimitInv, NEW c \in Clients, Read(c) \/ Create(c)
  PROVE  CountInv' /\ LimitInv'
<1> DEFINE n == Cardinality(At("count"))
           d == Cardinality(At("dispatch"))
           p == Cardinality(Passing)
           N == Cardinality(Mergers)
<1>1. /\ month \in Nat /\ faults \in Nat /\ n \in Nat /\ d \in Nat /\ p \in Nat /\ N \in Nat
      /\ FreeLimit \in Nat \ {0} /\ month \in Months
      /\ \A m \in Months : m \in Nat /\ accepted[m] \in Nat
      /\ row # Absent => row.used \in Nat /\ row.window \in Months
  BY Numbers
<1>2. faults' \in Nat /\ n' \in Nat /\ d' \in Nat /\ p' \in Nat
  BY NumbersPrimed
<1>3. /\ UNCHANGED <<month, accepted>>
      /\ pc[c] \in {"read", "create"}
      /\ faults' = faults \/ faults' = faults + 1
  BY DEF Read, Create, Fault, NoFault
<1>4. DefaultSettings \in Rows /\ DefaultSettings.plan = "free" /\ Absent \notin Rows
  BY RowFacts, BillingGateAssumption DEF TypeOK
<1>5. /\ At("count") \in SUBSET Mergers /\ At("count")' \in SUBSET Mergers
      /\ Passing \in SUBSET Mergers /\ Passing' \in SUBSET Mergers
      /\ Passing' \cap At("count")' = {}
  BY DEF At, Passing
<1>6. n' + p' <= N
  BY <1>5, CountsApart
\* The request finds no row.
<1>7. CASE Read(c) /\ row = Absent /\ Goto(c, "create") /\ UNCHANGED seen /\ NoFault
  <2>1. n' = n /\ d' = d
    BY <1>1, <1>2, <1>3, <1>7, JumpCounts
  <2>2. row' = row /\ faults' = faults
    BY <1>7 DEF Read, NoFault
  <2>3. CountInv'
    BY <1>1, <1>2, <1>3, <2>1, <2>2, CountKept
  <2>4. accepted[month] <= faults
    BY <1>1, <1>7 DEF CountInv
  <2>5. accepted'[month'] + p' <= FreeLimit + (N - 1) + faults'
    BY <1>1, <1>2, <1>3, <1>6, <2>2, <2>4
  <2> QED
    BY <1>3, <2>2, <2>3, <2>5 DEF LimitInv, OvershootBounded
\* It proceeds with settings: the row, the defaults, or none.
<1>8. ASSUME NEW settings \in Rows \cup {Absent}, Proceed(c, settings),
             \/ /\ pc[c] = "read" /\ row # Absent /\ settings = row
                /\ row' = row /\ faults' = faults
             \/ /\ pc[c] = "create" /\ settings = DefaultSettings
                /\ row' = (IF row = Absent THEN DefaultSettings ELSE row)
                /\ faults' = faults
             \/ settings = Absent /\ row' = row /\ faults' = faults + 1
      PROVE  CountInv' /\ LimitInv'
  <2>1. /\ n' = n /\ d' <= d + 1
        /\ Passing \ {c} = Passing' \ {c}
        /\ c \in Passing' <=> c \in Mergers /\ ~Refused(settings) /\ Unpaid(settings)
    BY <1>3, <1>8, ProceedCounts
  <2>2. CountInv'
    <3>1. row = Absent /\ row' = Absent => d' - faults' <= d - faults
      BY <1>1, <1>2, <1>4, <1>8, <2>1
    <3> QED
      BY <1>1, <1>2, <1>3, <1>8, <2>1, <3>1, CountKept
  <2>3. p' = p + (IF c \in Passing' THEN 1 ELSE 0) - (IF c \in Passing THEN 1 ELSE 0)
    BY <1>5, <2>1, CountChanges
  <2>4. CASE p' - faults' <= p - faults
    BY <1>1, <1>2, <1>3, <2>2, <2>4, LimitKept
  <2>5. CASE ~(p' - faults' <= p - faults)
    <3>1. c \in Passing' /\ c \notin Passing /\ faults' = faults
      BY <1>1, <1>2, <1>3, <2>3, <2>5
    <3>2. row # Absent /\ settings = row
      <4>1. c \in Mergers
        BY <3>1 DEF Passing
      <4> QED
        BY <1>1, <1>8, <3>1, <4>1 DEF Passing
    <3>3. row.used < FreeLimit /\ row.used \in Nat /\ row.window \in Months
      BY <1>1, <2>1, <3>1, <3>2 DEF Refused, Unpaid, CheckMergeAllowed
    <3>4. accepted[month] <= FreeLimit - 1 + n + faults
      <4>1. /\ row.window <= month
            /\ accepted[row.window] <= row.used + n + faults
            /\ month > row.window => accepted[month] <= n + faults
        BY <1>1, <3>2 DEF CountInv
      <4>2. row.window \in Nat
        BY <1>1, <3>3
      <4>3. CASE row.window = month
        BY <1>1, <3>3, <4>1, <4>3
      <4>4. CASE row.window < month
        BY <1>1, <4>1, <4>2, <4>4
      <4> QED
        BY <1>1, <4>1, <4>2, <4>3, <4>4
    <3>5. accepted'[month'] + p' <= FreeLimit + (N - 1) + faults'
      BY <1>1, <1>2, <1>3, <1>6, <2>1, <3>1, <3>4
    <3> QED
      BY <1>3, <2>2, <3>1, <3>5 DEF LimitInv, OvershootBounded
  <2> QED
    BY <2>2, <2>4, <2>5
<1>9. CASE Read(c)
  BY <1>7, <1>8, <1>9 DEF Read, Fault, NoFault, TypeOK
<1>10. CASE Create(c)
  BY <1>4, <1>8, <1>10 DEF Create, Upsert, Fault, NoFault
<1> QED
  BY <1>9, <1>10

\* A merge is accepted, or not.
LEMMA DispatchKeepsCount ==
  ASSUME TypeOK, TypeOK', CountInv, LimitInv, NEW c \in Mergers, DispatchMerge(c)
  PROVE  CountInv' /\ LimitInv'
<1> DEFINE n == Cardinality(At("count"))
           d == Cardinality(At("dispatch"))
           p == Cardinality(Passing)
           N == Cardinality(Mergers)
<1>1. /\ month \in Nat /\ faults \in Nat /\ n \in Nat /\ d \in Nat /\ p \in Nat /\ N \in Nat
      /\ FreeLimit \in Nat \ {0} /\ month \in Months
      /\ \A m \in Months : m \in Nat /\ accepted[m] \in Nat
      /\ row # Absent => row.used \in Nat /\ row.window \in Months
  BY Numbers
<1>2. n' \in Nat /\ d' \in Nat /\ p' \in Nat /\ accepted' \in [Months -> Nat]
  BY NumbersPrimed DEF TypeOK
<1>3. UNCHANGED <<row, month, faults>> /\ pc[c] = "dispatch" /\ c \in Clients
  BY DEF DispatchMerge, Clients
<1>4. /\ c \notin Passing' /\ Passing \ {c} = Passing' \ {c}
      /\ c \in Passing <=> Unpaid(seen[c])
  BY <1>3 DEF DispatchMerge, Goto, Answer, Passing, TypeOK, Clients
<1>5. p' = p - (IF c \in Passing THEN 1 ELSE 0)
  <2>1. Passing \in SUBSET Mergers /\ Passing' \in SUBSET Mergers
    BY DEF Passing
  <2>2. p' = p + (IF c \in Passing' THEN 1 ELSE 0) - (IF c \in Passing THEN 1 ELSE 0)
    BY <1>4, <2>1, CountChanges
  <2> QED
    BY <1>1, <1>4, <2>2
<1>6. CASE Answer(c) /\ UNCHANGED accepted
  <2>1. n' = n /\ d' = d - 1
    BY <1>1, <1>2, <1>3, <1>6, JumpCounts DEF Answer
  <2>2. CountInv'
    BY <1>1, <1>2, <1>3, <1>6, <2>1, CountKept
  <2>3. LimitInv'
    BY <1>1, <1>2, <1>3, <1>5, <1>6, LimitKept
  <2> QED
    BY <2>2, <2>3
<1>7. CASE /\ Goto(c, "count")
           /\ accepted' = IF Unpaid(seen[c]) THEN [accepted EXCEPT ![month] = @ + 1]
                          ELSE accepted
  <2>1. n' = n + 1 /\ d' = d - 1
    BY <1>1, <1>2, <1>3, <1>7, JumpCounts
  <2>2. /\ \A m \in Months : accepted'[m] \in Nat /\ accepted'[m] <= accepted[m] + 1
        /\ \A m \in Months \ {month} : accepted'[m] = accepted[m]
        /\ accepted'[month] + p' <= accepted[month] + p
    BY <1>1, <1>2, <1>4, <1>5, <1>7 DEF TypeOK
  <2>3. \A m \in Months : m > month' => accepted'[m] = 0
    BY <1>1, <1>3, <2>2 DEF CountInv
  <2>4. ASSUME row' = Absent, NEW m \in Months PROVE accepted'[m] + d' <= faults'
    BY <1>1, <1>2, <1>3, <2>1, <2>2, <2>4 DEF CountInv
  <2>5. ASSUME row' # Absent
        PROVE  /\ row'.window <= month'
               /\ accepted'[row'.window] <= row'.used + n' + faults'
               /\ \A m \in Months : m > row'.window => accepted'[m] <= n' + faults'
    <3>1. /\ row' = row /\ row.used \in Nat /\ row.window \in Months
          /\ row.window <= month
          /\ accepted[row.window] <= row.used + n + faults
          /\ \A m \in Months : m > row.window => accepted[m] <= n + faults
      BY <1>1, <1>3, <2>5 DEF CountInv
    <3>2. /\ accepted[row.window] \in Nat /\ accepted'[row.window] \in Nat
          /\ accepted'[row.window] <= accepted[row.window] + 1
      BY <1>1, <2>2, <3>1
    <3>4. accepted'[row.window] <= row.used + n' + faults'
      BY <1>1, <1>2, <1>3, <2>1, <3>1, <3>2
    <3>3. \A m \in Months : m > row.window => accepted'[m] <= n' + faults'
      BY <1>1, <1>2, <1>3, <2>1, <2>2, <3>1
    <3> QED
      BY <1>3, <3>1, <3>3, <3>4
  <2>6. accepted'[month'] + p' <= FreeLimit + (N - 1) + faults'
    BY <1>1, <1>2, <1>3, <2>2 DEF LimitInv
  <2>7. ASSUME NEW m \in Months PROVE accepted'[m] <= FreeLimit + (N - 1) + faults'
    BY <1>1, <1>2, <1>3, <2>2, <2>6 DEF LimitInv, OvershootBounded
  <2> QED
    BY <2>3, <2>4, <2>5, <2>6, <2>7 DEF CountInv, LimitInv, OvershootBounded
<1> QED
  BY <1>6, <1>7 DEF DispatchMerge, Unpaid

\* A merge is counted, or the count fails.
LEMMA CountingKeepsCount ==
  ASSUME TypeOK, TypeOK', CountInv, LimitInv, NEW c \in Mergers, CountMerge(c)
  PROVE  CountInv' /\ LimitInv'
<1> DEFINE n == Cardinality(At("count"))
           d == Cardinality(At("dispatch"))
           p == Cardinality(Passing)
<1>1. /\ month \in Nat /\ faults \in Nat /\ n \in Nat /\ d \in Nat /\ p \in Nat
      /\ month \in Months
      /\ \A m \in Months : m \in Nat /\ accepted[m] \in Nat
      /\ row # Absent => row.used \in Nat /\ row.window \in Months
  BY Numbers
<1>2. n' \in Nat /\ d' \in Nat /\ p' \in Nat /\ faults' \in Nat
  BY NumbersPrimed
<1>3. /\ UNCHANGED <<month, accepted>> /\ pc[c] = "count" /\ c \in Clients
      /\ Answer(c) /\ Goto(c, "idle")
  BY DEF CountMerge, Clients, Answer
<1>4. n' = n - 1 /\ d' = d
  BY <1>1, <1>2, <1>3, JumpCounts
<1>5. p' = p
  <2>1. Passing' = Passing
    BY <1>3 DEF Answer, Goto, Passing, TypeOK, Clients
  <2> QED
    BY <2>1
<1>6. faults' = faults \/ faults' = faults + 1
  BY DEF CountMerge, Fault, NoFault
<1>7. LimitInv'
  BY <1>1, <1>2, <1>3, <1>5, <1>6, LimitKept
<1>8. CASE UNCHANGED row /\ (faults' = faults + 1 \/ row = Absent)
  <2>1. CASE faults' = faults + 1
    BY <1>1, <1>2, <1>3, <1>4, <1>7, <1>8, <2>1, CountKept
  <2>2. CASE row = Absent /\ faults' = faults
    BY <1>3, <1>4, <1>7, <1>8, <2>2 DEF CountInv
  <2> QED
    BY <1>6, <1>8, <2>1, <2>2
<1>9. CASE row # Absent /\ IncrementMergeCount /\ faults' = faults
  <2>1. /\ row.used \in Nat /\ row.window \in Months /\ row.window \in Nat
        /\ row.window <= month
        /\ accepted[row.window] <= row.used + n + faults
        /\ \A m \in Months : m > row.window => accepted[m] <= n + faults
        /\ \A m \in Months : m > month => accepted[m] = 0
    BY <1>1, <1>9 DEF CountInv
  <2>2. row' # Absent /\ row \in Rows
    BY <1>9, IncrementTyped, RowFacts, BillingGateAssumption DEF TypeOK
  <2>3. CASE row.window < month
    <3>1. row'.used = 1 /\ row'.window = month
      BY <1>9, <2>2, <2>3 DEF IncrementMergeCount, Rows
    <3>2. accepted[month] <= 1 + n' + faults'
      BY <1>1, <1>2, <1>4, <1>9, <2>1, <2>3
    <3>3. \A m \in Months : m > month => accepted[m] <= n' + faults'
      BY <1>1, <1>2, <2>1
    <3> QED
      BY <1>1, <1>3, <1>7, <2>1, <2>2, <3>1, <3>2, <3>3 DEF CountInv
  <2>4. CASE ~(row.window < month)
    <3>1. row'.used = row.used + 1 /\ row'.window = row.window
      BY <1>9, <2>2, <2>4 DEF IncrementMergeCount, Rows
    <3>2. accepted[row.window] <= row.used + 1 + n' + faults'
      BY <1>1, <1>2, <1>4, <1>9, <2>1
    <3>3. \A m \in Months : m > row.window => accepted[m] <= n' + faults'
      BY <1>1, <1>2, <2>1, <2>4
    <3> QED
      BY <1>1, <1>3, <1>7, <2>1, <2>2, <3>1, <3>2, <3>3 DEF CountInv
  <2> QED
    BY <2>3, <2>4
<1> QED
  BY <1>8, <1>9 DEF CountMerge, IncrementMergeCount, Fault, NoFault

\* No interleaving of merge requests, saves, callbacks and turns of the month
\* disturbs the counts.
LEMMA CountsHold == Spec => [](CountInv /\ LimitInv)
<1>1. Init => CountInv /\ LimitInv
  <2> SUFFICES ASSUME Init PROVE CountInv /\ LimitInv
    OBVIOUS
  <2>1. At("dispatch") = {} /\ Passing = {}
    BY DEF Init, At, Passing, Clients
  <2>2. Cardinality(At("dispatch")) = 0 /\ Cardinality(Passing) = 0
    BY <2>1, FS_EmptySet
  <2>3. Cardinality(Mergers) \in Nat /\ FreeLimit \in Nat \ {0} /\ 0 \in Months
    BY MergersCount, BillingGateAssumption DEF BillingGateAssumption, Months
  <2> QED
    BY <2>2, <2>3 DEF Init, CountInv, LimitInv, OvershootBounded, Months
<1>2. TypeOK /\ TypeOK' /\ CountInv /\ LimitInv /\ [Next]_vars => CountInv' /\ LimitInv'
  <2> SUFFICES ASSUME TypeOK, TypeOK', CountInv, LimitInv, [Next]_vars
               PROVE  CountInv' /\ LimitInv'
    OBVIOUS
  <2> DEFINE n == Cardinality(At("count"))
             d == Cardinality(At("dispatch"))
             p == Cardinality(Passing)
             N == Cardinality(Mergers)
  <2>1. /\ month \in Nat /\ faults \in Nat /\ n \in Nat /\ d \in Nat /\ p \in Nat /\ N \in Nat
        /\ FreeLimit \in Nat \ {0} /\ month \in Months
        /\ \A m \in Months : m \in Nat /\ accepted[m] \in Nat
        /\ row # Absent => row.used \in Nat /\ row.window \in Months
    BY Numbers
  <2>2. faults' \in Nat /\ n' \in Nat /\ d' \in Nat /\ p' \in Nat
    BY NumbersPrimed
  \* Steps that move no merge request between the statements that matter.
  <2>3. ASSUME UNCHANGED <<month, accepted>>, n' = n, d' = d, p' = p,
               faults' = faults \/ faults' = faults + 1,
               \/ row' = row
               \/ row = Absent /\ row' = DefaultSettings
               \/ row # Absent /\ row' # Absent /\ row'.used = row.used /\ row'.window = row.window
        PROVE  CountInv' /\ LimitInv'
    <3>1. CountInv'
      BY <2>1, <2>2, <2>3, CountKept
    <3>2. LimitInv'
      BY <2>1, <2>2, <2>3, LimitKept
    <3> QED
      BY <3>1, <3>2
  <2>4. ASSUME NEW c \in Clients, Start(c) PROVE CountInv' /\ LimitInv'
    <3>1. /\ pc[c] = "idle" /\ Goto(c, "read")
          /\ UNCHANGED <<row, month, seen, faults, accepted>>
      BY <2>4 DEF Start
    <3>2. n' = n /\ d' = d
      BY <2>1, <2>2, <3>1, JumpCounts
    <3>3. Passing' = Passing
      BY <3>1 DEF Goto, Passing, TypeOK, Clients
    <3> QED
      BY <2>3, <3>1, <3>2, <3>3
  <2>5. ASSUME NEW c \in Clients, Read(c) \/ Create(c) PROVE CountInv' /\ LimitInv'
    BY <2>5, ReadKeepsCount
  <2>6. ASSUME NEW c \in Mergers, DispatchMerge(c) PROVE CountInv' /\ LimitInv'
    BY <2>6, DispatchKeepsCount
  <2>7. ASSUME NEW c \in Mergers, CountMerge(c) PROVE CountInv' /\ LimitInv'
    BY <2>7, CountingKeepsCount
  <2>8. ASSUME NEW c \in Savers, SaveSettings(c) PROVE CountInv' /\ LimitInv'
    <3>1. /\ c \notin Mergers /\ c \in Clients /\ pc[c] = "save"
          /\ Answer(c) /\ Goto(c, "idle")
          /\ UNCHANGED <<month, accepted>>
          /\ \/ row' = row
             \/ row = Absent /\ row' = DefaultSettings
          /\ faults' = faults \/ faults' = faults + 1
      BY <2>8, BillingGateAssumption
         DEF BillingGateAssumption, SaveSettings, Answer, Upsert, Fault, NoFault, Clients
    <3>2. n' = n /\ d' = d
      BY <2>1, <2>2, <3>1, JumpCounts
    <3>3. Passing' = Passing
      BY <3>1 DEF Answer, Goto, Passing, TypeOK, Clients
    <3> QED
      BY <2>3, <3>1, <3>2, <3>3
  <2>9. ASSUME UNCHANGED clientVars, UNCHANGED <<row, month, accepted>>, Fault \/ NoFault
        PROVE  CountInv' /\ LimitInv'
    BY <2>3, <2>9 DEF clientVars, At, Passing, Fault, NoFault
  <2>10. ASSUME NEW ch \in Charges, Subscribe(ch) \/ Decide(ch)
         PROVE  CountInv' /\ LimitInv'
    BY <2>9, <2>10 DEF Subscribe, Decide, NoFault
  <2>14. ASSUME NEW ch \in Charges, NEW plan \in PaidPlans, Verify(ch, plan)
         PROVE  CountInv' /\ LimitInv'
    BY <2>9, <2>14 DEF Verify, NoFault
  <2>11. ASSUME NEW ch \in Charges, NEW plan \in PaidPlans, Activate(ch, plan)
         PROVE  CountInv' /\ LimitInv'
    <3>1. UNCHANGED <<month, accepted, pc, seen>> /\ (Fault \/ NoFault)
      BY <2>11 DEF Activate, clientVars
    <3>2. CASE row' = row
      BY <2>9, <3>1, <3>2 DEF clientVars
    <3>3. CASE row # Absent /\ row' = [row EXCEPT !.plan = plan]
      <4>1. row \in Rows /\ plan \in PaidPlans /\ Absent \notin Rows
        BY <3>3, RowFacts, BillingGateAssumption DEF TypeOK
      <4>2. row' \in Rows /\ row'.used = row.used /\ row'.window = row.window
        BY <3>3, <4>1 DEF Rows
      <4>3. n' = n /\ d' = d /\ p' = p /\ (faults' = faults \/ faults' = faults + 1)
        BY <3>1 DEF At, Passing, Fault, NoFault
      <4> QED
        BY <2>3, <3>1, <3>3, <4>1, <4>2, <4>3
    <3> QED
      BY <2>11, <3>2, <3>3 DEF Activate, UpdatePlan
  <2>12. CASE NextMonth
    <3>1. /\ month' = month + 1 /\ month' \in Months
          /\ UNCHANGED <<row, pc, seen, faults, accepted>>
      BY <2>12, NumbersPrimed DEF NextMonth, clientVars
    <3>2. n' = n /\ d' = d /\ p' = p
      BY <3>1 DEF At, Passing
    <3>3. CountInv'
      <4>1. \A m \in Months : m > month' => accepted'[m] = 0
        BY <2>1, <3>1 DEF CountInv
      <4>2. row' = Absent => \A m \in Months : accepted'[m] + d' <= faults'
        BY <3>1, <3>2 DEF CountInv
      <4>3. row # Absent => row.window \in Nat /\ row.window <= month
        BY <2>1 DEF CountInv
      <4>4. row' # Absent =>
              /\ row'.window <= month'
              /\ accepted'[row'.window] <= row'.used + n' + faults'
              /\ \A m \in Months : m > row'.window => accepted'[m] <= n' + faults'
        BY <2>1, <3>1, <3>2, <4>3 DEF CountInv
      <4> QED
        BY <4>1, <4>2, <4>4 DEF CountInv
    <3>4. p <= N
      BY MergersCount DEF Passing
    <3>5. accepted'[month'] = 0
      BY <2>1, <3>1 DEF CountInv
    <3>6. accepted'[month'] + p' <= FreeLimit + (N - 1) + faults'
      BY <2>1, <3>1, <3>2, <3>4, <3>5
    <3> QED
      BY <3>1, <3>3, <3>6 DEF LimitInv, OvershootBounded
  <2>13. CASE UNCHANGED vars
    BY <2>9, <2>13 DEF vars, clientVars, NoFault
  <2> QED
    BY <2>4, <2>5, <2>6, <2>7, <2>8, <2>10, <2>11, <2>12, <2>13,
       <2>14 DEF Next
<1> QED
  BY <1>1, <1>2, TypeCorrect, PTL DEF Spec

\* However many requests pass the check before the first of them counts, a free
\* shop has at most one merge too many for each of the other clients and for
\* each call whose failure is ignored (merge_handler.go:61).
THEOREM OvershootIsBounded == Spec => []OvershootBounded
<1>1. LimitInv => OvershootBounded
  BY DEF LimitInv
<1> QED
  BY <1>1, CountsHold, PTL

\* The counter forgets no merge of its month: the reset of a new month, the
\* saves and the insert of the defaults take none back (settings_repo.go:48).
THEOREM CounterCovers == Spec => []CounterCoversMerges
<1>1. CountInv => CounterCoversMerges
  BY DEF CountInv, CounterCoversMerges, At
<1> QED
  BY <1>1, CountsHold, PTL
=============================================================================
