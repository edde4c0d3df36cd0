------------------------------- MODULE Reports -------------------------------
(***************************************************************************)
(* What is said of a group of customers before anything is merged, and the   *)
(* checks that stand in the way of a merge: conflicts, readiness and the      *)
(* recommended primary (internal/services/intelligence), anchors, business    *)
(* risk and the risk level (internal/services/identity), the validators       *)
(* (internal/services/merge).  A group is a sequence of rows.                *)
(***************************************************************************)
EXTENDS Scoring

\* The different non-empty values of a field, given for each row of a group.
Values(fields, empty) == Range(fields) \ {empty}

Differ(S) == Cardinality(S) > 1

Tags(rows) == UNION {rows[i].tags : i \in DOMAIN rows}

\* extractPhoneCountryCode: up to three digits after the "+".
CountryCode(phone) ==
  IF phone # <<>> /\ phone[1] = "+" THEN SubSeq(phone, 2, Min({4, Len(phone)})) ELSE <<>>

HasExactIdentityAnchor(rows) ==
  \E i, j \in DOMAIN rows :
    /\ i # j
    /\ \/ rows[i].email = rows[j].email /\ rows[i].email # NoEmail
       \/ rows[i].phone = rows[j].phone /\ rows[i].phone # <<>>

RiskTags == {"fraud", "chargeback", "blocked", "disputed", "high_risk"}

\* A conflict that blocks cannot be resolved by choosing a field.
Conflict(type, severity, blocking) ==
  [type |-> type, severity |-> severity, blocking |-> blocking]

\* DetectConflicts.  The country code is taken from a number that has lost its
\* "+", so it is empty and never differs.
DetectConflicts(rows) ==
  LET orders == UNION {rows[i].orderAddresses : i \in DOMAIN rows}
      when(holds, conflict) == IF holds /\ Len(rows) >= 2 THEN {conflict} ELSE {}
  IN  when(Differ(Values([i \in DOMAIN rows |-> Country(rows[i].address)], "")),
           Conflict("different_countries", "high", TRUE))
      \cup when(Differ(Values([i \in DOMAIN rows |-> LastToken(rows[i].name)], <<>>)),
                Conflict("different_last_names", "medium", FALSE))
      \cup when(\E i \in DOMAIN rows : rows[i].state = "disabled",
                Conflict("disabled_account", "high", TRUE))
      \cup when(Differ(Values([i \in DOMAIN rows |->
                                CountryCode(NormalizePhone(rows[i].phone))], <<>>)),
                Conflict("different_phone_country_codes", "medium", FALSE))
      \cup when(Differ({o.country : o \in orders} \ {""}) /\ ~HasExactIdentityAnchor(rows),
                Conflict("order_country_mismatch", "high", FALSE))
      \cup when(Tags(rows) \cap RiskTags # {}, Conflict("risk_tag", "high", TRUE))

Severity(conflicts) ==
  LET found == {c.severity : c \in conflicts}
  IN  IF "high" \in found THEN "high" ELSE IF "medium" \in found THEN "medium" ELSE ""

\* The conflict types a shop does not want as blockers.
OptedOut(settings) ==
  (IF settings.blockDisabledAccounts THEN {} ELSE {"disabled_account"})
    \cup (IF settings.blockFraudTags THEN {} ELSE {"risk_tag"})
    \cup (IF settings.blockDifferentCountry THEN {} ELSE {"different_countries"})

\* Variant: tags do not count.
AdjustedWithoutTags(conflicts, settings) ==
  Severity({c \in conflicts : c.type \notin OptedOut(settings) \cup {"risk_tag"}})

\* adjustedConflictSeverity.
AdjustedSeverity(conflicts, settings) ==
  Severity({c \in conflicts : c.type \notin OptedOut(settings)})

\* ValidateFinalProfile, as ValidateProfile calls it without an acknowledgement
\* of the disabled account: what blocks the merge for good.
BlockingConflicts(rows, settings) ==
  {c \in DetectConflicts(rows) : c.blocking /\ c.type \notin OptedOut(settings)}

\* Validator.Validate.
ValidatorAccepts(rows) ==
  Tags(rows) \cap {"subscriber", "active_subscription", "subscription"} = {}

-----------------------------------------------------------------------------
\* Anchors and business risk.  Points in hundredths, spend in whole units, ages
\* in months or None.

\* The points of a value: those of the first bound it reaches.
Points(value, steps) ==
  FirstOf([k \in DOMAIN steps |-> <<value # None /\ value >= steps[k][1], steps[k][2]>>], 0)

AnchorParts(row) ==
  <<IF row.verified THEN 30 ELSE 0,
    Points(row.orders, <<<<10, 25>>, <<3, 15>>, <<1, 8>>>>),
    Points(row.age,    <<<<24, 25>>, <<6, 15>>, <<1, 5>>>>),
    Points(row.spent,  <<<<500, 20>>, <<100, 12>>, <<10, 5>>>>)>>

\* anchorScore at the threshold: 0.3 + 0.15 + 0.05 is below 0.5 in floating point.
IsAnchor(row) ==
  LET p == AnchorParts(row)
      score == p[1] + p[2] + p[3] + p[4]
  IN  score > 50 \/ (score = 50 /\ {p[k] : k \in 1..4} # {30, 15, 5, 0})

\* Max - min of some numbers, 0 for none.
Spread(S) == IF S = {} THEN 0 ELSE Max(S) - Min(S)

\* computeBusinessRiskLevel on the figures of ComputeBusinessRisk.
BusinessRisk(rows) ==
  LET spends == {rows[i].spent : i \in DOMAIN rows}
      top    == Max(spends)
      orders == Spread({rows[i].orders : i \in DOMAIN rows})
      ages   == Spread(Values([i \in DOMAIN rows |-> rows[i].age], None))
  IN  FirstOf(<< <<top >= 1000 /\ Spread(spends) >= 500, "high">>,
                 <<orders >= 20 /\ top >= 200, "high">>,
                 <<top >= 500 /\ Spread(spends) >= 200, "medium">>,
                 <<orders >= 10 /\ top >= 100, "medium">>,
                 <<ages >= 36 /\ top >= 100, "medium">>,
                 <<top > 0, "low">> >>, "")

\* Cluster size times average spend.
ImpactScore(rows) == MapThenSumSet(LAMBDA i : rows[i].spent, DOMAIN rows)

\* classifyRisk: the first rule that applies.
ClassifyRisk(in) ==
  LET reviewFrom(floor) == IF in.confidence >= floor THEN "review" ELSE "risky" IN
  FirstOf(<<
    <<in.severity = "high", "risky">>,
    <<in.severity = "medium", reviewFrom(900)>>,
    <<in.business = "high", reviewFrom(900)>>,
    <<in.business = "medium" /\ in.confidence >= 900, "review">>,
    <<in.impact >= 1000 /\ in.confidence >= 900, "review">>,
    <<in.weakLinkProtection /\ in.weakest < 700, reviewFrom(750)>>,
    <<in.sparse, reviewFrom(750)>>,
    <<in.requireAnchor /\ ~in.anchored, reviewFrom(900)>>,
    <<in.confidence >= 900, "safe">> >>, reviewFrom(750))

-----------------------------------------------------------------------------
\* The report of a group.

\* An unknown age loses to a known one; the code does not say the converse.
Older(row, best) == row.age # None /\ (best.age = None \/ row.age > best.age)

BetterPrimary(row, best) ==
  FirstOf(<<
    <<row.verified # best.verified, row.verified>>,
    <<row.orders # best.orders, row.orders > best.orders>>,
    <<row.spent # best.spent, row.spent > best.spent>>,
    <<Older(row, best), TRUE>>,
    <<row.age # None /\ row.age # best.age, FALSE>> >>, row.updated > best.updated)

\* recommendPrimary: the index of the row that stays best going through the group.
RecommendPrimary(rows) ==
  LET best[i \in DOMAIN rows] ==
        IF i = 1 THEN 1
        ELSE IF BetterPrimary(rows[i], rows[best[i - 1]]) THEN i ELSE best[i - 1]
  IN  best[Len(rows)]

SubscriptionTagKeywords == {"subscriber", "subscription", "active_subscription",
                            "vip_subscriber", "membership", "active_member"}
RiskTagKeywords == {"chargeback", "fraud", "flagged", "disputed", "high_risk", "blocked"}

\* scoreReadiness: 100 less the penalties.
Readiness(rows) ==
  LET penalty(row) ==
        (IF row.email = NoEmail THEN 15 ELSE 0) + (IF row.phone = <<>> THEN 5 ELSE 0)
          + 30 * Cardinality(row.tags \cap SubscriptionTagKeywords)
          + 20 * Cardinality(row.tags \cap RiskTagKeywords)
      total == MapThenSumSet(LAMBDA i : penalty(rows[i]), DOMAIN rows)
                 + (IF Differ(Values([i \in DOMAIN rows |-> NormalizePhone(rows[i].phone)],
                                     <<>>))
                    THEN 10 ELSE 0)
  IN  Max({0, 100 - total})

\* buildSimulation: what the surviving customer would have.
Simulation(rows) ==
  [orders |-> MapThenSumSet(LAMBDA i : rows[i].orders, DOMAIN rows),
   tags   |-> Tags(rows),
   emailsDiffer |-> Differ(Values([i \in DOMAIN rows |-> NormalizeEmail(rows[i].email)], NoEmail)),
   phonesDiffer |-> Differ(Values([i \in DOMAIN rows |-> NormalizePhone(rows[i].phone)], <<>>))]
=============================================================================
