------------------------------ MODULE Detection ------------------------------
(***************************************************************************)
(* One run of the duplicate detection over the customers of a shop           *)
(* (internal/services/identity/detector.go and cluster.go): pairs are looked  *)
(* for in buckets and scored, the pairs that pass the guards are joined in a  *)
(* union-find, and every group gets a risk level and a report.  The code goes *)
(* through Go maps, whose order is random: pairs are joined, and the members  *)
(* of a group listed, in any order.  A customer is its index in customers.    *)
(***************************************************************************)
EXTENDS Reports

CONSTANTS Inputs,            \* what the cache may hold: sequences of rows
          Preferences,           \* the settings the shop may have
          CrossDomainLimit   \* customers up to which all names are compared (500)

ASSUME DetectionAssumption ==
  /\ \A rows \in Inputs : IsSequence(rows) /\ \A i \in DOMAIN rows : IsRow(rows[i])
  /\ CrossDomainLimit \in Nat

VARIABLES phase,       \* "load", "cluster" or "done"
          customers,   \* the rows, as the cache has them
          settings,
          pairs,       \* the scored pairs: [a, b, score, sig] with a < b
          todo,        \* those ClusterPairs has not looked at
          parent, rank,   \* the union-find
          reports      \* the groups written

vars == <<phase, customers, settings, pairs, todo, parent, rank, reports>>

Ids == DOMAIN customers

-----------------------------------------------------------------------------
\* scorePairs.

\* The rows the detector works on: normalized in place.
Normalized(rows) == [i \in DOMAIN rows |-> NormalizeRow(rows[i])]

DomainKey(row) == EmailDomain(row.email)   \* all without one share a bucket

\* Variant: a number needs ten digits to have a bucket.
PhoneKeyLong(row) ==
  IF Len(row.phone) < 10 THEN <<>> ELSE SubSeq(row.phone, Len(row.phone) - 9, Len(row.phone))

\* "" for a number too short to have a bucket.
PhoneKey(row) ==
  IF Len(row.phone) < 7 THEN <<>> ELSE SubSeq(row.phone, Len(row.phone) - 6, Len(row.phone))

\* addressBucketKey: the street without its unit, city and zip.
AddressKey(row) ==
  IF row.address = NoAddress \/ row.address.city \o row.address.zip = <<>> THEN <<>>
  ELSE <<row.address.street, row.address.city, row.address.zip>>

NameSim(row, other) == JaroWinkler(Spelled(row.name), Spelled(other.name))

SameBucket(row, other) ==
  \/ DomainKey(row) = DomainKey(other)
  \/ PhoneKey(row) = PhoneKey(other) /\ PhoneKey(row) # <<>>
  \/ AddressKey(row) = AddressKey(other) /\ AddressKey(row) # <<>>

MinConfidence == 300

ScoredPair(rows, i, j, options) ==
  LET s == ScorePair(rows[i], rows[j], options)
  IN  [a |-> i, b |-> j, score |-> s.score, sig |-> s.sig]

ScorePairs(rows, options) ==
  LET alikeAcross(i, j) == Len(rows) <= CrossDomainLimit /\ NameSim(rows[i], rows[j]) >= 820
      found == {p \in (DOMAIN rows) \X (DOMAIN rows) :
                  /\ p[1] < p[2]
                  /\ SameBucket(rows[p[1]], rows[p[2]]) \/ alikeAcross(p[1], p[2])}
      scored == {ScoredPair(rows, p[1], p[2], options) : p \in found}
  IN  {p \in scored : p.score >= MinConfidence}

-----------------------------------------------------------------------------
\* ClusterPairs.

\* A high name and a partial address suffice, although cluster_test.go says no.
HasStrongSignal(s) ==
  \/ s.emailExact \/ s.phoneExact \/ s.orderAddressExact \/ s.addressExact
  \/ s.nameHigh /\ (s.addressPartial \/ s.orderAddressPartial \/ s.emailLocalExact \/ s.phoneSuffix)

BestScore(all, i) == Max({p.score : p \in {q \in all : i \in {q.a, q.b}}})

\* At least 90% of the best: in floating point 0.72 is below 0.90 * 0.80 (but for
\* an 0.80 that is 0.85 less a penalty of 0.05, an exception not made here).
Close(score, best) == 10 * score >= 9 * best /\ <<score, best>> # <<720, 800>>

DefaultThreshold == 650
AbsoluteFloor    == 700

Accepted(p, all) ==
  /\ HasStrongSignal(p.sig)
  /\ p.score >= DefaultThreshold
  /\ p.score >= AbsoluteFloor
  /\ \A i \in {p.a, p.b} : Close(p.score, BestScore(all, i))

\* The nodes from i up to its root, and Find's effect on them.
Chain(up, i) ==
  LET above[k \in 0..Cardinality(DOMAIN up)] == IF k = 0 THEN i ELSE up[above[k - 1]]
  IN  {above[k] : k \in DOMAIN above}

Root(up, i) == CHOOSE r \in Chain(up, i) : up[r] = r

Compress(up, i) == [j \in DOMAIN up |-> IF j \in Chain(up, i) THEN Root(up, i) ELSE up[j]]

\* Variant: joining a tree with itself makes it grow.
GrowsAlways(ra, rb) == rank[ra] = rank[rb]

\* A tree grows when it takes one as high as itself.
Grows(ra, rb) == ra # rb /\ rank[ra] = rank[rb]

\* Union(a, b): the root of lower rank goes under the other.
Union(a, b) ==
  LET up == Compress(Compress(parent, a), b)
      ra == up[a]
      rb == up[b]
      top == IF rank[ra] < rank[rb] THEN rb ELSE ra
      low == IF top = ra THEN rb ELSE ra
  IN  /\ parent' = [up EXCEPT ![low] = top]
      /\ rank' = IF Grows(ra, rb) THEN [rank EXCEPT ![top] = @ + 1] ELSE rank

Cluster(r) == {i \in Ids : Root(parent, i) = r}

Clusters == {Cluster(i) : i \in Ids} \ ({{i} : i \in Ids} \cup {{}})

-----------------------------------------------------------------------------
\* RunDetection, from the clusters on.

PairsWithin(group) == {p \in pairs : p.a \in group /\ p.b \in group}

TopScore(group) == Max({p.score : p \in PairsWithin(group)})

WeakestClusterEdge(group) == Min({p.score : p \in PairsWithin(group)})

\* ClusterDensity < 0.60.
Sparse(group) ==
  LET n == Cardinality(group)
  IN  n > 2 /\ 10 * Cardinality(PairsWithin(group)) < 6 * ((n * (n - 1)) \div 2)

\* gatherMembers: the rows of the members, in the order the ids came.
GatherMembers(order) == [k \in DOMAIN order |-> Normalized(customers)[order[k]]]

Risk(group, rows) ==
  ClassifyRisk([
    confidence |-> TopScore(group),
    severity   |-> AdjustedSeverity(DetectConflicts(rows), settings),
    business   |-> BusinessRisk(rows),
    impact     |-> ImpactScore(rows),
    weakest    |-> WeakestClusterEdge(group),
    sparse     |-> Sparse(group),
    anchored   |-> \E k \in DOMAIN rows : IsAnchor(rows[k]),
    weakLinkProtection |-> settings.weakLinkProtection,
    requireAnchor      |-> settings.requireAnchor])

\* The group as it is stored; the pairwise severity the code computes as well is
\* used by nothing.
Report(order) ==
  LET rows  == GatherMembers(order)
      group == {order[k] : k \in DOMAIN order}
  IN  [members   |-> group,
       risk      |-> Risk(group, rows),
       conflicts |-> DetectConflicts(rows),
       primary   |-> order[RecommendPrimary(rows)],
       readiness |-> Readiness(rows),
       simulation |-> Simulation(rows)]

\* Fewer than two customers: nothing to compare.
TooFew ==
  /\ phase = "load"
  /\ Len(customers) < 2
  /\ phase' = "done"
  /\ UNCHANGED <<customers, settings, pairs, todo, parent, rank, reports>>

Score ==
  /\ phase = "load"
  /\ Len(customers) >= 2
  /\ phase' = "cluster"
  /\ pairs' = ScorePairs(Normalized(customers), settings.signals)
  /\ todo' = pairs'
  /\ UNCHANGED <<customers, settings, parent, rank, reports>>

Join(p) ==
  /\ phase = "cluster"
  /\ p \in todo
  /\ todo' = todo \ {p}
  /\ IF Accepted(p, pairs) THEN Union(p.a, p.b) ELSE UNCHANGED <<parent, rank>>
  /\ UNCHANGED <<phase, customers, settings, pairs, reports>>

Classify(group) ==
  /\ phase = "cluster"
  /\ todo = {}
  /\ group \in Clusters
  /\ group \notin {r.members : r \in reports}
  /\ \E order \in SetToSeqs(group) : reports' = reports \cup {Report(order)}
  /\ UNCHANGED <<phase, customers, settings, pairs, todo, parent, rank>>

Finish ==
  /\ phase = "cluster"
  /\ todo = {}
  /\ Clusters = {r.members : r \in reports}
  /\ phase' = "done"
  /\ UNCHANGED <<customers, settings, pairs, todo, parent, rank, reports>>

Init ==
  /\ phase = "load"
  /\ customers \in Inputs
  /\ settings \in Preferences
  /\ pairs = {}
  /\ todo = {}
  /\ parent = [i \in Ids |-> i]
  /\ rank = [i \in Ids |-> 0]
  /\ reports = {}

Next ==
  \/ TooFew
  \/ Score
  \/ \E p \in todo : Join(p)
  \/ \E group \in Clusters : Classify(group)
  \/ Finish

Spec == Init /\ [][Next]_vars

-----------------------------------------------------------------------------
\* Properties.

\* 2^k.
PowerOfTwo(k) ==
  LET upto[j \in 0..k] == IF j = 0 THEN 1 ELSE 2 * upto[j - 1]
  IN  upto[k]

\* Every variable has its type; in the union-find every customer reaches a root,
\* and a root of rank k has at least 2^k customers under it, so that Find stays
\* short (cluster.go, Find and Union).
TypeOK ==
  /\ phase \in {"load", "cluster", "done"}
  /\ todo \subseteq pairs
  /\ \A p \in pairs : p.a \in Ids /\ p.b \in Ids /\ p.a < p.b /\ p.score \in MinConfidence..1000
  /\ parent \in [Ids -> Ids]
  /\ rank \in [Ids -> 0..Len(customers)]
  /\ \A i \in Ids : \E r \in Chain(parent, i) : parent[r] = r
  /\ \A i \in Ids : parent[i] = i => PowerOfTwo(rank[i]) <= Cardinality(Cluster(i))
  /\ \A r \in reports : r.risk \in {"safe", "review", "risky"} /\ r.readiness \in 0..100

\* The pairs the buckets cannot see: equal phones too short for a bucket, and the
\* same local part and order address (a behavioral rule) under unlike names.
BlindSpot(p) ==
  LET row(i) == Normalized(customers)[i] IN
  \/ p.sig.phoneExact /\ Len(row(p.a).phone) < 7
  \/ /\ p.sig.orderAddressExact /\ p.sig.emailLocalExact
     /\ NameSim(row(p.a), row(p.b)) < 820

\* What scoring every pair of customers would find.
AllPairs ==
  LET scored == {ScoredPair(Normalized(customers), e[1], e[2], settings.signals) :
                   e \in {f \in Ids \X Ids : f[1] < f[2]}}
  IN  {p \in scored : p \in pairs \/ (p.score >= MinConfidence /\ ~BlindSpot(p))}

Reference == IF Len(customers) <= CrossDomainLimit THEN AllPairs ELSE pairs

\* i and j are joined by links when every set of customers closed under them that
\* has i has j.
Linked(i, j, links) ==
  \A S \in SUBSET Ids :
    (i \in S /\ \A p \in links : (p.a \in S) = (p.b \in S)) => j \in S

\* Whatever the order in which the pairs come out of the buckets, the groups are
\* the connected components of the accepted pairs, accepted among all pairs of
\* customers: the buckets lose nothing, outside their blind spots, that would
\* join two customers or change whose best score a pair is compared with
\* (detector.go, scorePairs; cluster.go, ClusterPairs).
GroupsAreComponents ==
  (phase = "cluster" /\ todo = {} /\ reports = {}) =>
    LET all   == Reference
        links == {p \in all : Accepted(p, all)}
    IN  \A i, j \in Ids : (Root(parent, i) = Root(parent, j)) <=> Linked(i, j, links)

AgreesWithGates(r) ==
  LET rows == [k \in 1..Cardinality(r.members) |-> customers[SetToSeq(r.members)[k]]]
      best == customers[r.primary]
  IN  /\ r.risk = "safe" => BlockingConflicts(rows, settings) = {}
      /\ r.readiness = 100 =>
           /\ ValidatorAccepts(rows)
           /\ "risk_tag" \notin {c.type : c \in DetectConflicts(rows)}
           /\ ~r.simulation.phonesDiffer
      /\ \A i \in r.members :
           LET row == customers[i] IN
           /\ row.verified => best.verified
           /\ row.verified = best.verified => row.orders <= best.orders
           /\ (row.verified = best.verified /\ row.orders = best.orders) =>
                row.spent <= best.spent

\* Three things that a report says hold when the group is merged: a safe group,
\* which is merged in bulk unseen, has no conflict the profile validation would
\* block under the same settings; full readiness means that no tag stops the
\* merge and no phone is lost; and no member is verified, or equal in that with
\* more orders, or equal in both with a higher spend, than the recommended primary
\* (detector.go, readiness.go, recommendation.go against profile_validator.go and
\* validator.go).  It does not say that the validator accepts a safe group, nor
\* that the profile validation accepts one of full readiness.
ReportsAgreeWithGates == \A r \in reports : AgreesWithGates(r)

\* "if A vs C has a high-severity conflict, the cluster is risky even if neither
\* A->B nor B->C showed any conflict individually" (detector.go, the comment of
\* pairwiseConflictSeverity): a safe group has no such pair.
ConflictsSpread ==
  \A r \in reports : r.risk = "safe" =>
    \A i, j \in r.members :
      AdjustedSeverity(DetectConflicts(GatherMembers(<<i, j>>)), settings) # "high"

=============================================================================
