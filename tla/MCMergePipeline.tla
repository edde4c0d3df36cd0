--------------------------- MODULE MCMergePipeline ---------------------------
(* Small instances of MergePipeline: three customers who are one person, so  *)
(* that a merge takes two pairs and a second scan finds a smaller cluster.   *)
EXTENDS MergePipeline, TLC

CONSTANTS c1, c2, c3, r1, r2, g1, g2, d1, d2

TwoCustomers   == {c1, c2}
ThreeCustomers == {c1, c2, c3}
TwoRequests    == {r1, r2}
OneRequest     == {r1}
TwoGroups      == {g1, g2}
OneGroup       == {g1}
TwoScans       == {d1, d2}
OneScan        == {d1}
SamePerson     == {Customers}
Nobody         == {}
OneSubscriber  == {c3}

Symmetry ==
  Permutations(Customers \ Subscribers) \cup Permutations(Requests)
    \cup Permutations(Groups) \cup Permutations(Detections)
=============================================================================
