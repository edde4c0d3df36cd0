----------------------------- MODULE MCJobQueue -----------------------------
(* Small instances of JobQueue: one or two detect jobs and a merge job, of   *)
(* one shop or of two.                                                       *)
EXTENDS JobQueue, TLC

CONSTANTS d1, d2, m1, shop1, shop2, w1, w2

OneOfEach  == {d1, m1}
TwoDetects == {d1, d2}
OneDetect  == {d1}
SameShop   == [j \in Jobs |-> shop1]
TwoShops   == [j \in Jobs |-> IF j = m1 THEN shop2 ELSE shop1]

TwoWorkers == {w1, w2}
Symmetry   == Permutations(TwoWorkers) \cup Permutations(DetectJobs)

\* Of a crash, a failed call and an overrun, any two in one behaviour.
TwoTroubles == crashes + faults + overruns <= 2
=============================================================================
