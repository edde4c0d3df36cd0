--------------------------- MODULE MCScanTriggers ---------------------------
(* A small instance of ScanTriggers: one shop.                                *)
EXTENDS ScanTriggers, TLC

CONSTANTS d1, d2, shop, w1, w2, g1, g2

TwoDetects == {d1, d2}
OneShop    == {shop}
ShopOfJob  == [j \in Jobs |-> shop]
ShopOfGrp  == [g \in Groups |-> shop]
TwoWorkers == {w1, w2}
TwoGroups  == {g1, g2}
Symmetry   == Permutations(TwoDetects) \cup Permutations(TwoWorkers)
                \cup Permutations(TwoGroups)

\* One crash, failed call or overrun in a behaviour.
OneTrouble == crashes + faults + overruns <= 1
=============================================================================
