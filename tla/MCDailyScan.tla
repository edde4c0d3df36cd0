----------------------------- MODULE MCDailyScan -----------------------------
(* A small instance of DailyScan: days of two hours, hours of two steps.      *)
EXTENDS DailyScan, TLC

CONSTANTS m1, m2, r1, r2

TwoMerchants == {m1, m2}
OneMerchant  == {m1}
TwoClients   == {r1, r2}
Symmetry     == Permutations(TwoClients)
=============================================================================
