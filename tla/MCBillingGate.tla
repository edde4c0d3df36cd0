---------------------------- MODULE MCBillingGate ----------------------------
(* Small instances of BillingGate: a free limit of two merges, two clients   *)
(* that merge, one that saves, and a charge for each paid plan.              *)
EXTENDS BillingGate, TLC

CONSTANTS u1, u2, s1, ch1, ch2, None

TwoMergers == {u1, u2}
OneMerger  == {u1}
OneSaver   == {s1}
NoSaver    == {}
TwoCharges == {ch1, ch2}
NoCharge   == {}
Plans      == [ch \in Charges |-> IF ch = ch1 THEN "basic" ELSE "pro"]

\* Bounds of the callbacks: one mishap; and clients overlap while no callback is
\* under way and after none that had a mishap.
FewCallbacks ==
  /\ Cardinality(mishaps) <= 1
  /\ (\E ch \in Charges : callback[ch] # {}) \/ mishaps # {} =>
       Cardinality({c \in Clients : pc[c] # "idle"}) <= 1

Symmetry == Permutations(Mergers)
=============================================================================
