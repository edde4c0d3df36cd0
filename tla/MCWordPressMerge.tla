--------------------------- MODULE MCWordPressMerge ---------------------------
\* Values of the constants of WordPressMerge for TLC.
EXTENDS WordPressMerge, TLC

CONSTANTS a, b, c, j1, j2

TwoCustomers   == {a, b}
ThreeCustomers == {a, b, c}
OneJob  == {j1}
TwoJobs == {j1, j2}

Symmetry == Permutations(Customers) \cup Permutations(Jobs)
=============================================================================
