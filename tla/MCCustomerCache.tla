-------------------------- MODULE MCCustomerCache --------------------------
(* Small instances of CustomerCache: two customers, one on each page of the   *)
(* list, and two webhook requests at a time.                                  *)
EXTENDS CustomerCache

CONSTANTS c1, c2, p1, p2, None

TwoCustomers == {c1, c2}
TwoPages     == [c \in TwoCustomers |-> IF c = c1 THEN 1 ELSE 2]
OneCustomer  == {c1}
OnePage      == [c \in OneCustomer |-> 1]
TwoHandlers  == {p1, p2}
OneHandler   == {p1}
=============================================================================
