--------------------------- MODULE MCMetricsReads ---------------------------
(***************************************************************************)
(* A small instance of MetricsReads for TLC: a Dashboard with little, with *)
(* much and with stopped accrual, an account, and no owner at all.         *)
(***************************************************************************)
EXTENDS MetricsReads

MCOwners ==
  {owner \in OwnerAt({0, 3, MAX_SANE_SETTLED_GROWTH}, {5}) :
     owner.kind = "dashboard" \/ owner.settledGrowth = 0}

MCLeaves == Leaf({9}, {2})
=============================================================================
