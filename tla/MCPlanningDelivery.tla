------------------------ MODULE MCPlanningDelivery ------------------------
(* PlanningDelivery for TLC: sessions are interchangeable.                 *)
EXTENDS PlanningDelivery, TLC

Interchangeable == Permutations(Sessions)
=============================================================================
