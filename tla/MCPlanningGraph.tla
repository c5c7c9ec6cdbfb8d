--------------------------- MODULE MCPlanningGraph ---------------------------
\* Instances of PlanningGraph for TLC.  Actions are interchangeable.
EXTENDS PlanningGraph, TLC

Symmetry == Permutations(Actions)
=============================================================================
