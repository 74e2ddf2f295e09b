----------------------------- MODULE MCCostGate -----------------------------
(* A direct call of two units, a transform of one and a geocoding job over one *)
(* address: the larger allocation covers the call and one job, the smaller one *)
(* job alone.                                                                  *)
EXTENDS CostGate, TLC

CONSTANTS d1, t1, g1

MCCost == [c \in Calls |-> IF c = d1 THEN 2 ELSE 1]
\* The geocoding job is run twice.
MCMaxRuns == [c \in Calls |-> IF c = g1 THEN 2 ELSE 1]
=============================================================================
