----------------------------- MODULE MCSessions -----------------------------
(* A small instance of Sessions: two ids and the reserved one, and enough  *)
(* instants for two intervals and a backfill of one entity.                *)
EXTENDS Sessions, TLC

CONSTANTS a, b, none

MCIds   == {a, b, none}
MCTimes == 1..6

Symmetry == Permutations({a, b})
=============================================================================
