----------------------------- MODULE MCTimeline -----------------------------
(* A small instance of Timeline: two ids and the reserved one, a time scale *)
(* whose ends are refused by the range check.                               *)
EXTENDS Timeline, FiniteSets, TLC

CONSTANTS a, b, none, MaxIntervals

MCIds   == {a, b, none}
MCTimes == 1..5

\* TLC's bound: stores of at most MaxIntervals intervals are expanded.
Bounded == Cardinality(ti) <= MaxIntervals

Symmetry == Permutations({a, b})
=============================================================================
