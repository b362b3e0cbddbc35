------------------------------- MODULE MCAxis -------------------------------
(* A small instance of Axis: one entity and the reserved id, two instants   *)
(* that print as dates and two that print with a time of day, and one that  *)
(* is out of range and can only be written as a number.                     *)
EXTENDS Axis, FiniteSets, TLC

CONSTANTS a, none, MaxIntervals

MCIds       == {a, none}
MCTimes     == 1..5
MCMidnights == {1, 3}

MCTexts ==
  [style : {"date"}, t : MCMidnights] \cup [style : {"stamp"}, t : {2, 3}]
    \cup [style : {"epoch"}, t : {4, 5}]

\* TLC's bound: stores of at most MaxIntervals intervals are expanded.
Bounded == Cardinality(ti) <= MaxIntervals

\* Of `call` only the reply is read here.
View == <<ti, call.ret, pending, reply, owner, saved, at, doing>>
=============================================================================
