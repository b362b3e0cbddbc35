----------------------------- MODULE MCIndexes ------------------------------
(* A small instance of Indexes: two ids and the reserved one, two instants *)
(* in range and the sentinels out of it.                                   *)
EXTENDS Indexes, Functions, TLC

CONSTANTS a, b, none, MaxEntries

MCIds == {a, b, none}

\* TLC's bound: calls are made in states of at most MaxEntries entries in the
\* indexes together, and come to their end.
Entries(ix) == FoldFunction(LAMBDA e, n : e.live + e.stubs + n, 0, ix)

Bounded == doing # Idle \/ Entries(byMax) + Entries(byId) <= MaxEntries

Symmetry == Permutations({a, b})
=============================================================================
