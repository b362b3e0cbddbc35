-------------------------------- MODULE MCNpm --------------------------------
(* A small instance of Npm: two timelines, one path they may share, and   *)
(* records that are apart, overlapping, empty and out of range.              *)
EXTENDS Npm, TLC

CONSTANTS o1, o2, f, x, y

MCOpeners == {o1, o2}
MCIds     == {x, y}
MCRows    == Interval
R(id, s, e) == [ref |-> id, start |-> s, end |-> e]
MCRecords == {R(x, 1, 2), R(x, 3, 3), R(y, 2, 4), R(x, 2, 5)}

\* TLC's bound: states in which the open timelines and the array were told at
\* most this many records are expanded.
CONSTANT MaxRecords
Bounded == FoldFunction(LAMBDA told, n : Len(told) + n, Len(put), said) <= MaxRecords

\* Timelines are interchangeable.
Symmetry == Permutations(MCOpeners)

\* `by` matters to steps only.
View == <<hvars, native, obj, wrap, flat, history>>
=============================================================================
