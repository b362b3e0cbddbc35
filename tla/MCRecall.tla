------------------------------ MODULE MCRecall ------------------------------
(* A small instance of Recall: two openers, one file, two intervals that  *)
(* stores may hold, and days of two instants, the last of which localtime   *)
(* cannot express.                                                          *)
EXTENDS Recall, TLC

CONSTANTS c1, c2, f, x, y

MCOpeners  == {c1, c2}
MCFiles    == {f}
MCIds      == {x, y}
MCRows     == {[min |-> 1, max |-> 3, who |-> x], [min |-> 2, max |-> Inf, who |-> y]}
MCMInf     == -1
MCInstants == 0..4
MCDayEnd   == [t \in MCInstants |-> IF t = 4 THEN NoDay ELSE 2 * (t \div 2) + 2]

MCTimeOptions == {3, Unreadable}

Q(a, b) == [from |-> a, to |-> b]

MCQueryOptions == {Q(2, Point), Q(4, Point), Q(3, 2), Q(Unreadable, 2)}

MCLeaves ==
  {<<>>,
   <<[key |-> "a", val |-> 2]>>,
   <<[key |-> "b", val |-> 2]>>,
   <<[key |-> "a", val |-> 1], [key |-> "b", val |-> 3]>>,
   <<[key |-> "query", val |-> Q(1, 3)], [key |-> "b", val |-> Unreadable]>>,
   <<[key |-> "query", val |-> Q(3, 2)]>>,
   <<[key |-> "query", val |-> Q(2, Point)]>>,
   <<[key |-> "query", val |-> Q(4, Point)]>>}

\* Openers are interchangeable.
Symmetry == Permutations(MCOpeners)
=============================================================================
