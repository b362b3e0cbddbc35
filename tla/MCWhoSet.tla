------------------------------ MODULE MCWhoSet ------------------------------
(* A small instance of WhoSet.  In a table of two or four slots all ids but *)
(* one collide in the last slot, so that probes go around the end of the    *)
(* table; in one of eight slots they part.                                  *)
EXTENDS WhoSet, TLC

CONSTANTS a, b, c, d, MaxCap

MCIds == {a, b, c, d}

MCHashOf == a :> 3 @@ b :> 3 @@ c :> 7 @@ d :> 4

\* TLC's bound: larger tables are not explored.
Bounded == cap <= MaxCap
=============================================================================
