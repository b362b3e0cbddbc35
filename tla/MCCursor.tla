------------------------------ MODULE MCCursor ------------------------------
(* A small instance of Cursor and of the Timeline below it: two entities   *)
(* and the reserved one, a scale whose ends are refused by the range check,*)
(* and every window over it, reversed and empty ones included.             *)
EXTENDS Cursor, TLC

CONSTANTS a, b, none

MCIds     == {a, b, none}
MCTimes   == 0..4
MCWindows == (0..4) \X (0..4)

\* `call` matters to steps only.
View == <<ti, rest, status, asked, got, churn>>
=============================================================================
