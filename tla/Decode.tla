------------------------------- MODULE Decode -------------------------------
(***************************************************************************)
(* Which window [a, b) a query of the recall kernel asks about: the        *)
(* options rec_axis_config_arg leaves in the statics of src/libjoint.c,    *)
(* and what joint_decode makes of them and of a leaf.                      *)
(*                                                                         *)
(* A leaf is a sequence of keys with values.  Keys other than these three  *)
(* are passed over; "since" and "until" in a leaf are other names of "a"   *)
(* and "b".  A text names an instant or is Unreadable.                     *)
(***************************************************************************)
EXTENDS Integers, Sequences, FiniteSetsExt

CONSTANTS
  Instants,      \* the time_t values that texts name
  Unreadable,    \* a text joint_parse_time refuses, or a missing part
  Point,         \* the second part of a query text without ".."
  NoDay,         \* joint_day_end fails: localtime cannot express the instant
  DayEnd,        \* DayEnd[t]: the midnight that ends the day of t, or NoDay
  Unset, Null

ASSUME InstantAssumption == Instants \subseteq Int /\ Unset \notin Int

ASSUME DayAssumption ==
  \A t \in Instants : DayEnd[t] = NoDay \/ (DayEnd[t] \in Int /\ t < DayEnd[t])

VARIABLES since, until, query    \* the statics joint_cli_*, or Unset

options == <<since, until, query>>

TimeText  == Instants \cup {Unreadable}
QueryText == [from : TimeText, to : TimeText \cup {Point}]

\* Mutant: a point is not widened.
PairNarrow(q) == IF q.to = Point THEN <<q.from, q.from>> ELSE <<q.from, q.to>>

\* A point is widened to what is left of its calendar day.
Pair(q) == IF q.to = Point THEN <<q.from, DayEnd[q.from]>> ELSE <<q.from, q.to>>

Readable(q) == Unreadable \notin {q.from, q.to}

\* joint_cli_query_parse returns 0.
Accepts(q) == Readable(q) /\ Pair(q)[2] # NoDay /\ Pair(q)[1] <= Pair(q)[2]

-----------------------------------------------------------------------------
(* rec_axis_config_arg.  An unreadable --query is ignored with reply 0,    *)
(* any other option that is not taken is refused with -1.                  *)

DInit == since = Unset /\ until = Unset /\ query = Unset

ReadOr(x, old) == IF x = Unreadable THEN old ELSE x

ConfigSince(x) == since' = ReadOr(x, since) /\ UNCHANGED <<until, query>>

ConfigUntil(x) == until' = ReadOr(x, until) /\ UNCHANGED <<since, query>>

\* Mutant: parses into the statics and then finds the pair reversed.
QueryInPlace(q) == IF Readable(q) /\ Pair(q)[2] # NoDay THEN Pair(q) ELSE query

\* The parser writes into locals, which the statics get when it returned 0.
QueryAfter(q) == IF Accepts(q) THEN Pair(q) ELSE query

ConfigQuery(q) == query' = QueryAfter(q) /\ UNCHANGED <<since, until>>

-----------------------------------------------------------------------------
(* joint_decode.                                                           *)

\* What a key says of end k of the window; an unusable value says nothing.
Says(kv, k) ==
  CASE kv.key = <<"a", "b">>[k] /\ kv.val # Unreadable -> kv.val
    [] kv.key = "query" /\ Accepts(kv.val) -> Pair(kv.val)[k]
    [] OTHER -> Unset

\* A later key takes the place of an earlier one.
LeafEnd(leaf, k) ==
  LET given == {i \in DOMAIN leaf : Says(leaf[i], k) # Unset}
  IN IF given = {} THEN Unset ELSE Says(leaf[Max(given)], k)

QueryEnd(k) == IF query = Unset THEN Unset ELSE query[k]

\* Each end is resolved for itself; what nobody gives is 0.
End1(leaf, option, pair) ==
  CASE leaf # Unset -> leaf
    [] leaf = Unset /\ option # Unset -> option
    [] leaf = Unset /\ option = Unset /\ pair # Unset -> pair
    [] OTHER -> 0

NoOption == since = Unset /\ until = Unset /\ query = Unset

Resolve(leaf) ==
  LET a == LeafEnd(leaf, 1)
      b == LeafEnd(leaf, 2)
  IN IF a = Unset /\ b = Unset /\ NoOption
       THEN Null
       ELSE [a |-> End1(a, since, QueryEnd(1)), b |-> End1(b, until, QueryEnd(2))]
=============================================================================
