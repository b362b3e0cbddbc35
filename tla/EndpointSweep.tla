--------------------------- MODULE EndpointSweep ---------------------------
(***************************************************************************)
(* The loop of splits_create in src/libjoint.c, endpoint by endpoint, over *)
(* the sorted isplits of one query.  Every matched interval has two        *)
(* endpoints, clipped to the window: at its begin (max = 0) its entity is  *)
(* put into the set `whos`, at its end (max = 1) it is deleted, and        *)
(* whenever time moves on to the next endpoint a split with the current    *)
(* set is emitted.  qsort leaves the order of equal endpoints open.        *)
(***************************************************************************)
EXTENDS Intervals, Splits

CONSTANTS
  Stores,      \* the stores asked about
  Windows      \* the (start, end) pairs of the queries

ASSUME QueryAssumption ==
  /\ Stores \subseteq SUBSET Interval
  /\ Windows \subseteq (MInf..Inf) \X (MInf..Inf)

VARIABLES
  store, from, to,   \* the query: fixed once chosen
  todo,              \* the endpoints not processed yet
  splits,            \* the splits emitted
  whos, allocated, last, dead   \* the set of module IdSet

INSTANCE IdSet

query == <<store, from, to>>
evars == <<store, from, to, todo, splits, whos, allocated, last, dead>>

M == Matching(store, from, to)

\* struct isplit; isplits_create makes the two of a match.
BeginOf(t) == [ts |-> Clip(t, from, to).min, max |-> 0, of |-> t]

EndOf(t) == [ts |-> Clip(t, from, to).max, max |-> 1, of |-> t]

Endpoints == {BeginOf(t) : t \in M} \cup {EndOf(t) : t \in M}

\* Mutant: sorts ends before begins.
EarlierEndsFirst(e, f) == e.ts < f.ts \/ (e.ts = f.ts /\ e.max > f.max)

\* isplit_cmp
Earlier(e, f) == e.ts < f.ts \/ (e.ts = f.ts /\ e.max < f.max)

FirstOf(E) == {e \in E : \A f \in E : ~ Earlier(f, e)}

EInit ==
  /\ store \in Stores
  /\ \E w \in Windows : from = w[1] /\ to = w[2]
  /\ todo = Endpoints
  /\ splits = <<>>
  /\ Empty

\* Mutant: forgets `if (n == m) continue`.
MoveOnEmpty(e, next) ==
  /\ todo' = todo \ {e}
  /\ splits' = Append(splits, Split(e.ts, next.ts, whos'))
  /\ UNCHANGED query

\* Mutant: takes the split before the set changes.
MoveOnStale(e, next) ==
  /\ todo' = todo \ {e}
  /\ splits' = IF e.ts = next.ts
                 THEN splits
                 ELSE Append(splits, Split(e.ts, next.ts, whos))
  /\ UNCHANGED query

\* The end of the loop body.  The last endpoint is only ever the next one.
MoveOn(e, next) ==
  /\ todo' = todo \ {e}
  /\ splits' = IF e.ts = next.ts
                 THEN splits
                 ELSE Append(splits, Split(e.ts, next.ts, whos'))
  /\ UNCHANGED query

Put(e, next) == e.max = 0 /\ PutId(e.of.who) /\ MoveOn(e, next)

Del(e, next) == e.max = 1 /\ DelId(e.of.who) /\ MoveOn(e, next)

Crash(e) ==
  /\ e.max = 1
  /\ Fault(e.of.who)
  /\ UNCHANGED <<query, todo, splits>>

ENext ==
  \E e \in FirstOf(todo) : \E next \in FirstOf(todo \ {e}) :
    \/ Put(e, next)
    \/ Del(e, next)
    \/ Crash(e)

ESpec == EInit /\ [][ENext]_evars

-----------------------------------------------------------------------------

Sane == Ordered(store) /\ from <= to

\* A query with start <= end over a store without inverted intervals never
\* touches the set before it is allocated.
NeverFaults == Sane => ~ dead

\* No ghosts: whoever a split names was there during the whole of it.
SplitsAreTrue ==
  Sane =>
    \A k \in 1..Len(splits) : \A w \in splits[k].ids :
      \E t \in store : /\ t.who = w
                       /\ t.min <= splits[k].min
                       /\ splits[k].max <= t.max

\* When the intervals of each entity lie apart, a split names exactly those who
\* were there, at every instant of it: nobody comes or goes within a split and
\* nobody is missed.
SplitsAreExact ==
  Sane /\ Apart(store) =>
    \A k \in 1..Len(splits) :
      \A x \in splits[k].min..(splits[k].max - 1) :
        splits[k].ids = {id \in Ids : Present(store, x, id)}

\* The splits follow each other without a gap from the first endpoint on.
SplitsChain ==
  \A k \in 1..Len(splits) :
    /\ splits[k].min < splits[k].max
    /\ k > 1 => splits[k].min = splits[k - 1].max

\* The loop computes what module Splits says of the whole query, whatever order
\* qsort gives equal endpoints.  One endpoint is left when it ends.
Finished == \A e \in todo : todo = {e}

LoopIsSplitsGet ==
  /\ Finished => splits = SplitsGet(store, from, to)
  /\ dead => SweepFaults(Matches(store, from, to))
=============================================================================
