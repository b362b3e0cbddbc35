------------------------------- MODULE Splits -------------------------------
(***************************************************************************)
(* The query behind joint_iter: splits_get and splits_fill of              *)
(* src/libjoint.c as operators on a set of intervals.  A query [a, b) cuts *)
(* time at every end point of a matched interval and reports, for each     *)
(* piece, who is counted in.                                               *)
(*                                                                         *)
(* isplits with equal (ts, max) are sorted in any order by qsort; putting  *)
(* or deleting the same ids in another order gives the same set, so the    *)
(* sweep is told boundary by boundary, and the set at a boundary by what   *)
(* the puts and deletions up to it come to: at each one everybody who      *)
(* begins is put first and everybody who ends is deleted after.  Module    *)
(* EndpointSweep has the loop endpoint by endpoint, and it is proved that  *)
(* it computes this.                                                       *)
(***************************************************************************)
EXTENDS Integers, FiniteSets, Sequences, SequencesExt, FiniteSetsExt

\* Mutant: takes only intervals that begin within the window.
MatchingBegun(S, a, b) == {t \in S : t.min >= a /\ t.min < b}

\* ti_intersect
Matching(S, a, b) == {t \in S : t.max >= a /\ t.min < b}

\* Mutant: clips one end only.
ClipBegin(t, a, b) == [t EXCEPT !.min = IF @ < a THEN a ELSE @]

\* matches_fix.  On a reversed window it turns every match into [a, b).
Clip(t, a, b) == [t EXCEPT !.min = IF @ < a THEN a ELSE @,
                           !.max = IF @ > b THEN b ELSE @]

Matches(S, a, b) == {Clip(t, a, b) : t \in Matching(S, a, b)}

Begin(M, x) == {m.who : m \in {n \in M : n.min = x}}

Stamps(M) == {m.min : m \in M} \cup {m.max : m \in M}

Rank(S, x) == Cardinality({y \in S : y < x})

\* The timestamps of the sorted isplits, without repetition.
Boundaries(M) ==
  [k \in 1..Cardinality(Stamps(M)) |->
     CHOOSE x \in Stamps(M) : Rank(Stamps(M), x) = k - 1]

\* struct split; `left` is what joint_next has not popped of its ids.
Split(min, max, ids) == [min |-> min, max |-> max, ids |-> ids, left |-> ids]

\* The set once all that is at x or before is done: whoever was put and, from
\* then on, not deleted.
CountedIn(M, x) ==
  {m.who : m \in {n \in M : /\ n.min <= x
                            /\ ~ \E e \in M : /\ e.who = n.who
                                              /\ n.min <= e.max /\ e.max <= x}}

\* splits_create.  The last boundary ends the last split.
Sweep(M) ==
  LET at == Boundaries(M)
  IN [k \in 1..(Len(at) - 1) |-> Split(at[k], at[k + 1], CountedIn(M, at[k]))]

\* Mutant: sorts ends before begins.
SweepFaultsEndsFirst(M) == \E m \in M : m.max = Boundaries(M)[1]

\* who_set_del follows the NULL key array of a set nothing was ever put into:
\* the process dies.  It happens when the first endpoint in order is an end.
SweepFaults(M) == M # {} /\ Begin(M, Boundaries(M)[1]) = {}

\* Mutant: inserts splits at the head of the list.
SplitsGetBackwards(S, a, b) == Reverse(Sweep(Matches(S, a, b)))

SplitsGet(S, a, b) == Sweep(Matches(S, a, b))

-----------------------------------------------------------------------------
(* splits_fill asks again for the time before the first split, for every   *)
(* split nobody is in (which the answer replaces) and for the time after   *)
(* the last one.                                                           *)

Gap(S, a, b) == IF a < b THEN SplitsGet(S, a, b) ELSE <<>>

Refill(S, s) == IF s.ids = {} THEN SplitsGet(S, s.min, s.max) ELSE <<s>>

\* splits_fill.  The loop begins at the head of the list, and so at the pieces
\* put in before the first split, too: none are, because a split begins at the
\* least begin of a match, before which the window matches nothing (or faults).
SplitsFill(S, splits, a, b) ==
  IF splits = <<>>
    THEN SplitsGet(S, a, b)
    ELSE Gap(S, a, splits[1].min)
           \o FlattenSeq([k \in DOMAIN splits |-> Refill(S, splits[k])])
           \o Gap(S, Last(splits).max, b)

Query(S, a, b) == SplitsFill(S, SplitsGet(S, a, b), a, b)

\* The windows splits_fill asks again about.
Asked(splits, a, b) ==
  IF splits = <<>>
    THEN {<<a, b>>}
    ELSE {w \in {<<a, splits[1].min>>, <<Last(splits).max, b>>} : w[1] < w[2]}
           \cup {<<s.min, s.max>> : s \in {r \in ToSet(splits) : r.ids = {}}}

QueryFaults(S, a, b) ==
  \/ SweepFaults(Matches(S, a, b))
  \/ \E w \in Asked(SplitsGet(S, a, b), a, b) : SweepFaults(Matches(S, w[1], w[2]))
=============================================================================
