------------------------------ MODULE Intervals -----------------------------
(***************************************************************************)
(* The intervals of src/libjoint.c and what one asks of a set of them.  An *)
(* interval is the C struct ti, half open: entity `who` is there at every  *)
(* t with min <= t < max.  The sentinels mtinf and tinf stand for an end   *)
(* that was never given.                                                   *)
(***************************************************************************)
EXTENDS Integers

CONSTANTS
  Ids,         \* the entity ids
  MInf, Inf    \* mtinf and tinf, the sentinels TS_MIN and TS_MAX

ASSUME SentinelAssumption == MInf \in Int /\ Inf \in Int /\ MInf < Inf

Interval == [min : MInf..Inf, max : MInf..Inf, who : Ids]

OwnedBy(S, id) == {t \in S : t.who = id}

\* Mutant: counts the closing instant in.
CoversEnd(t, when) == t.min <= when /\ when <= t.max

Covers(t, when) == t.min <= when /\ when < t.max

Present(S, when, id) == \E t \in OwnedBy(S, id) : Covers(t, when)

\* Mutant: forgets to compare who.
OpenOfAnyone(S, id) == {t \in S : t.max = Inf}

\* Mutant: forgets to compare max with tinf.
OpenOfClosed(S, id) == OwnedBy(S, id)

OpenOf(S, id) == {t \in OwnedBy(S, id) : t.max = Inf}

Close(o, end) == [o EXCEPT !.max = end]

-----------------------------------------------------------------------------
(* Shapes a store may have.                                                *)

\* Two intervals of one entity have a gap between them.  It is what the sweep
\* behind joint_iter needs of the store to report presence exactly: it counts
\* an entity in or out and never how often.
Apart(S) ==
  \A t, u \in S : t.who = u.who /\ t # u => t.max < u.min \/ u.max < t.min

Ordered(S)  == \A t \in S : t.min <= t.max

NonEmpty(S) == \A t \in S : t.min < t.max
=============================================================================
