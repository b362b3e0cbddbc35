---------------------------- MODULE SplitsProofs ----------------------------
(***************************************************************************)
(* Lemmas about the operators of Splits, for every set of intervals and    *)
(* every window: what the sorted boundaries are, what a split names, and   *)
(* what splits_fill makes of a list of splits.  Every component that asks  *)
(* a query rests on them.                                                  *)
(***************************************************************************)
EXTENDS Intervals, Splits, FiniteSetTheorems, SequenceTheorems, TLAPS

-----------------------------------------------------------------------------
(* Natural numbers.                                                        *)

Smaller == {ss \in Nat \X Nat : ss[1] < ss[2]}

LEMMA SmallerIsWellFounded == IsWellFoundedOn(Smaller, Nat)
BY NatLessThanWellFounded DEF OpToRel, Smaller

\* A set of naturals that is not empty has a least element.
LEMMA Least ==
  ASSUME NEW T \in SUBSET Nat, T # {}
  PROVE  \E x \in T : \A y \in T : x <= y
<1>1. PICK x \in T : \A y \in T : ~ (<<y, x>> \in Smaller)
  BY SmallerIsWellFounded, WFMin
<1>2. \A y \in T : ~ (y < x)
  BY <1>1 DEF Smaller
<1> QED
  BY <1>2

\* Induction, about a set in place of a predicate.
LEMMA AllNaturals ==
  ASSUME NEW T \in SUBSET Nat, 0 \in T, \A n \in T : n + 1 \in T
  PROVE  T = Nat
<1> SUFFICES ASSUME Nat \ T # {} PROVE FALSE
  OBVIOUS
<1>1. PICK x \in Nat \ T : \A y \in Nat \ T : x <= y
  BY Least
<1>2. x # 0 /\ x - 1 \in T
  BY <1>1
<1> QED
  BY <1>1, <1>2

-----------------------------------------------------------------------------
(* The boundaries of a query are its timestamps in order.                  *)

LEMMA RankType ==
  ASSUME NEW S, \A s \in S : s \in Int, IsFiniteSet(S), NEW x \in S
  PROVE  Rank(S, x) \in Nat /\ Rank(S, x) < Cardinality(S)
<1> DEFINE B == {y \in S : y < x}
<1>1. B \in SUBSET S /\ x \in S \ B
  OBVIOUS
<1>2. IsFiniteSet(B) /\ Cardinality(B) <= Cardinality(S)
      /\ (Cardinality(S) = Cardinality(B) => S = B)
  BY <1>1, FS_Subset
<1>3. Cardinality(B) \in Nat /\ Cardinality(S) \in Nat
  BY <1>2, FS_CardinalityType
<1> QED
  BY <1>1, <1>2, <1>3 DEF Rank

LEMMA RankGrows ==
  ASSUME NEW S, \A s \in S : s \in Int, IsFiniteSet(S), NEW x \in S, NEW z \in S, x < z
  PROVE  Rank(S, x) < Rank(S, z)
<1> DEFINE B == {y \in S : y < x}
           C == {y \in S : y < z}
<1>0. x \in Int /\ z \in Int /\ \A y \in S : y \in Int
  OBVIOUS
<1>1. B \in SUBSET C /\ x \in C /\ x \notin B
  <2>1. \A y \in S : y < x => y < z
    BY <1>0
  <2>2. x < z /\ ~ (x < x)
    BY <1>0
  <2> QED
    BY <2>1, <2>2
<1>2. IsFiniteSet(C)
  BY FS_Subset
<1>3. Cardinality(B) <= Cardinality(C) /\ (Cardinality(C) = Cardinality(B) => C = B)
  BY <1>1, <1>2, FS_Subset
<1>4. Cardinality(B) \in Nat /\ Cardinality(C) \in Nat
  BY RankType DEF Rank
<1> QED
  BY <1>1, <1>3, <1>4 DEF Rank

\* Every rank below the size of a set is taken.
LEMMA RankIsTaken ==
  ASSUME NEW S, \A s \in S : s \in Int, IsFiniteSet(S), NEW k \in 1..Cardinality(S)
  PROVE  \E x \in S : Rank(S, x) = k - 1
<1> DEFINE N == Cardinality(S)
           f == [x \in S |-> Rank(S, x) + 1]
<1>1. N \in Nat
  BY FS_CardinalityType
<1>2. IsFiniteSet(1..N) /\ Cardinality(1..N) = N
  BY <1>1, FS_Interval
<1>3. f \in [S -> 1..N]
  BY <1>1, RankType
<1>4. \A x, z \in S : f[x] = f[z] => x = z
  <2> SUFFICES ASSUME NEW x \in S, NEW z \in S, f[x] = f[z], x # z PROVE FALSE
    OBVIOUS
  <2>1. x < z \/ z < x
    OBVIOUS
  <2>2. Rank(S, x) \in Nat /\ Rank(S, z) \in Nat /\ Rank(S, x) = Rank(S, z)
    BY RankType
  <2> QED
    BY <2>1, <2>2, RankGrows
<1>5. f \in Injection(S, 1..N)
  BY <1>3, <1>4 DEF Injection, IsInjective
<1>6. f \in Surjection(S, 1..N)
  BY <1>2, <1>5, FS_Injection
<1>7. PICK x \in S : f[x] = k
  BY <1>6 DEF Surjection
<1> QED
  BY <1>7, RankType

\* at lists the members of S in order and once each.
Sorts(at, S) ==
  /\ at \in Seq(Int)
  /\ \A k \in 1..Len(at) : at[k] \in S
  /\ \A x \in S : \E k \in 1..Len(at) : at[k] = x
  /\ \A j, k \in 1..Len(at) : j < k => at[j] < at[k]

\* Enumerating a set by rank sorts it.
LEMMA RankSorts ==
  ASSUME NEW S, \A s \in S : s \in Int, IsFiniteSet(S), NEW N \in Nat, N = Cardinality(S),
         NEW at \in [1..N -> S], \A k \in 1..N : Rank(S, at[k]) = k - 1
  PROVE  Sorts(at, S) /\ Len(at) = N
<1>1. \A k \in 1..N : at[k] \in S /\ Rank(S, at[k]) = k - 1
  OBVIOUS
<1>2. \A x \in S : x \in Int
  OBVIOUS
<1>3. at \in Seq(Int) /\ Len(at) = N
  <2>1. at \in [1..N -> Int]
    BY <1>1, <1>2
  <2>2. at \in Seq(Int)
    BY <2>1, SeqDef
  <2> QED
    BY <2>1, <2>2, LenProperties
<1>4. ASSUME NEW j \in 1..N, NEW k \in 1..N, j < k, ~ (at[j] < at[k])
      PROVE  FALSE
  <2>1. at[j] \in S /\ at[k] \in S /\ Rank(S, at[j]) = j - 1 /\ Rank(S, at[k]) = k - 1
    BY <1>1
  <2>2. at[k] = at[j] \/ at[k] < at[j]
    BY <1>2, <1>4, <2>1
  <2>3. CASE at[k] = at[j]
    BY <1>4, <2>1, <2>3
  <2>4. CASE at[k] < at[j]
    <3>1. Rank(S, at[k]) < Rank(S, at[j])
      BY <2>1, <2>4, RankGrows
    <3> QED
      BY <1>4, <2>1, <3>1
  <2> QED
    BY <2>2, <2>3, <2>4
<1>5. ASSUME NEW x \in S PROVE \E k \in 1..N : at[k] = x
  <2>1. PICK k \in 1..N : Rank(S, x) = k - 1
    <3>1. Rank(S, x) \in Nat /\ Rank(S, x) < N
      BY RankType
    <3>2. Rank(S, x) + 1 \in 1..N /\ Rank(S, x) = (Rank(S, x) + 1) - 1
      BY <3>1
    <3> QED
      BY <3>2
  <2>2. at[k] \in S /\ Rank(S, at[k]) = Rank(S, x) /\ Rank(S, x) \in Nat
    BY <1>1, <2>1
  <2>3. ASSUME at[k] < x PROVE FALSE
    <3>1. Rank(S, at[k]) < Rank(S, x)
      BY <2>2, <2>3, RankGrows
    <3> QED
      BY <2>2, <3>1
  <2>4. ASSUME x < at[k] PROVE FALSE
    <3>1. Rank(S, x) < Rank(S, at[k])
      BY <2>2, <2>4, RankGrows
    <3> QED
      BY <2>2, <3>1
  <2> QED
    BY <1>2, <2>2, <2>3, <2>4
<1> QED
  BY <1>1, <1>3, <1>4, <1>5 DEF Sorts

LEMMA BoundariesSort ==
  ASSUME NEW M, Stamps(M) \subseteq Int, IsFiniteSet(Stamps(M))
  PROVE  Sorts(Boundaries(M), Stamps(M))
<1>1. Cardinality(Stamps(M)) \in Nat /\ \A x \in Stamps(M) : x \in Int
  BY FS_CardinalityType
<1>2. /\ DOMAIN Boundaries(M) = 1..Cardinality(Stamps(M))
      /\ \A k \in 1..Cardinality(Stamps(M)) :
           Boundaries(M)[k] = CHOOSE x \in Stamps(M) : Rank(Stamps(M), x) = k - 1
  BY DEF Boundaries
<1>3. \A k \in 1..Cardinality(Stamps(M)) :
        Boundaries(M)[k] \in Stamps(M) /\ Rank(Stamps(M), Boundaries(M)[k]) = k - 1
  BY <1>1, <1>2, RankIsTaken
<1>4. Boundaries(M) \in [1..Cardinality(Stamps(M)) -> Stamps(M)]
  <2>1. Boundaries(M) = [k \in 1..Cardinality(Stamps(M)) |-> Boundaries(M)[k]]
    BY DEF Boundaries
  <2> QED
    BY <1>3, <2>1
<1> QED
  BY <1>1, <1>3, <1>4, RankSorts

-----------------------------------------------------------------------------
(* The instants between two boundaries.                                    *)

\* An instant with a boundary at or before it and one after it lies between
\* two that follow each other.
LEMMA Located ==
  ASSUME NEW S, NEW at, Sorts(at, S), NEW x \in Int,
         NEW lo \in S, lo <= x, NEW hi \in S, x < hi
  PROVE  \E k \in 1..(Len(at) - 1) : at[k] <= x /\ x < at[k + 1]
<1> DEFINE T == {k \in 1..Len(at) : x < at[k]}
<1>1. /\ Len(at) \in Nat /\ \A k \in 1..Len(at) : at[k] \in Int
      /\ \A j, k \in 1..Len(at) : j < k => at[j] < at[k]
  BY LenProperties, ElementOfSeq DEF Sorts
<1>2. PICK i \in 1..Len(at) : at[i] = lo
  BY DEF Sorts
<1>3. PICK j \in 1..Len(at) : at[j] = hi
  BY DEF Sorts
<1>4. T \in SUBSET Nat /\ j \in T
  BY <1>1, <1>3
<1>5. PICK n \in T : \A m \in T : n <= m
  BY <1>4, Least
<1>6. n \in 1..Len(at) /\ x < at[n]
  BY <1>5
<1>7. n # 1
  <2>1. CASE i = 1
    BY <1>1, <1>2, <1>6, <2>1
  <2>2. CASE i > 1
    <3>1. at[1] < at[i]
      BY <1>1, <1>2, <2>2
    <3> QED
      BY <1>1, <1>2, <1>6, <3>1
  <2> QED
    BY <1>2, <2>1, <2>2
<1>8. n - 1 \in 1..(Len(at) - 1) /\ n - 1 \notin T /\ n - 1 \in 1..Len(at)
  BY <1>1, <1>5, <1>6, <1>7
<1>9. at[n - 1] <= x
  BY <1>1, <1>8
<1> QED
  BY <1>6, <1>8, <1>9

\* Between two boundaries that follow each other there is none.
LEMMA NoneBetween ==
  ASSUME NEW S, NEW at, Sorts(at, S), NEW k \in 1..(Len(at) - 1), NEW x \in S
  PROVE  x <= at[k] \/ at[k + 1] <= x
<1>1. /\ Len(at) \in Nat /\ \A i \in 1..Len(at) : at[i] \in Int
      /\ \A i, j \in 1..Len(at) : i < j => at[i] < at[j]
  BY LenProperties, ElementOfSeq DEF Sorts
<1>2. PICK i \in 1..Len(at) : at[i] = x
  BY DEF Sorts
<1>3. k \in 1..Len(at) /\ k + 1 \in 1..Len(at)
  BY <1>1
<1>4. i < k \/ i = k \/ i = k + 1 \/ i > k + 1
  BY <1>2, <1>3
<1> QED
  BY <1>1, <1>2, <1>3, <1>4

-----------------------------------------------------------------------------
(* What a query matches.                                                   *)

LEMMA ClipFields ==
  ASSUME NEW t \in Interval, NEW a \in Int, NEW b \in Int
  PROVE  /\ t.min \in Int /\ t.max \in Int /\ t.who \in Ids
         /\ t.min \in MInf..Inf /\ t.max \in MInf..Inf
         /\ Clip(t, a, b).who = t.who
         /\ Clip(t, a, b).min = IF t.min < a THEN a ELSE t.min
         /\ Clip(t, a, b).max = IF t.max > b THEN b ELSE t.max
BY SentinelAssumption DEF Clip, Interval

\* A match is what the window leaves of an interval that reaches into it.
LEMMA MatchFacts ==
  ASSUME NEW S, S \subseteq Interval, NEW a \in Int, NEW b \in Int
  PROVE  /\ \A m \in Matches(S, a, b) : m.min \in Int /\ m.max \in Int /\ m.who \in Ids
         /\ Stamps(Matches(S, a, b)) \subseteq Int
         /\ IsFiniteSet(Stamps(Matches(S, a, b)))
<1> DEFINE W == (MInf..Inf) \cup {a, b}
<1>1. ASSUME NEW m \in Matches(S, a, b)
      PROVE  m.min \in W /\ m.max \in W /\ m.who \in Ids
  <2>1. PICK t \in S : m = Clip(t, a, b)
    BY DEF Matches, Matching
  <2>2. t \in Interval
    OBVIOUS
  <2> QED
    BY <2>1, <2>2, ClipFields
<1>2. W \subseteq Int
  BY SentinelAssumption
<1>3. IsFiniteSet(W)
  <2>1. IsFiniteSet(MInf..Inf)
    BY SentinelAssumption, FS_Interval
  <2>2. IsFiniteSet((MInf..Inf) \cup {a})
    BY <2>1, FS_AddElement
  <2>3. IsFiniteSet(((MInf..Inf) \cup {a}) \cup {b})
    BY <2>2, FS_AddElement
  <2>4. ((MInf..Inf) \cup {a}) \cup {b} = W
    OBVIOUS
  <2> QED
    BY <2>3, <2>4
<1>4. Stamps(Matches(S, a, b)) \in SUBSET W
  BY <1>1 DEF Stamps
<1>5. IsFiniteSet(Stamps(Matches(S, a, b)))
  BY <1>3, <1>4, FS_Subset
<1> QED
  BY <1>1, <1>2, <1>4, <1>5

\* For a query that is not reversed, over intervals that are not.
LEMMA SaneMatchFacts ==
  ASSUME NEW S, S \subseteq Interval, Ordered(S), NEW a \in Int, NEW b \in Int, a <= b
  PROVE  \A m \in Matches(S, a, b) :
           /\ a <= m.min /\ m.min <= m.max /\ m.max <= b
           /\ \E t \in S : t.who = m.who /\ t.min <= m.min /\ m.max <= t.max
<1> SUFFICES ASSUME NEW m \in Matches(S, a, b)
             PROVE  /\ a <= m.min /\ m.min <= m.max /\ m.max <= b
                    /\ \E t \in S : t.who = m.who /\ t.min <= m.min /\ m.max <= t.max
  OBVIOUS
<1>1. PICK t \in S : m = Clip(t, a, b) /\ t.max >= a /\ t.min < b
  BY DEF Matches, Matching
<1>2. t \in Interval /\ t.min <= t.max
  BY DEF Ordered
<1>3. /\ t.min \in Int /\ t.max \in Int /\ m.who = t.who
      /\ m.min = IF t.min < a THEN a ELSE t.min
      /\ m.max = IF t.max > b THEN b ELSE t.max
  BY <1>1, <1>2, ClipFields
<1>4. a <= m.min /\ m.min <= m.max /\ m.max <= b /\ t.min <= m.min /\ m.max <= t.max
  BY <1>1, <1>2, <1>3
<1> QED
  BY <1>3, <1>4

\* What covers an instant of the window still does when clipped.
LEMMA MatchCovers ==
  ASSUME NEW S, S \subseteq Interval, NEW a \in Int, NEW b \in Int,
         NEW t \in S, NEW x \in Int, a <= x, x < b, Covers(t, x)
  PROVE  \E m \in Matches(S, a, b) : m.who = t.who /\ m.min <= x /\ x < m.max
<1>1. t \in Interval
  OBVIOUS
<1>2. /\ t.min \in Int /\ t.max \in Int /\ Clip(t, a, b).who = t.who
      /\ Clip(t, a, b).min = IF t.min < a THEN a ELSE t.min
      /\ Clip(t, a, b).max = IF t.max > b THEN b ELSE t.max
  BY <1>1, ClipFields
<1>3. t.min <= x /\ x < t.max
  BY DEF Covers
<1>4. Clip(t, a, b) \in Matches(S, a, b)
  BY <1>2, <1>3 DEF Matches, Matching
<1>5. Clip(t, a, b).min <= x /\ x < Clip(t, a, b).max
  BY <1>2, <1>3
<1> QED
  BY <1>2, <1>4, <1>5

\* Clipping keeps apart what lies apart.
LEMMA MatchesApart ==
  ASSUME NEW S, S \subseteq Interval, Ordered(S), Apart(S),
         NEW a \in Int, NEW b \in Int, a <= b
  PROVE  Apart(Matches(S, a, b))
<1> SUFFICES ASSUME NEW m \in Matches(S, a, b), NEW n \in Matches(S, a, b),
                    m.who = n.who, m # n
             PROVE  m.max < n.min \/ n.max < m.min
  BY DEF Apart
<1>1. PICK t \in S : m = Clip(t, a, b) /\ t.max >= a /\ t.min < b
  BY DEF Matches, Matching
<1>2. PICK u \in S : n = Clip(u, a, b) /\ u.max >= a /\ u.min < b
  BY DEF Matches, Matching
<1>3. t \in Interval /\ u \in Interval
  OBVIOUS
<1>4. /\ t.min \in Int /\ t.max \in Int /\ m.who = t.who
      /\ m.min = IF t.min < a THEN a ELSE t.min
      /\ m.max = IF t.max > b THEN b ELSE t.max
  BY <1>1, <1>3, ClipFields
<1>5. /\ u.min \in Int /\ u.max \in Int /\ n.who = u.who
      /\ n.min = IF u.min < a THEN a ELSE u.min
      /\ n.max = IF u.max > b THEN b ELSE u.max
  BY <1>2, <1>3, ClipFields
<1>6. t # u
  BY <1>1, <1>2
<1>7. t.max < u.min \/ u.max < t.min
  BY <1>4, <1>5, <1>6 DEF Apart
<1> QED
  BY <1>1, <1>2, <1>4, <1>5, <1>7

\* A reversed window turns every match into the window itself.
LEMMA ReversedMatches ==
  ASSUME NEW S, S \subseteq Interval, NEW a \in Int, NEW b \in Int, a > b
  PROVE  \A m \in Matches(S, a, b) : m.min = a /\ m.max = b
<1> SUFFICES ASSUME NEW m \in Matches(S, a, b) PROVE m.min = a /\ m.max = b
  OBVIOUS
<1>1. PICK t \in S : m = Clip(t, a, b) /\ t.max >= a /\ t.min < b
  BY DEF Matches, Matching
<1>2. t \in Interval
  OBVIOUS
<1>3. /\ t.min \in Int /\ t.max \in Int
      /\ m.min = IF t.min < a THEN a ELSE t.min
      /\ m.max = IF t.max > b THEN b ELSE t.max
  BY <1>1, <1>2, ClipFields
<1> QED
  BY <1>1, <1>3

-----------------------------------------------------------------------------
(* Answers: lists of splits.                                               *)

Piece == [min : Int, max : Int, ids : SUBSET Ids, left : SUBSET Ids]

\* q is a list of pieces of [a, b), in order and unread, that name for each
\* piece nobody who was not there during the whole of it.
Truthful(q, S, a, b) ==
  /\ q \in Seq(Piece)
  /\ \A k \in 1..Len(q) :
       /\ a <= q[k].min /\ q[k].min < q[k].max /\ q[k].max <= b
       /\ q[k].left = q[k].ids
       /\ \A w \in q[k].ids :
            \E t \in S : t.who = w /\ t.min <= q[k].min /\ q[k].max <= t.max
  /\ \A j, k \in 1..Len(q) : j < k => q[j].max <= q[k].min

\* q names everybody who was there, at every instant of [a, b).
Telling(q, S, a, b) ==
  \A t \in S, x \in Int :
    a <= x /\ x < b /\ Covers(t, x) =>
      \E k \in 1..Len(q) : q[k].min <= x /\ x < q[k].max /\ t.who \in q[k].ids

LEMMA SplitFields ==
  ASSUME NEW x, NEW y, NEW ids
  PROVE  /\ Split(x, y, ids).min = x /\ Split(x, y, ids).max = y
         /\ Split(x, y, ids).ids = ids /\ Split(x, y, ids).left = ids
BY DEF Split

\* The splits of a sweep, without the operators it is made of.
LEMMA SweepShape ==
  ASSUME NEW M, Sorts(Boundaries(M), Stamps(M)),
         \A m \in M : m.min \in Int /\ m.max \in Int /\ m.who \in Ids
  PROVE  /\ Sweep(M) \in Seq(Piece)
         /\ 1..Len(Sweep(M)) = 1..(Len(Boundaries(M)) - 1)
         /\ \A k \in 1..(Len(Boundaries(M)) - 1) :
              /\ Sweep(M)[k].min = Boundaries(M)[k]
              /\ Sweep(M)[k].max = Boundaries(M)[k + 1]
              /\ Sweep(M)[k].ids = CountedIn(M, Boundaries(M)[k])
              /\ Sweep(M)[k].left = CountedIn(M, Boundaries(M)[k])
<1>1. /\ Len(Boundaries(M)) \in Nat
      /\ \A k \in 1..Len(Boundaries(M)) : Boundaries(M)[k] \in Int
  BY LenProperties, ElementOfSeq DEF Sorts
<1> DEFINE n == Len(Boundaries(M)) - 1
<1>2. \A x : CountedIn(M, x) \subseteq Ids
  BY DEF CountedIn
<1>3. /\ DOMAIN Sweep(M) = 1..n
      /\ \A k \in 1..n : Sweep(M)[k] = Split(Boundaries(M)[k], Boundaries(M)[k + 1],
                                             CountedIn(M, Boundaries(M)[k]))
  BY DEF Sweep
<1>4. \A k \in 1..n : Sweep(M)[k] \in Piece
  <2> SUFFICES ASSUME NEW k \in 1..n PROVE Sweep(M)[k] \in Piece
    OBVIOUS
  <2>1. Boundaries(M)[k] \in Int /\ Boundaries(M)[k + 1] \in Int
    BY <1>1
  <2> QED
    BY <1>2, <1>3, <2>1 DEF Split, Piece
<1>5. Sweep(M) \in [1..n -> Piece]
  <2>1. Sweep(M) = [k \in 1..n |-> Sweep(M)[k]]
    BY <1>3 DEF Sweep
  <2> QED
    BY <1>4, <2>1
<1>6. PICK l \in Nat : 1..l = 1..n
  <2>1. CASE Len(Boundaries(M)) = 0
    <3>1. 1..0 = 1..n
      BY <2>1
    <3> QED
      BY <3>1
  <2>2. CASE Len(Boundaries(M)) # 0
    BY <1>1, <2>2
  <2> QED
    BY <2>1, <2>2
<1>7. Sweep(M) \in Seq(Piece)
  BY <1>5, <1>6, SeqDef
<1>8. 1..Len(Sweep(M)) = 1..n
  BY <1>3, <1>7, LenProperties
<1> QED
  BY <1>3, <1>7, <1>8, SplitFields

\* Nobody is counted in who is not there.
LEMMA SweepIsTruthful ==
  ASSUME NEW S, S \subseteq Interval, Ordered(S), NEW a \in Int, NEW b \in Int, a <= b
  PROVE  Truthful(SplitsGet(S, a, b), S, a, b)
<1> DEFINE M == Matches(S, a, b)
           at == Boundaries(M)
           q == Sweep(M)
<1>1. \A m \in M : m.min \in Int /\ m.max \in Int /\ m.who \in Ids
  BY MatchFacts
<1>2. Sorts(at, Stamps(M))
  BY MatchFacts, BoundariesSort
<1>3. /\ q \in Seq(Piece)
      /\ 1..Len(q) = 1..(Len(at) - 1)
      /\ \A k \in 1..(Len(at) - 1) :
           /\ q[k].min = at[k] /\ q[k].max = at[k + 1]
           /\ q[k].ids = CountedIn(M, at[k]) /\ q[k].left = CountedIn(M, at[k])
  BY <1>1, <1>2, SweepShape
<1>4. /\ Len(at) \in Nat /\ \A k \in 1..Len(at) : at[k] \in Int
      /\ \A k \in 1..Len(at) : at[k] \in Stamps(M)
      /\ \A j, k \in 1..Len(at) : j < k => at[j] < at[k]
  BY <1>2, LenProperties, ElementOfSeq DEF Sorts
<1> HIDE DEF M, at, q
<1>5. \A m \in M : a <= m.min /\ m.min <= m.max /\ m.max <= b
  BY SaneMatchFacts DEF M
<1>6. \A k \in 1..Len(at) : a <= at[k] /\ at[k] <= b
  <2> SUFFICES ASSUME NEW k \in 1..Len(at) PROVE a <= at[k] /\ at[k] <= b
    OBVIOUS
  <2>1. PICK m \in M : at[k] = m.min \/ at[k] = m.max
    BY <1>4 DEF Stamps
  <2> QED
    BY <1>1, <1>5, <2>1
<1>7. ASSUME NEW k \in 1..(Len(at) - 1), NEW w \in CountedIn(M, at[k])
      PROVE  \E t \in S : t.who = w /\ t.min <= at[k] /\ at[k + 1] <= t.max
  <2>1. k \in 1..Len(at) /\ k + 1 \in 1..Len(at)
    BY <1>4
  <2>2. PICK m \in M : /\ m.who = w /\ m.min <= at[k]
                       /\ ~ \E e \in M : e.who = m.who /\ m.min <= e.max /\ e.max <= at[k]
    BY DEF CountedIn
  <2>3. ~ (m.max <= at[k])
    BY <1>5, <2>2
  <2>4. at[k + 1] <= m.max
    <3>1. m.max \in Stamps(M)
      BY DEF Stamps
    <3> QED
      BY <1>2, <2>3, <3>1, NoneBetween
  <2>5. PICK t \in S : t.who = m.who /\ t.min <= m.min /\ m.max <= t.max
    BY SaneMatchFacts DEF M
  <2>6. t.min \in Int /\ t.max \in Int
    BY ClipFields
  <2> QED
    BY <1>1, <1>4, <2>1, <2>2, <2>4, <2>5, <2>6
<1>8. \A k \in 1..(Len(at) - 1) : k \in 1..Len(at) /\ k + 1 \in 1..Len(at) /\ k < k + 1
  BY <1>4
<1>9. \A j, k \in 1..(Len(at) - 1) : j < k => at[j + 1] <= at[k]
  <2> SUFFICES ASSUME NEW j \in 1..(Len(at) - 1), NEW k \in 1..(Len(at) - 1), j < k
               PROVE  at[j + 1] <= at[k]
    OBVIOUS
  <2>1. j + 1 = k \/ j + 1 < k
    BY <1>4
  <2> QED
    BY <1>4, <1>8, <2>1
<1>10. Truthful(q, S, a, b)
  <2>1. \A k \in 1..Len(q) :
          /\ a <= q[k].min /\ q[k].min < q[k].max /\ q[k].max <= b
          /\ q[k].left = q[k].ids
          /\ \A w \in q[k].ids :
               \E t \in S : t.who = w /\ t.min <= q[k].min /\ q[k].max <= t.max
    <3> SUFFICES ASSUME NEW k \in 1..Len(q)
                 PROVE  /\ a <= q[k].min /\ q[k].min < q[k].max /\ q[k].max <= b
                        /\ q[k].left = q[k].ids
                        /\ \A w \in q[k].ids :
                             \E t \in S : t.who = w /\ t.min <= q[k].min /\ q[k].max <= t.max
      OBVIOUS
    <3>1. k \in 1..(Len(at) - 1)
      BY <1>3
    <3>2. /\ q[k].min = at[k] /\ q[k].max = at[k + 1]
          /\ q[k].ids = CountedIn(M, at[k]) /\ q[k].left = CountedIn(M, at[k])
      BY <1>3, <3>1
    <3>3. a <= at[k] /\ at[k] < at[k + 1] /\ at[k + 1] <= b
      BY <1>4, <1>6, <1>8, <3>1
    <3>4. ASSUME NEW w \in q[k].ids
          PROVE  \E t \in S : t.who = w /\ t.min <= q[k].min /\ q[k].max <= t.max
      <4>1. w \in CountedIn(M, at[k])
        BY <3>2
      <4>2. PICK t \in S : t.who = w /\ t.min <= at[k] /\ at[k + 1] <= t.max
        BY <1>7, <3>1, <4>1
      <4> QED
        BY <3>2, <4>2
    <3> QED
      BY <3>2, <3>3, <3>4
  <2>2. \A j, k \in 1..Len(q) : j < k => q[j].max <= q[k].min
    BY <1>3, <1>9
  <2> QED
    BY <1>3, <2>1, <2>2 DEF Truthful
<1> QED
  BY <1>10 DEF SplitsGet, q, M

\* Everybody is counted in who is there, when the intervals of each entity lie
\* apart.
LEMMA SweepTells ==
  ASSUME NEW S, S \subseteq Interval, Ordered(S), Apart(S),
         NEW a \in Int, NEW b \in Int, a <= b
  PROVE  Telling(SplitsGet(S, a, b), S, a, b)
<1> DEFINE M == Matches(S, a, b)
           at == Boundaries(M)
           q == Sweep(M)
<1>1. \A m \in M : m.min \in Int /\ m.max \in Int /\ m.who \in Ids
  BY MatchFacts
<1>2. Sorts(at, Stamps(M))
  BY MatchFacts, BoundariesSort
<1>3. /\ 1..Len(q) = 1..(Len(at) - 1)
      /\ \A k \in 1..(Len(at) - 1) :
           /\ q[k].min = at[k] /\ q[k].max = at[k + 1]
           /\ q[k].ids = CountedIn(M, at[k])
  BY <1>1, <1>2, SweepShape
<1>4. Len(at) \in Nat /\ \A k \in 1..Len(at) : at[k] \in Int
  BY <1>2, LenProperties, ElementOfSeq DEF Sorts
<1>5. Apart(M) /\ \A m \in M : m.min <= m.max
  BY MatchesApart, SaneMatchFacts
<1> HIDE DEF M, at, q
<1>6. ASSUME NEW t \in S, NEW x \in Int, a <= x, x < b, Covers(t, x)
      PROVE  \E k \in 1..Len(q) : q[k].min <= x /\ x < q[k].max /\ t.who \in q[k].ids
  <2>1. PICK m \in M : m.who = t.who /\ m.min <= x /\ x < m.max
    BY <1>6, MatchCovers DEF M
  <2>2. m.min \in Stamps(M) /\ m.max \in Stamps(M)
    BY DEF Stamps
  <2>3. PICK k \in 1..(Len(at) - 1) : at[k] <= x /\ x < at[k + 1]
    BY <1>2, <2>1, <2>2, Located
  <2>4. m.min <= at[k]
    <3>1. m.min <= at[k] \/ at[k + 1] <= m.min
      BY <1>2, <2>2, NoneBetween
    <3>2. k + 1 \in 1..Len(at) /\ k \in 1..Len(at)
      BY <1>4
    <3> QED
      BY <1>1, <1>4, <2>1, <2>3, <3>1, <3>2
  <2>5. ASSUME NEW e \in M, e.who = m.who, m.min <= e.max, e.max <= at[k] PROVE FALSE
    <3>1. e # m
      BY <1>1, <1>4, <2>1, <2>3, <2>5
    <3>2. e.max < m.min \/ m.max < e.min
      BY <1>5, <2>5, <3>1 DEF Apart
    <3>3. e.min <= e.max /\ k \in 1..Len(at)
      BY <1>4, <1>5
    <3> QED
      BY <1>1, <1>4, <2>1, <2>3, <2>5, <3>2, <3>3
  <2>6. m.who \in CountedIn(M, at[k])
    BY <2>4, <2>5 DEF CountedIn
  <2> QED
    BY <1>3, <2>1, <2>3, <2>6
<1>7. Telling(q, S, a, b)
  BY <1>6 DEF Telling
<1> QED
  BY <1>7 DEF SplitsGet, q, M

-----------------------------------------------------------------------------
(* When the sweep deletes from the set before anything was put into it.    *)

LEMMA FirstBoundary ==
  ASSUME NEW S, S \subseteq Interval, NEW a \in Int, NEW b \in Int,
         Matches(S, a, b) # {}
  PROVE  /\ Boundaries(Matches(S, a, b))[1] \in Stamps(Matches(S, a, b))
         /\ \A x \in Stamps(Matches(S, a, b)) : Boundaries(Matches(S, a, b))[1] <= x
<1> DEFINE M == Matches(S, a, b)
           at == Boundaries(M)
<1>1. Sorts(at, Stamps(M))
  BY MatchFacts, BoundariesSort
<1>2. PICK m \in M : TRUE
  OBVIOUS
<1>3. m.min \in Stamps(M)
  BY DEF Stamps
<1> HIDE DEF M, at
<1>4. /\ Len(at) \in Nat /\ \A k \in 1..Len(at) : at[k] \in Int /\ at[k] \in Stamps(M)
      /\ \A x \in Stamps(M) : \E k \in 1..Len(at) : at[k] = x
      /\ \A j, k \in 1..Len(at) : j < k => at[j] < at[k]
  BY <1>1, LenProperties, ElementOfSeq DEF Sorts
<1>5. 1 \in 1..Len(at)
  BY <1>3, <1>4
<1>6. ASSUME NEW x \in Stamps(M) PROVE at[1] <= x
  <2>1. PICK k \in 1..Len(at) : at[k] = x
    BY <1>4
  <2>2. k = 1 \/ 1 < k
    BY <1>4
  <2> QED
    BY <1>4, <1>5, <2>1, <2>2
<1> QED
  BY <1>4, <1>5, <1>6 DEF M, at

\* Not when the window and the intervals are in order: the first endpoint is
\* the begin of a match.
LEMMA SaneSweepRuns ==
  ASSUME NEW S, S \subseteq Interval, Ordered(S), NEW a \in Int, NEW b \in Int, a <= b
  PROVE  ~ SweepFaults(Matches(S, a, b))
<1> DEFINE M == Matches(S, a, b)
           x == Boundaries(M)[1]
<1> SUFFICES ASSUME M # {} PROVE Begin(M, x) # {}
  BY DEF SweepFaults
<1>1. x \in Stamps(M) /\ \A y \in Stamps(M) : x <= y
  BY FirstBoundary
<1>2. \A m \in M : m.min \in Int /\ m.max \in Int /\ m.min <= m.max
  BY MatchFacts, SaneMatchFacts
<1> HIDE DEF M, x
<1>3. PICK m \in M : x = m.min \/ x = m.max
  BY <1>1 DEF Stamps
<1>4. m.min \in Stamps(M)
  BY DEF Stamps
<1>5. x = m.min
  BY <1>1, <1>2, <1>3, <1>4
<1> QED
  BY <1>5 DEF Begin

\* Always when the window is reversed and anything is matched.
LEMMA ReversedSweepFaults ==
  ASSUME NEW S, S \subseteq Interval, NEW a \in Int, NEW b \in Int, a > b,
         Matches(S, a, b) # {}
  PROVE  SweepFaults(Matches(S, a, b))
<1> DEFINE M == Matches(S, a, b)
           x == Boundaries(M)[1]
<1>1. \A y \in Stamps(M) : x <= y
  BY FirstBoundary
<1>2. \A m \in M : m.min = a /\ m.max = b
  BY ReversedMatches
<1> HIDE DEF x
<1>3. b \in Stamps(M) /\ x \in Stamps(M)
  BY <1>2, FirstBoundary DEF Stamps, x
<1>4. x = b
  BY <1>1, <1>2, <1>3 DEF Stamps
<1>5. Begin(M, x) = {}
  BY <1>2, <1>4 DEF Begin
<1> QED
  BY <1>5 DEF SweepFaults, x

-----------------------------------------------------------------------------
(* What splits_fill makes of a list of splits.                             *)

LEMMA PieceFields ==
  ASSUME NEW s \in Piece
  PROVE  s.min \in Int /\ s.max \in Int /\ s.ids \in SUBSET Ids /\ s.left \in SUBSET Ids
BY DEF Piece

LEMMA NothingIsTruthful ==
  ASSUME NEW S, NEW a, NEW b
  PROVE  Truthful(<<>>, S, a, b)
<1>1. <<>> \in Seq(Piece) /\ Len(<<>>) = 0
  OBVIOUS
<1>2. 1..Len(<<>>) = {}
  BY <1>1
<1> QED
  BY <1>1, <1>2 DEF Truthful

LEMMA OneIsTruthful ==
  ASSUME NEW S, NEW a \in Int, NEW b \in Int, NEW q, Truthful(q, S, a, b),
         NEW k \in 1..Len(q)
  PROVE  Truthful(<<q[k]>>, S, q[k].min, q[k].max)
<1> DEFINE s == q[k]
<1>1. s \in Piece
  BY ElementOfSeq DEF Truthful
<1>2. /\ s.min < s.max /\ s.left = s.ids
      /\ \A w \in s.ids : \E t \in S : t.who = w /\ t.min <= s.min /\ s.max <= t.max
  BY DEF Truthful
<1> HIDE DEF s
<1>3. s.min \in Int /\ s.max \in Int
  BY <1>1, PieceFields
<1>4. <<s>> \in Seq(Piece) /\ Len(<<s>>) = 1 /\ <<s>>[1] = s
  BY <1>1
<1>5. \A i \in 1..Len(<<s>>) : i = 1
  BY <1>4
<1>6. Truthful(<<s>>, S, s.min, s.max)
  <2>1. \A i \in 1..Len(<<s>>) :
          /\ s.min <= <<s>>[i].min /\ <<s>>[i].min < <<s>>[i].max /\ <<s>>[i].max <= s.max
          /\ <<s>>[i].left = <<s>>[i].ids
          /\ \A w \in <<s>>[i].ids :
               \E t \in S : t.who = w /\ t.min <= <<s>>[i].min /\ <<s>>[i].max <= t.max
    <3> SUFFICES ASSUME NEW i \in 1..Len(<<s>>)
                 PROVE  /\ s.min <= s.min /\ s.min < s.max /\ s.max <= s.max
                        /\ s.left = s.ids
                        /\ \A w \in s.ids :
                             \E t \in S : t.who = w /\ t.min <= s.min /\ s.max <= t.max
      BY <1>4, <1>5
    <3> QED
      BY <1>2, <1>3
  <2>2. \A i, j \in 1..Len(<<s>>) : ~ (i < j)
    BY <1>5
  <2> QED
    BY <1>4, <2>1, <2>2 DEF Truthful
<1> QED
  BY <1>6 DEF s

LEMMA WiderIsTruthful ==
  ASSUME NEW S, NEW a \in Int, NEW b \in Int, NEW c \in Int, NEW d \in Int,
         c <= a, b <= d, NEW q, Truthful(q, S, a, b)
  PROVE  Truthful(q, S, c, d)
<1>1. q \in Seq(Piece)
  BY DEF Truthful
<1>2. \A k \in 1..Len(q) : q[k].min \in Int /\ q[k].max \in Int
  BY <1>1, ElementOfSeq, PieceFields
<1>3. \A k \in 1..Len(q) : c <= q[k].min /\ q[k].max <= d
  BY <1>2 DEF Truthful
<1> QED
  BY <1>3 DEF Truthful

LEMMA ConcatIsTruthful ==
  ASSUME NEW S, NEW a \in Int, NEW b \in Int, NEW c \in Int, a <= c, c <= b,
         NEW p, Truthful(p, S, a, c), NEW q, Truthful(q, S, c, b)
  PROVE  Truthful(p \o q, S, a, b)
<1> DEFINE r == p \o q
<1>1. p \in Seq(Piece) /\ q \in Seq(Piece)
  BY DEF Truthful
<1>2. /\ r \in Seq(Piece) /\ Len(r) = Len(p) + Len(q)
      /\ Len(p) \in Nat /\ Len(q) \in Nat
      /\ \A i \in 1..(Len(p) + Len(q)) : r[i] = IF i <= Len(p) THEN p[i] ELSE q[i - Len(p)]
  BY <1>1, ConcatProperties, LenProperties
<1>3. Truthful(p, S, a, b) /\ Truthful(q, S, a, b)
  BY WiderIsTruthful
<1> HIDE DEF r
<1>4. /\ \A i \in 1..Len(p) : p[i].min \in Int /\ p[i].max \in Int
      /\ \A i \in 1..Len(q) : q[i].min \in Int /\ q[i].max \in Int
  BY <1>1, ElementOfSeq, PieceFields
<1>5. \A k \in 1..Len(r) : \/ k \in 1..Len(p) /\ r[k] = p[k]
                           \/ k - Len(p) \in 1..Len(q) /\ r[k] = q[k - Len(p)]
  BY <1>2
<1>6. ASSUME NEW k \in 1..Len(r)
      PROVE  /\ a <= r[k].min /\ r[k].min < r[k].max /\ r[k].max <= b
             /\ r[k].left = r[k].ids
             /\ \A w \in r[k].ids :
                  \E t \in S : t.who = w /\ t.min <= r[k].min /\ r[k].max <= t.max
  <2>1. CASE k \in 1..Len(p) /\ r[k] = p[k]
    BY <1>3, <2>1 DEF Truthful
  <2>2. CASE k - Len(p) \in 1..Len(q) /\ r[k] = q[k - Len(p)]
    <3> DEFINE i == k - Len(p)
    <3>1. i \in 1..Len(q) /\ r[k] = q[i]
      BY <2>2
    <3> HIDE DEF i
    <3> QED
      BY <1>3, <3>1 DEF Truthful
  <2> QED
    BY <1>5, <2>1, <2>2
<1>7. ASSUME NEW j \in 1..Len(r), NEW k \in 1..Len(r), j < k
      PROVE  r[j].max <= r[k].min
  <2>1. CASE k <= Len(p)
    <3>1. j \in 1..Len(p) /\ k \in 1..Len(p) /\ r[j] = p[j] /\ r[k] = p[k]
      BY <1>2, <1>7, <2>1
    <3> QED
      BY <1>7, <3>1 DEF Truthful
  <2>2. CASE j > Len(p)
    <3> DEFINE i == j - Len(p)
               l == k - Len(p)
    <3>1. i \in 1..Len(q) /\ l \in 1..Len(q) /\ r[j] = q[i] /\ r[k] = q[l] /\ i < l
      BY <1>2, <1>7, <2>2
    <3> HIDE DEF i, l
    <3> QED
      BY <3>1 DEF Truthful
  <2>3. CASE j <= Len(p) /\ k > Len(p)
    <3> DEFINE l == k - Len(p)
    <3>1. j \in 1..Len(p) /\ l \in 1..Len(q) /\ r[j] = p[j] /\ r[k] = q[l]
      BY <1>2, <1>7, <2>3
    <3> HIDE DEF l
    <3>2. p[j].max <= c /\ c <= q[l].min
      BY <3>1 DEF Truthful
    <3> QED
      BY <1>4, <3>1, <3>2
  <2> QED
    BY <1>2, <2>1, <2>2, <2>3
<1> QED
  BY <1>2, <1>6, <1>7 DEF Truthful, r

\* FlattenSeq by what it is at every prefix of the list of lists.
FlatBy(ss, f, n) ==
  f = [i \in 1..n |-> IF i = 1 THEN ss[i] ELSE f[i - 1] \o ss[i]]

LEMMA FlatStep ==
  ASSUME NEW ss, NEW n \in Nat, NEW f, FlatBy(ss, f, n)
  PROVE  \E g : FlatBy(ss, g, n + 1)
<1> DEFINE g == [i \in 1..(n + 1) |->
                   IF i = 1 THEN ss[i] ELSE IF i <= n THEN f[i] ELSE f[i - 1] \o ss[i]]
<1>1. \A i \in 1..n : f[i] = IF i = 1 THEN ss[i] ELSE f[i - 1] \o ss[i]
  BY DEF FlatBy
<1>2. \A i \in 1..(n + 1) :
        g[i] = IF i = 1 THEN ss[i] ELSE IF i <= n THEN f[i] ELSE f[i - 1] \o ss[i]
  OBVIOUS
<1>3. DOMAIN g = 1..(n + 1) /\ g = [i \in 1..(n + 1) |-> g[i]]
  OBVIOUS
<1> HIDE DEF g
<1>4. ASSUME NEW i \in 1..n PROVE g[i] = f[i]
  <2>1. i \in 1..(n + 1) /\ i <= n
    OBVIOUS
  <2> QED
    BY <1>1, <1>2, <2>1
<1>5. ASSUME NEW i \in 1..(n + 1)
      PROVE  g[i] = IF i = 1 THEN ss[i] ELSE g[i - 1] \o ss[i]
  <2>1. CASE i = 1
    BY <1>2, <2>1
  <2>2. CASE i # 1
    <3>1. i - 1 \in 1..n /\ g[i - 1] = f[i - 1]
      BY <1>4, <2>2
    <3>2. g[i] = f[i - 1] \o ss[i]
      <4>1. CASE i <= n
        <5>1. i \in 1..n /\ g[i] = f[i]
          BY <1>2, <2>2, <4>1
        <5> QED
          BY <1>1, <2>2, <5>1
      <4>2. CASE ~ (i <= n)
        BY <1>2, <2>2, <4>2
      <4> QED
        BY <4>1, <4>2
    <3> QED
      BY <2>2, <3>1, <3>2
  <2> QED
    BY <2>1, <2>2
<1>6. g = [i \in 1..(n + 1) |-> IF i = 1 THEN ss[i] ELSE g[i - 1] \o ss[i]]
  BY <1>3, <1>5
<1> QED
  BY <1>6 DEF FlatBy

LEMMA FlatExists ==
  ASSUME NEW ss, NEW n \in Nat
  PROVE  \E f : FlatBy(ss, f, n)
<1> DEFINE T == {m \in Nat : \E f : FlatBy(ss, f, m)}
<1>1. 0 \in T
  <2> DEFINE f == [i \in 1..0 |-> ss[i]]
  <2>1. f = [i \in 1..0 |-> IF i = 1 THEN ss[i] ELSE f[i - 1] \o ss[i]]
    OBVIOUS
  <2> HIDE DEF f
  <2>2. FlatBy(ss, f, 0)
    BY <2>1 DEF FlatBy
  <2> QED
    BY <2>2
<1>2. \A m \in T : m + 1 \in T
  BY FlatStep
<1>3. T \in SUBSET Nat
  OBVIOUS
<1> HIDE DEF T
<1>4. T = Nat
  BY <1>1, <1>2, <1>3, AllNaturals
<1> QED
  BY <1>4 DEF T

LEMMA FlattenIs ==
  ASSUME NEW ss, NEW n \in Nat, Len(ss) = n, n # 0
  PROVE  \E f : FlatBy(ss, f, n) /\ FlattenSeq(ss) = f[n]
<1> DEFINE c == CHOOSE f : FlatBy(ss, f, n)
<1>1. FlatBy(ss, c, n)
  BY FlatExists
<1>2. FlattenSeq(ss) = c[n]
  BY DEF FlattenSeq, FlatBy
<1> QED
  BY <1>1, <1>2

\* q holds every piece of the first n of p that names somebody.
Keeping(q, p, n) ==
  \A k \in 1..n : p[k].ids # {} => \E i \in 1..Len(q) : q[i] = p[k]

LEMMA ConcatKeeps ==
  ASSUME NEW u \in Seq(Piece), NEW v \in Seq(Piece), NEW p, NEW n \in Nat,
         Keeping(u, p, n),
         p[n + 1].ids # {} => \E i \in 1..Len(v) : v[i] = p[n + 1]
  PROVE  Keeping(u \o v, p, n + 1)
<1> DEFINE r == u \o v
<1>1. /\ Len(r) = Len(u) + Len(v) /\ Len(u) \in Nat /\ Len(v) \in Nat
      /\ \A i \in 1..(Len(u) + Len(v)) : r[i] = IF i <= Len(u) THEN u[i] ELSE v[i - Len(u)]
  BY ConcatProperties, LenProperties
<1> HIDE DEF r
<1>2. ASSUME NEW k \in 1..(n + 1), p[k].ids # {}
      PROVE  \E i \in 1..Len(r) : r[i] = p[k]
  <2>1. CASE k \in 1..n
    <3>1. PICK i \in 1..Len(u) : u[i] = p[k]
      BY <1>2, <2>1 DEF Keeping
    <3>2. i \in 1..Len(r) /\ r[i] = u[i]
      BY <1>1
    <3> QED
      BY <3>1, <3>2
  <2>2. CASE k = n + 1
    <3>1. PICK i \in 1..Len(v) : v[i] = p[k]
      BY <1>2, <2>2
    <3>2. i + Len(u) \in 1..Len(r) /\ r[i + Len(u)] = v[i]
      BY <1>1
    <3> QED
      BY <3>1, <3>2
  <2> QED
    BY <2>1, <2>2
<1> QED
  BY <1>2 DEF Keeping, r

LEMMA RefillIsTruthful ==
  ASSUME NEW S, S \subseteq Interval, Ordered(S), NEW a \in Int, NEW b \in Int,
         NEW q, Truthful(q, S, a, b), NEW k \in 1..Len(q)
  PROVE  /\ Truthful(Refill(S, q[k]), S, q[k].min, q[k].max)
         /\ Refill(S, q[k]) \in Seq(Piece)
         /\ q[k].ids # {} => \E i \in 1..Len(Refill(S, q[k])) : Refill(S, q[k])[i] = q[k]
<1>1. q[k] \in Piece
  BY ElementOfSeq DEF Truthful
<1>2. q[k].min \in Int /\ q[k].max \in Int /\ q[k].min < q[k].max
  BY <1>1, PieceFields DEF Truthful
<1>3. Truthful(Refill(S, q[k]), S, q[k].min, q[k].max)
  <2>1. CASE q[k].ids = {}
    BY <1>2, <2>1, SweepIsTruthful DEF Refill
  <2>2. CASE q[k].ids # {}
    BY <2>2, OneIsTruthful DEF Refill
  <2> QED
    BY <2>1, <2>2
<1>4. ASSUME q[k].ids # {} PROVE \E i \in 1..Len(Refill(S, q[k])) : Refill(S, q[k])[i] = q[k]
  <2>1. Refill(S, q[k]) = <<q[k]>>
    BY <1>4 DEF Refill
  <2>2. Len(<<q[k]>>) = 1 /\ <<q[k]>>[1] = q[k]
    OBVIOUS
  <2>3. 1 \in 1..Len(<<q[k]>>)
    BY <2>2
  <2> QED
    BY <2>1, <2>2, <2>3
<1> QED
  BY <1>3, <1>4 DEF Truthful

\* Putting the answers in place of the splits nobody is in.
LEMMA RefilledIsTruthful ==
  ASSUME NEW S, S \subseteq Interval, Ordered(S), NEW a \in Int, NEW b \in Int,
         NEW q, Truthful(q, S, a, b), q # <<>>,
         NEW F, F = FlattenSeq([k \in DOMAIN q |-> Refill(S, q[k])])
  PROVE  /\ Len(q) \in Nat /\ 1 \in 1..Len(q) /\ Len(q) \in 1..Len(q)
         /\ Truthful(F, S, q[1].min, q[Len(q)].max)
         /\ Keeping(F, q, Len(q))
<1>1. q \in Seq(Piece)
  BY DEF Truthful
<1>2. Len(q) \in Nat /\ DOMAIN q = 1..Len(q) /\ Len(q) # 0
  BY <1>1, LenProperties, EmptySeq
<1>3. 1 \in 1..Len(q) /\ Len(q) \in 1..Len(q)
  BY <1>2
<1> DEFINE ss == [k \in DOMAIN q |-> Refill(S, q[k])]
<1>4. /\ \A k \in 1..Len(q) : ss[k] = Refill(S, q[k])
      /\ DOMAIN ss = 1..Len(q)
  BY <1>2
<1>5. \A k \in 1..Len(q) :
        /\ Truthful(ss[k], S, q[k].min, q[k].max)
        /\ ss[k] \in Seq(Piece)
        /\ q[k].ids # {} => \E i \in 1..Len(ss[k]) : ss[k][i] = q[k]
  BY <1>4, RefillIsTruthful
<1>6. Len(ss) = Len(q)
  <2>1. ss \in [1..Len(q) -> Seq(Piece)]
    BY <1>2, <1>4, <1>5
  <2>2. ss \in Seq(Seq(Piece))
    BY <1>2, <2>1, SeqDef
  <2> QED
    BY <1>2, <1>4, <2>2, LenProperties
<1>7. F = FlattenSeq(ss)
  OBVIOUS
<1> HIDE DEF ss
<1>8. PICK f : FlatBy(ss, f, Len(q)) /\ F = f[Len(q)]
  BY <1>2, <1>6, <1>7, FlattenIs
<1>9. \A i \in 1..Len(q) : f[i] = IF i = 1 THEN ss[i] ELSE f[i - 1] \o ss[i]
  BY <1>8 DEF FlatBy
<1>10. /\ \A k \in 1..Len(q) : /\ q[k].min \in Int /\ q[k].max \in Int
                               /\ q[k].min < q[k].max
       /\ \A j, k \in 1..Len(q) : j < k => q[j].max <= q[k].min
  BY <1>1, ElementOfSeq, PieceFields DEF Truthful
<1> DEFINE Good(n) == Truthful(f[n], S, q[1].min, q[n].max) /\ Keeping(f[n], q, n)
           T == {n \in Nat : n + 1 \in 1..Len(q) => Good(n + 1)}
<1>11. Good(1)
  <2>1. f[1] = ss[1]
    BY <1>3, <1>9
  <2>2. Truthful(ss[1], S, q[1].min, q[1].max)
    BY <1>3, <1>5
  <2>3. \A k \in 1..1 : k = 1
    OBVIOUS
  <2>4. Keeping(ss[1], q, 1)
    BY <1>3, <1>5, <2>3 DEF Keeping
  <2> QED
    BY <2>1, <2>2, <2>4
<1>12. ASSUME NEW n \in Nat, n \in 1..Len(q), n + 1 \in 1..Len(q), Good(n) PROVE Good(n + 1)
  <2>1. f[n + 1] = f[n] \o ss[n + 1]
    <3>1. (n + 1) - 1 = n /\ n + 1 # 1
      BY <1>12
    <3> QED
      BY <1>9, <1>12, <3>1
  <2>2. /\ q[1].min \in Int /\ q[n].max \in Int /\ q[n + 1].min \in Int /\ q[n + 1].max \in Int
        /\ q[n].max <= q[n + 1].min /\ q[n + 1].min < q[n + 1].max
    BY <1>3, <1>10, <1>12
  <2>3. q[1].min <= q[n].max
    <3>1. n = 1 \/ 1 < n
      BY <1>12
    <3>2. n = 1 \/ q[1].max <= q[n].min
      BY <1>3, <1>10, <1>12, <3>1
    <3> QED
      BY <1>3, <1>10, <1>12, <3>2
  <2>4. Truthful(ss[n + 1], S, q[n].max, q[n + 1].max)
    BY <1>5, <1>12, <2>2, WiderIsTruthful
  <2>5. Truthful(f[n] \o ss[n + 1], S, q[1].min, q[n + 1].max)
    BY <1>12, <2>2, <2>3, <2>4, ConcatIsTruthful
  <2>6. f[n] \in Seq(Piece) /\ ss[n + 1] \in Seq(Piece)
    BY <1>12, <2>4 DEF Truthful
  <2>7. Keeping(f[n] \o ss[n + 1], q, n + 1)
    BY <1>5, <1>12, <2>6, ConcatKeeps
  <2> QED
    BY <2>1, <2>5, <2>7
<1>13. 0 \in T /\ T \in SUBSET Nat
  BY <1>11
<1>14. ASSUME NEW n \in T PROVE n + 1 \in T
  <2> SUFFICES ASSUME (n + 1) + 1 \in 1..Len(q) PROVE Good((n + 1) + 1)
    OBVIOUS
  <2>1. n + 1 \in Nat /\ n + 1 \in 1..Len(q)
    BY <1>2
  <2>2. Good(n + 1)
    BY <1>14, <2>1
  <2> HIDE DEF Good
  <2> QED
    BY <1>12, <2>1, <2>2
<1> HIDE DEF T
<1>15. T = Nat
  BY <1>13, <1>14, AllNaturals
<1>16. Good(Len(q))
  <2>1. Len(q) - 1 \in T /\ (Len(q) - 1) + 1 = Len(q)
    BY <1>2, <1>15
  <2> HIDE DEF Good
  <2> QED
    BY <1>3, <2>1 DEF T
<1> QED
  BY <1>2, <1>3, <1>8, <1>16

LEMMA GapIsTruthful ==
  ASSUME NEW S, S \subseteq Interval, Ordered(S), NEW a \in Int, NEW b \in Int, a <= b
  PROVE  Truthful(Gap(S, a, b), S, a, b)
BY SweepIsTruthful, NothingIsTruthful DEF Gap

\* An answer is truthful over any store without an inverted interval.
LEMMA QueryIsTruthful ==
  ASSUME NEW S, S \subseteq Interval, Ordered(S), NEW a \in Int, NEW b \in Int, a <= b
  PROVE  /\ Truthful(Query(S, a, b), S, a, b)
         /\ SplitsGet(S, a, b) = <<>> \/ Keeping(Query(S, a, b), SplitsGet(S, a, b), Len(SplitsGet(S, a, b)))
<1> DEFINE q == SplitsGet(S, a, b)
<1>1. Truthful(q, S, a, b)
  BY SweepIsTruthful
<1> HIDE DEF q
<1>2. CASE q = <<>>
  <2>1. Query(S, a, b) = q
    BY <1>2 DEF Query, SplitsFill, q
  <2> QED
    BY <1>1, <1>2, <2>1 DEF q
<1>3. CASE q # <<>>
  <2> DEFINE F == FlattenSeq([k \in DOMAIN q |-> Refill(S, q[k])])
             A == Gap(S, a, q[1].min)
             B == Gap(S, q[Len(q)].max, b)
  <2>1. Query(S, a, b) = A \o F \o B
    BY <1>3 DEF Query, SplitsFill, Last, q
  <2>2. /\ 1 \in 1..Len(q) /\ Len(q) \in 1..Len(q) /\ Len(q) \in Nat
        /\ Truthful(F, S, q[1].min, q[Len(q)].max)
        /\ Keeping(F, q, Len(q))
    BY <1>1, <1>3, RefilledIsTruthful
  <2> HIDE DEF F, A, B
  <2>3. q \in Seq(Piece)
    BY <1>1 DEF Truthful
  <2>4. \A k \in 1..Len(q) : /\ q[k].min \in Int /\ q[k].max \in Int
                             /\ a <= q[k].min /\ q[k].min < q[k].max /\ q[k].max <= b
    BY <1>1, <2>3, ElementOfSeq, PieceFields DEF Truthful
  <2>5. q[1].min <= q[Len(q)].max
    <3>1. Len(q) = 1 \/ 1 < Len(q)
      BY <2>2
    <3>2. Len(q) = 1 \/ q[1].max <= q[Len(q)].min
      BY <1>1, <2>2, <3>1 DEF Truthful
    <3> QED
      BY <2>2, <2>4, <3>2
  <2>6. /\ q[1].min \in Int /\ q[Len(q)].max \in Int
        /\ a <= q[1].min /\ q[Len(q)].max <= b
    BY <2>2, <2>4
  <2>7. Truthful(A, S, a, q[1].min) /\ Truthful(B, S, q[Len(q)].max, b)
    BY <2>6, GapIsTruthful DEF A, B
  <2>8. Truthful(A \o F, S, a, q[Len(q)].max)
    BY <2>2, <2>5, <2>6, <2>7, ConcatIsTruthful
  <2>9. Truthful(A \o F \o B, S, a, b)
    <3>1. a <= q[Len(q)].max
      BY <2>5, <2>6
    <3> QED
      BY <2>6, <2>7, <2>8, <3>1, ConcatIsTruthful
  <2>10. Keeping(A \o F \o B, q, Len(q))
    <3>1. A \in Seq(Piece) /\ F \in Seq(Piece) /\ B \in Seq(Piece) /\ A \o F \in Seq(Piece)
      BY <2>2, <2>7, <2>8 DEF Truthful
    <3>2. /\ Len(A \o F) = Len(A) + Len(F) /\ Len(A) \in Nat /\ Len(F) \in Nat /\ Len(B) \in Nat
          /\ \A i \in 1..(Len(A) + Len(F)) :
               (A \o F)[i] = IF i <= Len(A) THEN A[i] ELSE F[i - Len(A)]
      BY <3>1, ConcatProperties, LenProperties
    <3>3. /\ Len(A \o F \o B) = Len(A \o F) + Len(B)
          /\ \A i \in 1..(Len(A \o F) + Len(B)) :
               (A \o F \o B)[i] = IF i <= Len(A \o F) THEN (A \o F)[i] ELSE B[i - Len(A \o F)]
      BY <3>1, ConcatProperties
    <3>4. ASSUME NEW i \in 1..Len(F)
          PROVE  \E j \in 1..Len(A \o F \o B) : (A \o F \o B)[j] = F[i]
      <4> DEFINE j == i + Len(A)
      <4>1. j \in 1..(Len(A) + Len(F)) /\ ~ (j <= Len(A)) /\ j - Len(A) = i
        BY <3>2
      <4>2. (A \o F)[j] = F[i]
        BY <3>2, <4>1
      <4>3. /\ j \in 1..Len(A \o F \o B) /\ j \in 1..(Len(A \o F) + Len(B))
            /\ j <= Len(A \o F)
        BY <3>2, <3>3, <4>1
      <4> HIDE DEF j
      <4> QED
        BY <3>3, <4>2, <4>3
    <3>5. ASSUME NEW k \in 1..Len(q), q[k].ids # {}
          PROVE  \E j \in 1..Len(A \o F \o B) : (A \o F \o B)[j] = q[k]
      <4>1. PICK i \in 1..Len(F) : F[i] = q[k]
        BY <2>2, <3>5 DEF Keeping
      <4> QED
        BY <3>4, <4>1
    <3> QED
      BY <3>5 DEF Keeping
  <2> QED
    BY <2>1, <2>9, <2>10 DEF q
<1> QED
  BY <1>2, <1>3

\* It tells everybody when the intervals of each entity lie apart.
LEMMA QueryTells ==
  ASSUME NEW S, S \subseteq Interval, Ordered(S), Apart(S),
         NEW a \in Int, NEW b \in Int, a <= b
  PROVE  Telling(Query(S, a, b), S, a, b)
<1> DEFINE q == SplitsGet(S, a, b)
           r == Query(S, a, b)
<1>1. Telling(q, S, a, b)
  BY SweepTells
<1>2. q = <<>> \/ Keeping(r, q, Len(q))
  BY QueryIsTruthful
<1> HIDE DEF q, r
<1> SUFFICES ASSUME NEW t \in S, NEW x \in Int, a <= x, x < b, Covers(t, x)
             PROVE  \E i \in 1..Len(r) : r[i].min <= x /\ x < r[i].max /\ t.who \in r[i].ids
  BY DEF Telling, r
<1>3. PICK k \in 1..Len(q) : q[k].min <= x /\ x < q[k].max /\ t.who \in q[k].ids
  BY <1>1 DEF Telling
<1>4. q # <<>>
  BY <1>3
<1>5. PICK i \in 1..Len(r) : r[i] = q[k]
  BY <1>2, <1>3, <1>4 DEF Keeping
<1> QED
  BY <1>3, <1>5

\* Nothing faults.
LEMMA SaneQueryRuns ==
  ASSUME NEW S, S \subseteq Interval, Ordered(S), NEW a \in Int, NEW b \in Int, a <= b
  PROVE  ~ QueryFaults(S, a, b)
<1> DEFINE q == SplitsGet(S, a, b)
<1>1. Truthful(q, S, a, b)
  BY SweepIsTruthful
<1> HIDE DEF q
<1>2. q \in Seq(Piece)
  BY <1>1 DEF Truthful
<1>3. /\ Len(q) \in Nat /\ DOMAIN q = 1..Len(q)
      /\ \A k \in 1..Len(q) : q[k].min \in Int /\ q[k].max \in Int /\ q[k].min < q[k].max
  BY <1>1, <1>2, LenProperties, ElementOfSeq, PieceFields DEF Truthful
<1>4. \A w \in Asked(q, a, b) : w[1] \in Int /\ w[2] \in Int /\ w[1] <= w[2]
  <2>1. CASE q = <<>>
    BY <2>1 DEF Asked
  <2>2. CASE q # <<>>
    <3>1. 1 \in 1..Len(q) /\ Len(q) \in 1..Len(q)
      BY <1>2, <1>3, <2>2, EmptySeq
    <3>2. Last(q) = q[Len(q)]
      BY DEF Last
    <3>3. ASSUME NEW w \in {v \in {<<a, q[1].min>>, <<Last(q).max, b>>} : v[1] < v[2]}
          PROVE  w[1] \in Int /\ w[2] \in Int /\ w[1] <= w[2]
      BY <1>3, <3>1, <3>2
    <3>4. ASSUME NEW w \in {<<s.min, s.max>> : s \in {r \in ToSet(q) : r.ids = {}}}
          PROVE  w[1] \in Int /\ w[2] \in Int /\ w[1] <= w[2]
      <4>1. PICK k \in 1..Len(q) : w = <<q[k].min, q[k].max>>
        BY <1>3 DEF ToSet
      <4> QED
        BY <1>3, <4>1
    <3> QED
      BY <2>2, <3>3, <3>4 DEF Asked
  <2> QED
    BY <2>1, <2>2
<1>5. \A w \in Asked(q, a, b) : ~ SweepFaults(Matches(S, w[1], w[2]))
  BY <1>4, SaneSweepRuns
<1>6. ~ SweepFaults(Matches(S, a, b))
  BY SaneSweepRuns
<1> QED
  BY <1>5, <1>6 DEF QueryFaults, q

\* Where nothing is matched there is nothing to say.
LEMMA NothingMatched ==
  ASSUME NEW S, NEW a, NEW b, Matches(S, a, b) = {}
  PROVE  SplitsGet(S, a, b) = <<>>
<1>1. Stamps(Matches(S, a, b)) = {}
  BY DEF Stamps
<1>2. Cardinality(Stamps(Matches(S, a, b))) = 0
  BY <1>1, FS_EmptySet
<1>3. Boundaries(Matches(S, a, b)) = <<>>
  <2>1. 1..0 = {}
    OBVIOUS
  <2>2. Boundaries(Matches(S, a, b)) \in [1..0 -> {}]
    BY <1>1, <1>2, <2>1 DEF Boundaries
  <2>3. Boundaries(Matches(S, a, b)) \in Seq({})
    BY <2>2, SeqDef
  <2> QED
    BY <2>1, <2>2, <2>3, LenProperties, EmptySeq
<1>4. Len(<<>>) = 0 /\ 1..(0 - 1) = {} /\ 1..0 = {}
  OBVIOUS
<1>5. SplitsGet(S, a, b) \in [1..0 -> {}]
  BY <1>3, <1>4 DEF SplitsGet, Sweep
<1>6. SplitsGet(S, a, b) \in Seq({})
  BY <1>5, SeqDef
<1> QED
  BY <1>5, <1>6, LenProperties, EmptySeq

\* A reversed query faults or finds nothing to say.
LEMMA ReversedQuery ==
  ASSUME NEW S, S \subseteq Interval, NEW a \in Int, NEW b \in Int, a > b,
         ~ QueryFaults(S, a, b)
  PROVE  Query(S, a, b) = <<>>
<1>1. Matches(S, a, b) = {}
  BY ReversedSweepFaults DEF QueryFaults
<1> QED
  BY <1>1, NothingMatched DEF Query, SplitsFill
=============================================================================
