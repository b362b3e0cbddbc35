------------------------- MODULE EndpointSweepProofs ------------------------
(***************************************************************************)
(* Theorems about EndpointSweep: over any store of sane intervals and any  *)
(* window with from <= to the sweep never touches an unallocated set and   *)
(* names nobody who was not there; when the intervals of each entity lie   *)
(* apart it names everybody.                                               *)
(***************************************************************************)
EXTENDS EndpointSweep, SplitsProofs

Typed ==
  /\ store \in Stores /\ <<from, to>> \in Windows
  /\ todo \subseteq Endpoints
  /\ whos \subseteq Ids
  /\ splits \in Seq(Piece)

\* The endpoints processed precede those left.
InOrder == \A p \in Endpoints \ todo, e \in todo : ~ Earlier(e, p)

\* Until the first put nobody has begun.
FirstIsPut == ~ allocated => \A t \in M : BeginOf(t) \in todo

\* Whoever is in the set has begun an interval that has not ended ...
InByRight ==
  Sane => \A w \in whos : \E t \in M :
            t.who = w /\ BeginOf(t) \notin todo /\ EndOf(t) \in todo

\* ... and, when the intervals of each entity lie apart, whoever has is in it.
NobodyMissed ==
  Sane /\ Apart(store) =>
    \A t \in M : BeginOf(t) \notin todo /\ EndOf(t) \in todo => t.who \in whos

\* The last split ends where the next endpoint lies.
Linked ==
  splits # <<>> => \A f \in FirstOf(todo) : splits[Len(splits)].max = f.ts

\* The set is what the puts and deletions so far come to.
SetIsReplay ==
  whos = {t.who : t \in {u \in M : /\ BeginOf(u) \notin todo
                                   /\ ~ \E v \in M : /\ v.who = u.who /\ EndOf(v) \notin todo
                                                     /\ BeginOf(u).ts <= EndOf(v).ts}}

\* The query of module Splits, and its boundaries.
Matched == Matches(store, from, to)
Stops   == Boundaries(Matched)

\* The splits so far are the first ones of the answer.
HalfWay ==
  /\ todo = {} => M = {} /\ splits = <<>>
  /\ \A k \in 1..Len(splits) : splits[k] = Split(Stops[k], Stops[k + 1], CountedIn(Matched, Stops[k]))
  /\ \A f \in FirstOf(todo) :
       Len(splits) + 1 \in 1..Len(Stops) /\ Stops[Len(splits) + 1] = f.ts

\* The loop dies when the set faults in module Splits.
DiesRightly == dead => SweepFaults(Matched)

IInv ==
  /\ Typed
  /\ InOrder /\ FirstIsPut /\ InByRight /\ NobodyMissed /\ Linked
  /\ NeverFaults /\ SplitsAreTrue /\ SplitsAreExact /\ SplitsChain
  /\ SetIsReplay /\ HalfWay /\ DiesRightly

-----------------------------------------------------------------------------
(* Facts about the endpoints of one query.                                 *)

LEMMA QueryTypes ==
  ASSUME Typed
  PROVE  /\ store \subseteq Interval
         /\ from \in Int /\ to \in Int /\ MInf \in Int /\ Inf \in Int
         /\ \A t \in store : t.min \in Int /\ t.max \in Int /\ t.who \in Ids
BY QueryAssumption, SentinelAssumption DEF Typed, Interval

LEMMA EndpointKinds ==
  ASSUME Typed
  PROVE  /\ M \subseteq store
         /\ \A t \in M : /\ BeginOf(t) \in Endpoints /\ EndOf(t) \in Endpoints
                         /\ BeginOf(t).max = 0 /\ EndOf(t).max = 1
                         /\ BeginOf(t).of = t /\ EndOf(t).of = t
                         /\ BeginOf(t).ts \in Int /\ EndOf(t).ts \in Int
         /\ \A e \in Endpoints : /\ e.of \in M /\ e.ts \in Int /\ e.max \in {0, 1}
                                 /\ e.max = 0 => e = BeginOf(e.of)
                                 /\ e.max = 1 => e = EndOf(e.of)
<1>1. M \subseteq store
  BY DEF M, Matching
<1>2. \A t \in M : Clip(t, from, to).min \in Int /\ Clip(t, from, to).max \in Int
  BY <1>1, QueryTypes DEF Clip, Interval
<1>3. \A t \in M : /\ BeginOf(t) \in Endpoints /\ EndOf(t) \in Endpoints
                   /\ BeginOf(t).max = 0 /\ EndOf(t).max = 1
                   /\ BeginOf(t).of = t /\ EndOf(t).of = t
                   /\ BeginOf(t).ts \in Int /\ EndOf(t).ts \in Int
  BY <1>2 DEF Endpoints, BeginOf, EndOf
<1>4. \A e \in Endpoints : \E t \in M : e = BeginOf(t) \/ e = EndOf(t)
  BY DEF Endpoints
<1> QED
  BY <1>1, <1>3, <1>4

\* Clipping keeps an interval within the window, and within itself.
LEMMA Clipped ==
  ASSUME Typed, Sane, NEW t \in M
  PROVE  /\ from <= BeginOf(t).ts /\ t.min <= BeginOf(t).ts
         /\ BeginOf(t).ts = from \/ BeginOf(t).ts = t.min
         /\ EndOf(t).ts <= to /\ EndOf(t).ts <= t.max
         /\ EndOf(t).ts = to \/ EndOf(t).ts = t.max
         /\ BeginOf(t).ts <= EndOf(t).ts
<1>1. t \in store /\ t.max >= from /\ t.min < to
  BY DEF M, Matching
<1>2. t \in Interval /\ t.min \in Int /\ t.max \in Int /\ from \in Int /\ to \in Int
  BY <1>1, QueryTypes
<1>3. t.min <= t.max /\ from <= to
  BY <1>1 DEF Sane, Ordered
<1>4. /\ Clip(t, from, to).min = IF t.min < from THEN from ELSE t.min
      /\ Clip(t, from, to).max = IF t.max > to THEN to ELSE t.max
  BY <1>2 DEF Clip, Interval
<1> QED
  BY <1>1, <1>2, <1>3, <1>4 DEF BeginOf, EndOf

-----------------------------------------------------------------------------
(* One step of the loop: endpoint e is the first left, next the first after *)
(* it.                                                                      *)

\* What a step that passes e leaves alone and how it cuts the endpoints.
LEMMA Passing ==
  ASSUME Typed, InOrder, NEW e \in FirstOf(todo), NEW next \in FirstOf(todo \ {e}),
         MoveOn(e, next)
  PROVE  /\ e \in todo /\ next \in todo /\ next # e /\ todo' = todo \ {e}
         /\ UNCHANGED query
         /\ e.ts <= next.ts
         /\ \A p \in Endpoints \ todo' : p.ts <= e.ts
         /\ \A f \in todo' : next.ts <= f.ts
<1>1. e \in todo /\ next \in todo /\ next # e /\ todo' = todo \ {e} /\ UNCHANGED query
  BY DEF FirstOf, MoveOn
<1>2. \A x \in Endpoints : x.ts \in Int
  BY EndpointKinds
<1>3. todo \subseteq Endpoints
  BY DEF Typed
<1>4. \A f \in todo : ~ Earlier(f, e)
  BY DEF FirstOf
<1>5. \A f \in todo \ {e} : ~ Earlier(f, next)
  BY DEF FirstOf
<1>6. e.ts <= next.ts
  BY <1>1, <1>2, <1>3, <1>4 DEF Earlier
<1>7. \A p \in Endpoints \ todo' : p.ts <= e.ts
  BY <1>1, <1>2, <1>3 DEF InOrder, Earlier
<1>8. \A f \in todo' : next.ts <= f.ts
  BY <1>1, <1>2, <1>3, <1>5 DEF Earlier
<1> QED
  BY <1>1, <1>6, <1>7, <1>8

\* The query does not change, nor what is derived from it.
LEMMA SameQuery ==
  ASSUME UNCHANGED query
  PROVE  /\ store' = store /\ from' = from /\ to' = to
         /\ M' = M /\ Endpoints' = Endpoints /\ Sane' = Sane
         /\ \A t : BeginOf(t)' = BeginOf(t) /\ EndOf(t)' = EndOf(t)
BY DEF query, M, Endpoints, Sane, BeginOf, EndOf

\* With a sane query the first endpoint left is not an end while the set is
\* unallocated: the begin of the same interval would come before it.
LEMMA NoCrash ==
  ASSUME Typed, FirstIsPut, Sane, NEW e \in FirstOf(todo), e.max = 1
  PROVE  allocated
<1>1. e \in todo /\ e \in Endpoints
  BY DEF FirstOf, Typed
<1>2. e.of \in M /\ e = EndOf(e.of)
  BY <1>1, EndpointKinds
<1>3. BeginOf(e.of).ts <= e.ts /\ BeginOf(e.of).max = 0
  BY <1>2, Clipped, EndpointKinds
<1>4. e.ts \in Int /\ BeginOf(e.of).ts \in Int
  BY <1>1, <1>2, EndpointKinds
<1>5. Earlier(BeginOf(e.of), e)
  BY <1>3, <1>4 DEF Earlier
<1> QED
  BY <1>2, <1>5 DEF FirstOf, FirstIsPut

\* The parts of the invariant that do not depend on what the step does to the
\* set of ids.
LEMMA OrderKeeps ==
  ASSUME Typed, InOrder, NEW e \in FirstOf(todo), NEW next \in FirstOf(todo \ {e}),
         MoveOn(e, next)
  PROVE  InOrder'
<1>1. UNCHANGED query /\ todo' = todo \ {e} /\ e \in todo
  BY Passing
<1>2. Endpoints' = Endpoints
  BY <1>1, SameQuery
<1>3. \A f \in todo : ~ Earlier(f, e)
  BY DEF FirstOf
<1>4. \A p \in Endpoints \ todo', f \in todo' : ~ Earlier(f, p)
  BY <1>1, <1>3 DEF InOrder
<1> QED
  BY <1>2, <1>4 DEF InOrder, Earlier

LEMMA TypeKeeps ==
  ASSUME Typed, InOrder, NEW e \in FirstOf(todo), NEW next \in FirstOf(todo \ {e}),
         MoveOn(e, next), whos' \subseteq Ids
  PROVE  Typed'
<1>1. UNCHANGED query /\ todo' = todo \ {e} /\ e \in todo /\ next \in todo
  BY Passing
<1>2. Endpoints' = Endpoints /\ store' = store /\ from' = from /\ to' = to
  BY <1>1, SameQuery
<1>3. e.ts \in Int /\ next.ts \in Int
  BY <1>1, EndpointKinds DEF Typed
<1>4. Split(e.ts, next.ts, whos') \in Piece
  BY <1>3 DEF Split, Piece
<1>5. splits \in Seq(Piece)
  BY DEF Typed
<1>6. splits' \in Seq(Piece)
  BY <1>4, <1>5 DEF MoveOn
<1> QED
  BY <1>1, <1>2, <1>6 DEF Typed

-----------------------------------------------------------------------------
(* What a put and a deletion do to the set.                                *)

LEMMA PutKeeps ==
  ASSUME IInv, NEW e \in FirstOf(todo), NEW next \in FirstOf(todo \ {e}),
         Put(e, next)
  PROVE  Typed' /\ FirstIsPut' /\ InByRight' /\ NobodyMissed'
<1>1. Typed /\ InOrder /\ InByRight /\ NobodyMissed
  BY DEF IInv
<1>2. MoveOn(e, next) /\ e.max = 0 /\ whos' = whos \cup {e.of.who} /\ allocated'
  BY DEF Put, PutId
<1>3. /\ UNCHANGED query /\ todo' = todo \ {e} /\ e \in todo /\ e \in Endpoints
      /\ store' = store /\ M' = M /\ Sane' = Sane
      /\ \A t : BeginOf(t)' = BeginOf(t) /\ EndOf(t)' = EndOf(t)
  BY <1>1, <1>2, Passing, SameQuery DEF Typed
<1>4. e.of \in M /\ e = BeginOf(e.of) /\ e.of.who \in Ids
  BY <1>1, <1>2, <1>3, EndpointKinds, QueryTypes
<1>5. Typed'
  BY <1>1, <1>2, <1>4, TypeKeeps DEF Typed
<1>6. FirstIsPut'
  BY <1>2 DEF FirstIsPut
<1>7. \A t \in M : EndOf(t) # e
  BY <1>1, <1>2, EndpointKinds
<1>8. ASSUME Sane PROVE EndOf(e.of) \in todo
  <2>1. BeginOf(e.of).ts <= EndOf(e.of).ts
    BY <1>1, <1>4, <1>8, Clipped
  <2>2. /\ EndOf(e.of).max = 1 /\ EndOf(e.of) \in Endpoints
        /\ e.ts \in Int /\ EndOf(e.of).ts \in Int
    BY <1>1, <1>3, <1>4, EndpointKinds
  <2>3. Earlier(e, EndOf(e.of))
    BY <1>2, <1>4, <2>1, <2>2 DEF Earlier
  <2> QED
    BY <1>1, <1>3, <2>2, <2>3 DEF InOrder
<1>9. InByRight'
  <2> SUFFICES ASSUME Sane, NEW w \in whos'
               PROVE  \E t \in M : t.who = w /\ BeginOf(t) \notin todo' /\ EndOf(t) \in todo'
    BY <1>3 DEF InByRight
  <2>1. CASE w = e.of.who
    BY <1>3, <1>4, <1>7, <1>8, <2>1
  <2>2. CASE w \in whos
    BY <1>1, <1>3, <1>7, <2>2 DEF InByRight
  <2> QED
    BY <1>2, <2>1, <2>2
<1>10. NobodyMissed'
  <2> SUFFICES ASSUME Sane, Apart(store), NEW t \in M,
                      BeginOf(t) \notin todo', EndOf(t) \in todo'
               PROVE  t.who \in whos'
    BY <1>3 DEF NobodyMissed
  <2>1. CASE BeginOf(t) = e
    BY <1>1, <1>2, <2>1, EndpointKinds
  <2>2. CASE BeginOf(t) # e
    BY <1>1, <1>2, <1>3, <2>2 DEF NobodyMissed
  <2> QED
    BY <2>1, <2>2
<1> QED
  BY <1>5, <1>6, <1>9, <1>10

LEMMA DelKeeps ==
  ASSUME IInv, NEW e \in FirstOf(todo), NEW next \in FirstOf(todo \ {e}),
         Del(e, next)
  PROVE  Typed' /\ FirstIsPut' /\ InByRight' /\ NobodyMissed'
<1>1. Typed /\ InOrder /\ InByRight /\ NobodyMissed
  BY DEF IInv
<1>2. /\ MoveOn(e, next) /\ e.max = 1 /\ whos' = whos \ {e.of.who}
      /\ allocated /\ allocated' = allocated
  BY DEF Del, DelId
<1>3. /\ UNCHANGED query /\ todo' = todo \ {e} /\ e \in todo /\ e \in Endpoints
      /\ store' = store /\ M' = M /\ Sane' = Sane
      /\ \A t : BeginOf(t)' = BeginOf(t) /\ EndOf(t)' = EndOf(t)
  BY <1>1, <1>2, Passing, SameQuery DEF Typed
<1>4. e.of \in M /\ e = EndOf(e.of)
  BY <1>1, <1>2, <1>3, EndpointKinds
<1>5. Typed'
  BY <1>1, <1>2, TypeKeeps DEF Typed
<1>6. FirstIsPut'
  BY <1>2 DEF FirstIsPut
<1>7. \A t \in M : BeginOf(t) # e /\ (EndOf(t) = e => t = e.of)
  BY <1>1, <1>2, EndpointKinds
<1>8. InByRight'
  <2> SUFFICES ASSUME Sane, NEW w \in whos'
               PROVE  \E t \in M : t.who = w /\ BeginOf(t) \notin todo' /\ EndOf(t) \in todo'
    BY <1>3 DEF InByRight
  <2>1. PICK t \in M : t.who = w /\ BeginOf(t) \notin todo /\ EndOf(t) \in todo
    BY <1>1, <1>2 DEF InByRight
  <2>2. EndOf(t) # e
    BY <1>2, <1>7, <2>1
  <2> QED
    BY <1>3, <2>1, <2>2
<1>9. NobodyMissed'
  <2> SUFFICES ASSUME Sane, Apart(store), NEW t \in M,
                      BeginOf(t) \notin todo', EndOf(t) \in todo'
               PROVE  t.who \in whos'
    BY <1>3 DEF NobodyMissed
  <2>1. t.who \in whos /\ BeginOf(t) \notin todo /\ EndOf(t) \in todo /\ t # e.of
    BY <1>1, <1>3, <1>4, <1>7 DEF NobodyMissed
  <2> DEFINE v == e.of
  <2>2. ASSUME t.who = v.who PROVE FALSE
    <3>1. t.max < v.min \/ v.max < t.min
      BY <1>1, <1>4, <2>1, <2>2, EndpointKinds DEF Apart
    <3>2. /\ t.min \in Int /\ t.max \in Int /\ v.min \in Int /\ v.max \in Int
          /\ BeginOf(t).ts \in Int /\ EndOf(t).ts \in Int
          /\ BeginOf(v).ts \in Int /\ EndOf(v).ts \in Int
      BY <1>1, <1>4, EndpointKinds, QueryTypes
    <3>3. /\ t.min <= BeginOf(t).ts /\ EndOf(t).ts <= t.max
          /\ v.min <= BeginOf(v).ts /\ BeginOf(v).ts <= EndOf(v).ts
          /\ EndOf(v).ts <= v.max
      BY <1>1, <1>4, Clipped
    <3>4. BeginOf(t).ts <= e.ts
      <4>1. ~ Earlier(e, BeginOf(t))
        BY <1>1, <1>3, <2>1, EndpointKinds DEF InOrder
      <4> QED
        BY <1>4, <3>2, <4>1 DEF Earlier
    <3>5. e.ts <= EndOf(t).ts
      <4>1. ~ Earlier(EndOf(t), e)
        BY <2>1 DEF FirstOf
      <4> QED
        BY <1>4, <3>2, <4>1 DEF Earlier
    <3> QED
      BY <1>4, <3>1, <3>2, <3>3, <3>4, <3>5
  <2> QED
    BY <1>2, <2>1, <2>2
<1> QED
  BY <1>5, <1>6, <1>8, <1>9

-----------------------------------------------------------------------------
(* What MoveOn may append.                                                 *)

\* A split from e to next: whoever is in it was there all along, and when the
\* intervals of each entity lie apart nobody who was there is missing.
LEMMA PieceIsRight ==
  ASSUME Typed, InOrder, NEW e \in FirstOf(todo), NEW next \in FirstOf(todo \ {e}),
         MoveOn(e, next), Sane, InByRight', NobodyMissed'
  PROVE  /\ \A w \in whos' : \E t \in store :
              t.who = w /\ t.min <= e.ts /\ next.ts <= t.max
         /\ Apart(store) => \A x \in e.ts..(next.ts - 1) :
              whos' = {id \in Ids : Present(store, x, id)}
<1>1. /\ UNCHANGED query /\ todo' = todo \ {e} /\ e \in todo /\ next \in todo
      /\ e \in Endpoints /\ next \in Endpoints
      /\ store' = store /\ M' = M /\ Sane' = Sane
      /\ \A t : BeginOf(t)' = BeginOf(t) /\ EndOf(t)' = EndOf(t)
      /\ M \subseteq store
  BY Passing, SameQuery, EndpointKinds, QueryTypes DEF Typed, InByRight, Sane
<1>2. e.ts \in Int /\ next.ts \in Int /\ from \in Int /\ to \in Int
  BY <1>1, EndpointKinds, QueryTypes
<1>3. \A p \in Endpoints \ todo' : p.ts <= e.ts
  BY Passing
<1>4. \A f \in todo' : next.ts <= f.ts
  BY Passing
<1>5. \A t \in M : /\ t.min \in Int /\ t.max \in Int /\ t.who \in Ids
                   /\ BeginOf(t) \in Endpoints /\ EndOf(t) \in Endpoints
                   /\ BeginOf(t).ts \in Int /\ EndOf(t).ts \in Int
  BY <1>1, EndpointKinds, QueryTypes
<1>6. \A t \in M : /\ t.min <= BeginOf(t).ts /\ EndOf(t).ts <= t.max
                   /\ from <= BeginOf(t).ts /\ EndOf(t).ts <= to
                   /\ BeginOf(t).ts = from \/ BeginOf(t).ts = t.min
                   /\ EndOf(t).ts = to \/ EndOf(t).ts = t.max
                   /\ BeginOf(t).ts <= EndOf(t).ts
  BY Clipped
<1>7. ASSUME NEW w \in whos'
      PROVE  \E t \in store : t.who = w /\ t.min <= e.ts /\ next.ts <= t.max
  <2>1. PICK t \in M : t.who = w /\ BeginOf(t) \notin todo' /\ EndOf(t) \in todo'
    BY <1>1 DEF InByRight
  <2>2. BeginOf(t).ts <= e.ts /\ next.ts <= EndOf(t).ts
    BY <1>3, <1>4, <1>5, <2>1
  <2>3. t.min <= e.ts /\ next.ts <= t.max
    BY <1>2, <1>5, <1>6, <2>2
  <2> QED
    BY <1>1, <2>1, <2>3
<1>8. ASSUME Apart(store), NEW x \in e.ts..(next.ts - 1)
      PROVE  whos' = {id \in Ids : Present(store, x, id)}
  <2>1. x \in Int /\ e.ts <= x /\ x < next.ts
    BY <1>2
  <2>2. from <= x /\ x < to
    <3>1. from <= e.ts /\ next.ts <= to
      <4>1. /\ e.of \in M /\ (e = BeginOf(e.of) \/ e = EndOf(e.of))
            /\ next.of \in M /\ (next = BeginOf(next.of) \/ next = EndOf(next.of))
        BY <1>1, EndpointKinds
      <4> QED
        BY <1>2, <1>5, <1>6, <4>1
    <3> QED
      BY <1>2, <2>1, <3>1
  <2>3. ASSUME NEW w \in whos' PROVE w \in Ids /\ Present(store, x, w)
    <3>1. PICK t \in store : t.who = w /\ t.min <= e.ts /\ next.ts <= t.max
      BY <1>7
    <3>2. t.min <= x /\ x < t.max /\ w \in Ids
      BY <1>2, <2>1, <3>1, QueryTypes
    <3> QED
      BY <3>1, <3>2 DEF Present, OwnedBy, Covers
  <2>4. ASSUME NEW id \in Ids, Present(store, x, id) PROVE id \in whos'
    <3>1. PICK t \in store : t.who = id /\ t.min <= x /\ x < t.max
      BY <2>4 DEF Present, OwnedBy, Covers
    <3>2. t.min \in Int /\ t.max \in Int
      BY QueryTypes
    <3>3. t \in M
      BY <1>2, <2>1, <2>2, <3>1, <3>2 DEF M, Matching
    <3>4. BeginOf(t).ts <= x /\ x < EndOf(t).ts
      BY <1>2, <1>5, <1>6, <2>1, <2>2, <3>1, <3>3
    <3>5. BeginOf(t) \notin todo'
      BY <1>2, <1>4, <1>5, <2>1, <3>3, <3>4
    <3>6. EndOf(t) \in todo'
      BY <1>2, <1>3, <1>5, <2>1, <3>3, <3>4
    <3> QED
      BY <1>1, <1>8, <3>1, <3>3, <3>5, <3>6 DEF NobodyMissed
  <2> QED
    BY <2>3, <2>4
<1> QED
  BY <1>7, <1>8

\* An append to a sequence of splits that all have a property keeps it.
LEMMA Appended ==
  ASSUME Typed, Typed', NEW e, NEW next, MoveOn(e, next),
         NEW k \in 1..Len(splits')
  PROVE  \/ k \in 1..Len(splits) /\ splits'[k] = splits[k]
         \/ /\ e.ts # next.ts /\ k = Len(splits) + 1 /\ k = Len(splits')
            /\ splits'[k] = Split(e.ts, next.ts, whos')
BY DEF Typed, MoveOn

LEMMA SplitsKeep ==
  ASSUME IInv, NEW e \in FirstOf(todo), NEW next \in FirstOf(todo \ {e}),
         MoveOn(e, next), Typed', InByRight', NobodyMissed'
  PROVE  SplitsAreTrue' /\ SplitsAreExact' /\ SplitsChain' /\ Linked'
<1>1. Typed /\ InOrder /\ Linked /\ SplitsAreTrue /\ SplitsAreExact /\ SplitsChain
  BY DEF IInv
<1>2. /\ e \in todo /\ next \in todo /\ todo' = todo \ {e} /\ e.ts <= next.ts
      /\ \A f \in todo' : next.ts <= f.ts
  BY <1>1, Passing
<1>3. store' = store /\ Sane' = Sane /\ Endpoints' = Endpoints
  BY <1>1, Passing, SameQuery
<1>4. e.ts \in Int /\ next.ts \in Int /\ \A f \in todo : f.ts \in Int
  BY <1>1, <1>2, EndpointKinds DEF Typed
<1>5. \A k \in 1..Len(splits') :
        \/ k \in 1..Len(splits) /\ splits'[k] = splits[k]
        \/ /\ e.ts # next.ts /\ k = Len(splits) + 1 /\ k = Len(splits')
           /\ splits'[k] = Split(e.ts, next.ts, whos')
  BY <1>1, Appended
<1>6. /\ Split(e.ts, next.ts, whos').min = e.ts
      /\ Split(e.ts, next.ts, whos').max = next.ts
      /\ Split(e.ts, next.ts, whos').ids = whos'
  BY DEF Split
<1>7. SplitsAreTrue'
  <2> SUFFICES ASSUME Sane, NEW k \in 1..Len(splits'), NEW w \in splits'[k].ids
               PROVE  \E t \in store : /\ t.who = w
                                       /\ t.min <= splits'[k].min
                                       /\ splits'[k].max <= t.max
    BY <1>3 DEF SplitsAreTrue
  <2>1. \A v \in whos' : \E t \in store :
          t.who = v /\ t.min <= e.ts /\ next.ts <= t.max
    BY <1>1, PieceIsRight
  <2> QED
    BY <1>1, <1>5, <1>6, <2>1 DEF SplitsAreTrue
<1>8. SplitsAreExact'
  <2> SUFFICES ASSUME Sane, Apart(store), NEW k \in 1..Len(splits'),
                      NEW x \in splits'[k].min..(splits'[k].max - 1)
               PROVE  splits'[k].ids = {id \in Ids : Present(store, x, id)}
    BY <1>3 DEF SplitsAreExact
  <2>1. \A y \in e.ts..(next.ts - 1) : whos' = {id \in Ids : Present(store, y, id)}
    BY <1>1, PieceIsRight
  <2> QED
    BY <1>1, <1>5, <1>6, <2>1 DEF SplitsAreExact
<1>9. e \in FirstOf(todo) /\ (splits # <<>> => splits[Len(splits)].max = e.ts)
  BY <1>1 DEF Linked
<1>10. splits \in Seq(Piece) /\ splits' \in Seq(Piece)
  BY <1>1 DEF Typed
<1>11. SplitsChain'
  <2> SUFFICES ASSUME NEW k \in 1..Len(splits')
               PROVE  /\ splits'[k].min < splits'[k].max
                      /\ k > 1 => splits'[k].min = splits'[k - 1].max
    BY DEF SplitsChain
  <2>1. CASE k \in 1..Len(splits) /\ splits'[k] = splits[k]
    <3>1. k > 1 => splits'[k - 1] = splits[k - 1]
      BY <1>5, <1>10, <2>1
    <3> QED
      BY <1>1, <2>1, <3>1 DEF SplitsChain
  <2>2. CASE /\ e.ts # next.ts /\ k = Len(splits) + 1 /\ k = Len(splits')
             /\ splits'[k] = Split(e.ts, next.ts, whos')
    <3>1. splits'[k].min = e.ts /\ splits'[k].max = next.ts
      BY <1>6, <2>2
    <3>2. k > 1 => splits'[k - 1] = splits[k - 1] /\ splits # <<>>
      BY <1>5, <1>10, <2>2
    <3>3. k > 1 => splits'[k - 1].max = e.ts
      BY <1>9, <1>10, <2>2, <3>2
    <3> QED
      BY <1>2, <1>4, <2>2, <3>1, <3>3
  <2> QED
    BY <1>5, <2>1, <2>2
<1>12. Linked'
  <2> SUFFICES ASSUME splits' # <<>>, NEW f \in FirstOf(todo')
               PROVE  splits'[Len(splits')].max = f.ts
    BY DEF Linked, FirstOf, Earlier
  <2>1. f.ts = next.ts
    <3>1. f \in todo' /\ next \in todo' /\ ~ Earlier(next, f)
      BY <1>2 DEF FirstOf
    <3> QED
      BY <1>2, <1>4, <3>1 DEF Earlier
  <2>2. CASE e.ts = next.ts
    BY <1>9, <2>1, <2>2 DEF MoveOn
  <2>3. CASE e.ts # next.ts
    <3>1. splits' = Append(splits, Split(e.ts, next.ts, whos'))
      BY <2>3 DEF MoveOn
    <3>2. splits'[Len(splits')] = Split(e.ts, next.ts, whos')
      BY <1>10, <3>1
    <3> QED
      BY <1>6, <2>1, <3>2
  <2> QED
    BY <2>2, <2>3
<1> QED
  BY <1>7, <1>8, <1>11, <1>12

-----------------------------------------------------------------------------
(* The loop against the boundaries of module Splits.                       *)

\* The timestamps of the endpoints are the stamps of the matches.
LEMMA StopsSort ==
  ASSUME Typed
  PROVE  /\ \A t \in M : Clip(t, from, to) \in Matched
         /\ \A t \in M : /\ Clip(t, from, to).min = BeginOf(t).ts
                         /\ Clip(t, from, to).max = EndOf(t).ts
                         /\ Clip(t, from, to).who = t.who
         /\ \A m \in Matched : \E t \in M : m = Clip(t, from, to)
         /\ \A f \in Endpoints : f.ts \in Stamps(Matched)
         /\ \A x \in Stamps(Matched) : \E f \in Endpoints : f.ts = x
         /\ Sorts(Stops, Stamps(Matched))
<1>1. store \subseteq Interval /\ from \in Int /\ to \in Int
  BY QueryTypes
<1>2. M \subseteq Interval
  BY <1>1, EndpointKinds
<1>3. /\ \A t \in M : Clip(t, from, to) \in Matched
      /\ \A m \in Matched : \E t \in M : m = Clip(t, from, to)
  BY DEF Matched, Matches, M
<1>4. \A t \in M : /\ Clip(t, from, to).min = BeginOf(t).ts
                   /\ Clip(t, from, to).max = EndOf(t).ts
                   /\ Clip(t, from, to).who = t.who
  BY <1>1, <1>2, ClipFields DEF BeginOf, EndOf
<1>5. \A f \in Endpoints : f.ts \in Stamps(Matched)
  <2> SUFFICES ASSUME NEW f \in Endpoints PROVE f.ts \in Stamps(Matched)
    OBVIOUS
  <2>1. f.of \in M /\ (f = BeginOf(f.of) \/ f = EndOf(f.of))
    BY EndpointKinds
  <2> QED
    BY <1>3, <1>4, <2>1 DEF Stamps
<1>6. ASSUME NEW x \in Stamps(Matched) PROVE \E f \in Endpoints : f.ts = x
  <2>1. PICK m \in Matched : x = m.min \/ x = m.max
    BY DEF Stamps
  <2>2. PICK t \in M : m = Clip(t, from, to)
    BY <1>3
  <2> QED
    BY <1>4, <2>1, <2>2, EndpointKinds
<1>7. Sorts(Stops, Stamps(Matched))
  BY <1>1, MatchFacts, BoundariesSort DEF Stops, Matched
<1> QED
  BY <1>3, <1>4, <1>5, <1>6, <1>7

\* A put keeps the set in step.
LEMMA PutReplays ==
  ASSUME IInv, NEW e \in FirstOf(todo), NEW next \in FirstOf(todo \ {e}),
         Put(e, next)
  PROVE  SetIsReplay'
<1>1. Typed /\ InOrder /\ SetIsReplay
  BY DEF IInv
<1>2. MoveOn(e, next) /\ e.max = 0 /\ whos' = whos \cup {e.of.who}
  BY DEF Put, PutId
<1>3. /\ todo' = todo \ {e} /\ e \in todo /\ e \in Endpoints
      /\ M' = M
      /\ \A t : BeginOf(t)' = BeginOf(t) /\ EndOf(t)' = EndOf(t)
  BY <1>1, <1>2, Passing, SameQuery DEF Typed
<1>4. e.of \in M /\ e = BeginOf(e.of)
  BY <1>1, <1>2, <1>3, EndpointKinds
<1>5. \A t \in M : /\ EndOf(t) # e /\ (BeginOf(t) = e => t = e.of)
                   /\ EndOf(t).ts \in Int /\ BeginOf(t).ts \in Int /\ EndOf(t).max = 1
                   /\ EndOf(t) \in Endpoints
  BY <1>1, <1>2, EndpointKinds
<1> DEFINE Undone(u, E) == \E v \in M : /\ v.who = u.who /\ EndOf(v) \notin E
                                        /\ BeginOf(u).ts <= EndOf(v).ts
<1>6. whos = {t.who : t \in {u \in M : BeginOf(u) \notin todo /\ ~ Undone(u, todo)}}
  BY <1>1 DEF SetIsReplay
<1>7. \A u \in M : Undone(u, todo \ {e}) <=> Undone(u, todo)
  BY <1>5
<1>8. ~ Undone(e.of, todo)
  <2> SUFFICES ASSUME NEW v \in M, EndOf(v) \notin todo, e.ts <= EndOf(v).ts PROVE FALSE
    BY <1>4
  <2>1. ~ Earlier(e, EndOf(v))
    BY <1>1, <1>3, <1>5 DEF InOrder
  <2> QED
    BY <1>2, <1>4, <1>5, <2>1 DEF Earlier
<1> HIDE DEF Undone
<1>9. {u \in M : BeginOf(u) \notin todo \ {e} /\ ~ Undone(u, todo \ {e})}
        = {u \in M : BeginOf(u) \notin todo /\ ~ Undone(u, todo)} \cup {e.of}
  BY <1>4, <1>5, <1>7, <1>8
<1>10. whos' = {t.who : t \in {u \in M : BeginOf(u) \notin todo \ {e} /\ ~ Undone(u, todo \ {e})}}
  BY <1>2, <1>6, <1>9
<1> QED
  BY <1>3, <1>10 DEF SetIsReplay, Undone

\* A deletion does: whoever it names began before it.
LEMMA DelReplays ==
  ASSUME IInv, NEW e \in FirstOf(todo), NEW next \in FirstOf(todo \ {e}),
         Del(e, next)
  PROVE  SetIsReplay'
<1>1. Typed /\ InOrder /\ SetIsReplay
  BY DEF IInv
<1>2. MoveOn(e, next) /\ e.max = 1 /\ whos' = whos \ {e.of.who}
  BY DEF Del, DelId
<1>3. /\ todo' = todo \ {e} /\ e \in todo /\ e \in Endpoints
      /\ M' = M
      /\ \A t : BeginOf(t)' = BeginOf(t) /\ EndOf(t)' = EndOf(t)
  BY <1>1, <1>2, Passing, SameQuery DEF Typed
<1>4. e.of \in M /\ e = EndOf(e.of)
  BY <1>1, <1>2, <1>3, EndpointKinds
<1>5. \A t \in M : /\ BeginOf(t) # e /\ (EndOf(t) = e => t = e.of)
                   /\ EndOf(t).ts \in Int /\ BeginOf(t).ts \in Int /\ BeginOf(t).max = 0
                   /\ BeginOf(t) \in Endpoints
  BY <1>1, <1>2, EndpointKinds
<1> DEFINE Undone(u, E) == \E v \in M : /\ v.who = u.who /\ EndOf(v) \notin E
                                        /\ BeginOf(u).ts <= EndOf(v).ts
<1>6. whos = {t.who : t \in {u \in M : BeginOf(u) \notin todo /\ ~ Undone(u, todo)}}
  BY <1>1 DEF SetIsReplay
<1>7. \A u \in M : u.who # e.of.who => (Undone(u, todo \ {e}) <=> Undone(u, todo))
  BY <1>5
<1>8. ASSUME NEW u \in M, u.who = e.of.who, BeginOf(u) \notin todo
      PROVE  Undone(u, todo \ {e})
  <2>1. ~ Earlier(e, BeginOf(u))
    BY <1>1, <1>3, <1>5, <1>8 DEF InOrder
  <2>2. BeginOf(u).ts <= EndOf(e.of).ts
    BY <1>2, <1>4, <1>5, <2>1 DEF Earlier
  <2> QED
    BY <1>4, <1>8, <2>2
<1> HIDE DEF Undone
<1>9. {u \in M : BeginOf(u) \notin todo \ {e} /\ ~ Undone(u, todo \ {e})}
        = {u \in M : BeginOf(u) \notin todo /\ ~ Undone(u, todo) /\ u.who # e.of.who}
  BY <1>5, <1>7, <1>8
<1>10. whos' = {t.who : t \in {u \in M : BeginOf(u) \notin todo \ {e} /\ ~ Undone(u, todo \ {e})}}
  BY <1>2, <1>6, <1>9
<1> QED
  BY <1>3, <1>10 DEF SetIsReplay, Undone

\* When time moves on the set is the one of the boundary left behind.
LEMMA SetIsCountedIn ==
  ASSUME Typed, InOrder, NEW e \in FirstOf(todo), NEW next \in FirstOf(todo \ {e}),
         MoveOn(e, next), SetIsReplay', e.ts < next.ts
  PROVE  whos' = CountedIn(Matched, e.ts)
<1>1. /\ e \in todo /\ todo' = todo \ {e} /\ M' = M
      /\ \A p \in Endpoints \ todo' : p.ts <= e.ts
      /\ \A f \in todo' : next.ts <= f.ts
      /\ next \in todo /\ todo \subseteq Endpoints
      /\ \A t : BeginOf(t)' = BeginOf(t) /\ EndOf(t)' = EndOf(t)
  BY Passing, SameQuery DEF Typed
<1>2. \A f \in Endpoints : f.ts \in Int
  BY EndpointKinds
<1>3. \A f \in Endpoints : f \notin todo' <=> f.ts <= e.ts
  BY <1>1, <1>2
<1>4. \A t \in M : BeginOf(t) \in Endpoints /\ EndOf(t) \in Endpoints
  BY EndpointKinds
<1>5. whos' = {t.who : t \in {u \in M : /\ BeginOf(u).ts <= e.ts
                                        /\ ~ \E v \in M : /\ v.who = u.who /\ EndOf(v).ts <= e.ts
                                                          /\ BeginOf(u).ts <= EndOf(v).ts}}
  BY <1>1, <1>3, <1>4 DEF SetIsReplay
<1> DEFINE cl(t) == Clip(t, from, to)
<1>6. /\ \A t \in M : /\ cl(t) \in Matched /\ cl(t).min = BeginOf(t).ts
                      /\ cl(t).max = EndOf(t).ts /\ cl(t).who = t.who
      /\ \A m \in Matched : \E t \in M : m = cl(t)
  BY StopsSort
<1> HIDE DEF cl
<1>7. ASSUME NEW w \in whos' PROVE w \in CountedIn(Matched, e.ts)
  <2>1. PICK u \in M : /\ w = u.who /\ BeginOf(u).ts <= e.ts
                       /\ ~ \E v \in M : /\ v.who = u.who /\ EndOf(v).ts <= e.ts
                                         /\ BeginOf(u).ts <= EndOf(v).ts
    BY <1>5, <1>7
  <2>2. ~ \E m \in Matched : m.who = cl(u).who /\ cl(u).min <= m.max /\ m.max <= e.ts
    BY <1>6, <2>1
  <2> QED
    BY <1>6, <2>1, <2>2 DEF CountedIn
<1>8. ASSUME NEW w \in CountedIn(Matched, e.ts) PROVE w \in whos'
  <2>1. PICK n \in Matched : /\ w = n.who /\ n.min <= e.ts
                             /\ ~ \E m \in Matched : m.who = n.who /\ n.min <= m.max /\ m.max <= e.ts
    BY DEF CountedIn
  <2>2. PICK u \in M : n = cl(u)
    BY <1>6
  <2>3. ~ \E v \in M : /\ v.who = u.who /\ EndOf(v).ts <= e.ts
                       /\ BeginOf(u).ts <= EndOf(v).ts
    BY <1>6, <2>1, <2>2
  <2> QED
    BY <1>5, <1>6, <2>1, <2>2, <2>3
<1> QED
  BY <1>7, <1>8

LEMMA HalfWayKeeps ==
  ASSUME IInv, NEW e \in FirstOf(todo), NEW next \in FirstOf(todo \ {e}),
         MoveOn(e, next), Typed', SetIsReplay'
  PROVE  HalfWay'
<1>1. Typed /\ InOrder /\ HalfWay
  BY DEF IInv
<1>2. /\ e \in todo /\ next \in todo /\ next # e /\ todo' = todo \ {e} /\ e.ts <= next.ts
      /\ \A p \in Endpoints \ todo' : p.ts <= e.ts
      /\ \A f \in todo' : next.ts <= f.ts
  BY <1>1, Passing
<1>3. store' = store /\ from' = from /\ to' = to /\ Matched' = Matched /\ Stops' = Stops
  BY <1>1, Passing, SameQuery DEF Matched, Stops
<1>4. \A f \in Endpoints : f.ts \in Int
  BY <1>1, EndpointKinds
<1>5. todo \subseteq Endpoints /\ splits \in Seq(Piece) /\ splits' \in Seq(Piece)
  BY <1>1 DEF Typed
<1> DEFINE n == Len(splits)
<1>6. n \in Nat /\ n + 1 \in 1..Len(Stops) /\ Stops[n + 1] = e.ts
  BY <1>1, <1>5, LenProperties DEF HalfWay
<1>7. /\ Len(Stops) \in Nat /\ \A k \in 1..Len(Stops) : Stops[k] \in Int /\ Stops[k] \in Stamps(Matched)
      /\ \A x \in Stamps(Matched) : \E k \in 1..Len(Stops) : Stops[k] = x
      /\ \A j, k \in 1..Len(Stops) : j < k => Stops[j] < Stops[k]
  BY <1>1, StopsSort, LenProperties, ElementOfSeq DEF Sorts
<1>8. \A f \in FirstOf(todo)' : f.ts = next.ts
  <2> SUFFICES ASSUME NEW f \in todo', \A g \in todo' : ~ Earlier(g, f) PROVE f.ts = next.ts
    BY DEF FirstOf, Earlier
  <2>1. next \in todo' /\ ~ Earlier(next, f)
    BY <1>2
  <2> QED
    BY <1>2, <1>4, <1>5, <2>1 DEF Earlier
<1>9. /\ todo' # {}
      /\ \A k \in 1..n : splits[k] = Split(Stops[k], Stops[k + 1], CountedIn(Matched, Stops[k]))
  BY <1>1, <1>2 DEF HalfWay
<1>10. CASE e.ts = next.ts
  <2>1. splits' = splits
    BY <1>10 DEF MoveOn
  <2> QED
    BY <1>3, <1>6, <1>8, <1>9, <1>10, <2>1 DEF HalfWay
<1>11. CASE e.ts # next.ts
  <2>1. splits' = Append(splits, Split(e.ts, next.ts, whos'))
    BY <1>11 DEF MoveOn
  <2>2. e.ts < next.ts /\ e.ts \in Int /\ next.ts \in Int
    BY <1>2, <1>4, <1>5, <1>11
  <2>3. whos' = CountedIn(Matched, e.ts)
    BY <1>1, <2>2, SetIsCountedIn
  <2>4. PICK j \in 1..Len(Stops) : Stops[j] = next.ts
    <3>1. next.ts \in Stamps(Matched)
      BY <1>1, <1>2, <1>5, StopsSort
    <3> QED
      BY <1>7, <3>1
  <2>5. n + 1 < j
    <3>1. j < n + 1 => Stops[j] < Stops[n + 1]
      BY <1>6, <1>7
    <3> QED
      BY <1>6, <2>2, <2>4, <3>1
  <2>6. n + 2 \in 1..Len(Stops) /\ Stops[n + 1] < Stops[n + 2]
    BY <1>6, <1>7, <2>5
  <2>7. next.ts <= Stops[n + 2]
    <3>1. PICK f \in Endpoints : f.ts = Stops[n + 2]
      BY <1>1, <1>7, <2>6, StopsSort
    <3>2. f \in todo'
      BY <1>2, <1>4, <1>6, <2>2, <2>6, <3>1
    <3> QED
      BY <1>2, <3>1, <3>2
  <2>8. Stops[n + 2] = next.ts
    <3>1. n + 2 < j => Stops[n + 2] < Stops[j]
      BY <1>7, <2>6
    <3> QED
      BY <1>6, <1>7, <2>4, <2>5, <2>6, <2>7, <3>1
  <2>9. /\ Len(splits') = n + 1
        /\ \A k \in 1..n : splits'[k] = splits[k]
        /\ splits'[n + 1] = Split(Stops[n + 1], Stops[n + 2], CountedIn(Matched, Stops[n + 1]))
    BY <1>5, <1>6, <2>1, <2>3, <2>8
  <2>10. \A k \in 1..Len(splits') :
           splits'[k] = Split(Stops[k], Stops[k + 1], CountedIn(Matched, Stops[k]))
    <3> SUFFICES ASSUME NEW k \in 1..Len(splits')
                 PROVE  splits'[k] = Split(Stops[k], Stops[k + 1], CountedIn(Matched, Stops[k]))
      OBVIOUS
    <3>1. CASE k \in 1..n
      BY <1>9, <2>9, <3>1
    <3>2. CASE k = n + 1
      <4>1. k + 1 = n + 2
        BY <1>6, <3>2
      <4> QED
        BY <2>9, <3>2, <4>1
    <3> QED
      BY <1>6, <2>9, <3>1, <3>2
  <2>11. \A f \in FirstOf(todo)' : /\ Len(splits') + 1 \in 1..Len(Stops)
                                   /\ Stops[Len(splits') + 1] = f.ts
    <3>1. Len(splits') + 1 = n + 2
      BY <1>6, <2>9
    <3> QED
      BY <1>8, <2>6, <2>8, <3>1
  <2> QED
    BY <1>3, <1>9, <2>10, <2>11 DEF HalfWay
<1> QED
  BY <1>10, <1>11

\* When the first endpoint left is an end and nothing was put, no match begins
\* at the first boundary.
LEMMA CrashIsFault ==
  ASSUME IInv, NEW e \in FirstOf(todo), e.max = 1, ~ allocated
  PROVE  SweepFaults(Matched)
<1>1. Typed /\ FirstIsPut /\ e \in todo /\ e \in Endpoints
  BY DEF IInv, Typed, FirstOf
<1>2. \A t \in M : e.ts < BeginOf(t).ts
  <2> SUFFICES ASSUME NEW t \in M PROVE e.ts < BeginOf(t).ts
    OBVIOUS
  <2>1. BeginOf(t) \in todo
    BY <1>1 DEF FirstIsPut
  <2>2. ~ Earlier(BeginOf(t), e)
    BY <2>1 DEF FirstOf
  <2>3. BeginOf(t).max = 0 /\ BeginOf(t).ts \in Int /\ e.ts \in Int
    BY <1>1, EndpointKinds
  <2> QED
    BY <2>2, <2>3 DEF Earlier
<1>3. e.of \in M
  BY <1>1, EndpointKinds
<1>4. Matched # {} /\ e.ts \in Stamps(Matched)
  BY <1>1, <1>3, StopsSort
<1>5. store \subseteq Interval /\ from \in Int /\ to \in Int
  BY <1>1, QueryTypes
<1>6. Boundaries(Matched)[1] <= e.ts /\ Boundaries(Matched)[1] \in Stamps(Matched)
  BY <1>4, <1>5, FirstBoundary DEF Matched
<1>7. e.ts \in Int /\ Boundaries(Matched)[1] \in Int
  BY <1>1, <1>5, <1>6, EndpointKinds, MatchFacts DEF Matched
<1>8. ASSUME NEW m \in Matched PROVE m.min # Boundaries(Matched)[1]
  <2>1. PICK t \in M : m = Clip(t, from, to) /\ m.min = BeginOf(t).ts
    BY <1>1, StopsSort
  <2>2. BeginOf(t).ts \in Int
    BY <1>1, EndpointKinds
  <2> QED
    BY <1>2, <1>6, <1>7, <2>1, <2>2
<1>9. Begin(Matched, Boundaries(Matched)[1]) = {}
  BY <1>8 DEF Begin
<1> QED
  BY <1>4, <1>9 DEF SweepFaults

\* The loop ends with the answer of module Splits.
LEMMA EndsRight ==
  ASSUME IInv, Finished
  PROVE  splits = SplitsGet(store, from, to)
<1>1. Typed /\ InOrder /\ HalfWay
  BY DEF IInv
<1>2. CASE todo = {}
  <2>1. M = {} /\ splits = <<>>
    BY <1>1, <1>2 DEF HalfWay
  <2>2. Matches(store, from, to) = {}
    BY <2>1 DEF Matches, M
  <2> QED
    BY <2>1, <2>2, NothingMatched
<1>3. CASE todo # {}
  <2>1. PICK f : todo = {f}
    BY <1>3 DEF Finished
  <2>2. f \in Endpoints /\ \A g \in Endpoints : g.ts \in Int /\ g.max \in {0, 1}
    BY <1>1, <2>1, EndpointKinds DEF Typed
  <2>3. f \in FirstOf(todo)
    BY <2>1, <2>2 DEF FirstOf, Earlier
  <2> DEFINE n == Len(splits)
  <2>4. splits \in Seq(Piece) /\ n \in Nat /\ DOMAIN splits = 1..n
    BY <1>1, LenProperties DEF Typed
  <2>5. /\ n + 1 \in 1..Len(Stops) /\ Stops[n + 1] = f.ts
        /\ \A k \in 1..n : splits[k] = Split(Stops[k], Stops[k + 1], CountedIn(Matched, Stops[k]))
    BY <1>1, <2>3 DEF HalfWay
  <2>6. /\ Len(Stops) \in Nat /\ \A k \in 1..Len(Stops) : Stops[k] \in Int /\ Stops[k] \in Stamps(Matched)
        /\ \A j, k \in 1..Len(Stops) : j < k => Stops[j] < Stops[k]
    BY <1>1, StopsSort, LenProperties, ElementOfSeq DEF Sorts
  <2>7. \A g \in Endpoints : g.ts <= f.ts
    BY <1>1, <2>1, <2>2 DEF InOrder, Earlier
  <2>8. n + 1 = Len(Stops)
    <3>1. Len(Stops) \in 1..Len(Stops)
      BY <2>4, <2>5, <2>6
    <3>2. PICK g \in Endpoints : g.ts = Stops[Len(Stops)]
      BY <1>1, <2>6, <3>1, StopsSort
    <3>3. ~ (Stops[n + 1] < Stops[Len(Stops)])
      BY <2>2, <2>5, <2>7, <3>2
    <3> QED
      BY <2>4, <2>5, <2>6, <3>1, <3>3
  <2>9. Len(Stops) - 1 = n
    BY <2>4, <2>8
  <2>10. Sweep(Matched) = [k \in 1..n |-> Split(Stops[k], Stops[k + 1], CountedIn(Matched, Stops[k]))]
    BY <2>9 DEF Sweep, Stops
  <2>11. splits = [k \in 1..n |-> splits[k]]
    BY <2>4, LenProperties
  <2>12. splits = Sweep(Matched)
    BY <2>5, <2>10, <2>11
  <2> QED
    BY <2>12 DEF SplitsGet, Matched
<1> QED
  BY <1>2, <1>3

-----------------------------------------------------------------------------

LEMMA InitHolds == EInit => IInv
<1> SUFFICES ASSUME EInit PROVE IInv
  OBVIOUS
<1>1. /\ store \in Stores /\ from \in Int /\ to \in Int
      /\ todo = Endpoints /\ splits = <<>> /\ whos = {} /\ ~ allocated /\ ~ dead
      /\ <<from, to>> \in Windows
  BY QueryAssumption, SentinelAssumption DEF EInit, Empty
<1>2. Typed
  BY <1>1 DEF Typed
<1>3. InOrder /\ InByRight /\ Linked
  BY <1>1 DEF InOrder, InByRight, Linked
<1>4. FirstIsPut /\ NobodyMissed
  BY <1>1, <1>2, EndpointKinds DEF FirstIsPut, NobodyMissed
<1>5. NeverFaults /\ SplitsAreTrue /\ SplitsAreExact /\ SplitsChain
  BY <1>1 DEF NeverFaults, SplitsAreTrue, SplitsAreExact, SplitsChain
<1>6. SetIsReplay /\ DiesRightly
  BY <1>1, <1>2, EndpointKinds DEF SetIsReplay, DiesRightly
<1>7. HalfWay
  <2>1. todo = {} => M = {}
    BY <1>1, <1>2, EndpointKinds
  <2>2. ASSUME NEW f \in FirstOf(todo) PROVE 1 \in 1..Len(Stops) /\ Stops[1] = f.ts
    <3>1. f \in Endpoints /\ \A g \in Endpoints : ~ Earlier(g, f) /\ g.ts \in Int
      BY <1>1, <1>2, EndpointKinds DEF FirstOf
    <3>2. /\ Len(Stops) \in Nat
          /\ \A k \in 1..Len(Stops) : Stops[k] \in Int /\ Stops[k] \in Stamps(Matched)
          /\ \A x \in Stamps(Matched) : \E k \in 1..Len(Stops) : Stops[k] = x
          /\ \A j, k \in 1..Len(Stops) : j < k => Stops[j] < Stops[k]
      BY <1>2, StopsSort, LenProperties, ElementOfSeq DEF Sorts
    <3>3. PICK j \in 1..Len(Stops) : Stops[j] = f.ts
      BY <1>2, <3>1, <3>2, StopsSort
    <3>4. 1 \in 1..Len(Stops)
      BY <3>2, <3>3
    <3>5. PICK g \in Endpoints : g.ts = Stops[1]
      BY <1>2, <3>2, <3>4, StopsSort
    <3>6. f.ts <= g.ts
      BY <3>1 DEF Earlier
    <3>7. 1 < j => Stops[1] < Stops[j]
      BY <3>2, <3>4
    <3> QED
      BY <3>1, <3>2, <3>3, <3>4, <3>5, <3>6, <3>7
  <2>3. Len(splits) = 0 /\ Len(splits) + 1 = 1 /\ 1..0 = {}
    BY <1>1
  <2> QED
    BY <1>1, <2>1, <2>2, <2>3 DEF HalfWay
<1> QED
  BY <1>2, <1>3, <1>4, <1>5, <1>6, <1>7 DEF IInv

LEMMA Still ==
  ASSUME UNCHANGED <<query, todo, splits, whos>>
  PROVE  /\ Typed' = Typed /\ InOrder' = InOrder /\ Linked' = Linked
         /\ InByRight' = InByRight /\ NobodyMissed' = NobodyMissed
         /\ SplitsAreTrue' = SplitsAreTrue /\ SplitsAreExact' = SplitsAreExact
         /\ SplitsChain' = SplitsChain /\ Sane' = Sane
         /\ SetIsReplay' = SetIsReplay /\ HalfWay' = HalfWay /\ Matched' = Matched
         /\ M' = M /\ \A t : BeginOf(t)' = BeginOf(t)
<1>1. /\ store' = store /\ from' = from /\ to' = to
      /\ M' = M /\ Endpoints' = Endpoints /\ Sane' = Sane
      /\ \A t : BeginOf(t)' = BeginOf(t) /\ EndOf(t)' = EndOf(t)
      /\ todo' = todo /\ splits' = splits /\ whos' = whos
  BY SameQuery
<1>2. Typed' = Typed
  BY <1>1 DEF Typed
<1>3. InOrder' = InOrder /\ Linked' = Linked
  BY <1>1 DEF InOrder, Linked, FirstOf, Earlier
<1>4. InByRight' = InByRight
  BY <1>1 DEF InByRight
<1>5. NobodyMissed' = NobodyMissed
  BY <1>1 DEF NobodyMissed
<1>6. SplitsAreTrue' = SplitsAreTrue
  BY <1>1 DEF SplitsAreTrue
<1>7. SplitsAreExact' = SplitsAreExact
  BY <1>1 DEF SplitsAreExact
<1>8. SplitsChain' = SplitsChain
  BY <1>1 DEF SplitsChain
<1>9. SetIsReplay' = SetIsReplay
  BY <1>1 DEF SetIsReplay
<1>10. HalfWay' = HalfWay /\ Matched' = Matched
  BY <1>1 DEF HalfWay, FirstOf, Earlier, Matched, Stops
<1> QED
  BY <1>1, <1>2, <1>3, <1>4, <1>5, <1>6, <1>7, <1>8, <1>9, <1>10

LEMMA StepKeeps == IInv /\ [ENext]_evars => IInv'
<1> SUFFICES ASSUME IInv, [ENext]_evars PROVE IInv'
  OBVIOUS
<1>1. CASE UNCHANGED evars
  <2>1. UNCHANGED <<query, todo, splits, whos, allocated, dead>>
    BY <1>1 DEF evars, query
  <2> QED
    BY <2>1, Still DEF IInv, FirstIsPut, NeverFaults, DiesRightly
<1>2. ASSUME NEW e \in FirstOf(todo), NEW next \in FirstOf(todo \ {e}), Put(e, next)
      PROVE  IInv'
  <2>1. Typed' /\ FirstIsPut' /\ InByRight' /\ NobodyMissed'
    BY <1>2, PutKeeps
  <2>2. MoveOn(e, next) /\ dead' = dead /\ ~ dead
    BY <1>2 DEF Put, PutId
  <2>3. InOrder'
    BY <2>2, OrderKeeps DEF IInv
  <2>4. SplitsAreTrue' /\ SplitsAreExact' /\ SplitsChain' /\ Linked'
    BY <2>1, <2>2, SplitsKeep
  <2>5. NeverFaults' /\ DiesRightly'
    BY <2>2 DEF NeverFaults, DiesRightly
  <2>6. SetIsReplay'
    BY <1>2, PutReplays
  <2>7. HalfWay'
    BY <2>1, <2>2, <2>6, HalfWayKeeps
  <2> QED
    BY <2>1, <2>3, <2>4, <2>5, <2>6, <2>7 DEF IInv
<1>3. ASSUME NEW e \in FirstOf(todo), NEW next \in FirstOf(todo \ {e}), Del(e, next)
      PROVE  IInv'
  <2>1. Typed' /\ FirstIsPut' /\ InByRight' /\ NobodyMissed'
    BY <1>3, DelKeeps
  <2>2. MoveOn(e, next) /\ dead' = dead /\ ~ dead
    BY <1>3 DEF Del, DelId
  <2>3. InOrder'
    BY <2>2, OrderKeeps DEF IInv
  <2>4. SplitsAreTrue' /\ SplitsAreExact' /\ SplitsChain' /\ Linked'
    BY <2>1, <2>2, SplitsKeep
  <2>5. NeverFaults' /\ DiesRightly'
    BY <2>2 DEF NeverFaults, DiesRightly
  <2>6. SetIsReplay'
    BY <1>3, DelReplays
  <2>7. HalfWay'
    BY <2>1, <2>2, <2>6, HalfWayKeeps
  <2> QED
    BY <2>1, <2>3, <2>4, <2>5, <2>6, <2>7 DEF IInv
<1>4. ASSUME NEW e \in FirstOf(todo), Crash(e) PROVE IInv'
  <2>1. ~ Sane
    BY <1>4, NoCrash DEF IInv, Crash, Fault
  <2>2. UNCHANGED <<query, todo, splits, whos, allocated>>
    BY <1>4 DEF Crash, Fault, query
  <2>3. ~ Sane'
    BY <2>1, <2>2, Still
  <2>4. SweepFaults(Matched)
    BY <1>4, CrashIsFault DEF Crash, Fault
  <2>5. DiesRightly'
    BY <2>2, <2>4, Still DEF DiesRightly
  <2> QED
    BY <2>1, <2>2, <2>3, <2>5, Still DEF IInv, FirstIsPut, NeverFaults
<1> QED
  BY <1>1, <1>2, <1>3, <1>4 DEF ENext

LEMMA Invariant == ESpec => []IInv
BY InitHolds, StepKeeps, PTL DEF ESpec

\* For every set of stores and every set of windows: a window with from <= to
\* over a store without inverted intervals never makes splits_create delete
\* from the unallocated set.
THEOREM SweepNeverFaults == ESpec => []NeverFaults
<1>1. IInv => NeverFaults
  BY DEF IInv
<1> QED
  BY <1>1, Invariant, PTL

\* Whoever a split names was there during the whole of it.
THEOREM SweepIsTrue == ESpec => []SplitsAreTrue
<1>1. IInv => SplitsAreTrue
  BY DEF IInv
<1> QED
  BY <1>1, Invariant, PTL

\* When the intervals of each entity lie apart, a split names exactly those
\* who were there, at every instant of it.
THEOREM SweepIsExact == ESpec => []SplitsAreExact
<1>1. IInv => SplitsAreExact
  BY DEF IInv
<1> QED
  BY <1>1, Invariant, PTL

\* The splits follow each other without gap or overlap and none is empty.
THEOREM SweepChains == ESpec => []SplitsChain
<1>1. IInv => SplitsChain
  BY DEF IInv
<1> QED
  BY <1>1, Invariant, PTL

\* The loop gives the answer of module Splits when it ends, and dies only where
\* module Splits says so, whatever order qsort gives equal endpoints and
\* however disordered the store and the window are.
THEOREM SweepIsSplitsGet == ESpec => []LoopIsSplitsGet
<1>1. IInv => LoopIsSplitsGet
  BY EndsRight DEF LoopIsSplitsGet, IInv, DiesRightly, Matched
<1> QED
  BY <1>1, Invariant, PTL
=============================================================================
