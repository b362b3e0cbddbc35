--------------------------- MODULE TimelineProofs ---------------------------
(***************************************************************************)
(* Theorems about Timeline, for every set of ids, every set of timestamps  *)
(* and every order of calls.                                               *)
(***************************************************************************)
EXTENDS Timeline, TLAPS

\* joint_start and the backfill of joint_stop each add a storable interval.
LEMMA InsertKinds ==
  ASSUME NEW id \in Ids, NEW ts \in Times, Accepted(ts, id)
  PROVE  /\ [min |-> ts, max |-> Inf, who |-> id] \in Interval
         /\ Storable([min |-> ts, max |-> Inf, who |-> id])
         /\ [min |-> MInf, max |-> ts, who |-> id] \in Interval
         /\ Storable([min |-> MInf, max |-> ts, who |-> id])
BY TimeAssumption, RangeAssumption, SentinelAssumption
   DEF Accepted, Interval, Storable, IsOpen, IsBackfill, Finite

\* ti_finish_last turns an open interval into a closed one of the same entity.
LEMMA FinishKinds ==
  ASSUME NEW id \in Ids, NEW ts \in Times, Accepted(ts, id), TypeOK,
         NEW o \in OpenOf(ti, id)
  PROVE  /\ o \in ti /\ o.who = id /\ o.max = Inf /\ Finite(o.min)
         /\ Close(o, ts) = [min |-> o.min, max |-> ts, who |-> id]
         /\ Close(o, ts) \in Interval
         /\ Storable(Close(o, ts))
<1>1. o \in ti /\ o \in Interval /\ o.who = id /\ o.max = Inf
  BY DEF TypeOK, OpenOf, OwnedBy
<1>2. Finite(o.min)
  BY <1>1, TimeAssumption, RangeAssumption, SentinelAssumption
     DEF TypeOK, Storable, IsOpen, IsBackfill, IsClosed, Finite
<1>3. ts \in MInf..Inf /\ Finite(ts) /\ id # NoId
  BY TimeAssumption, RangeAssumption, SentinelAssumption DEF Accepted, Finite
<1>4. Close(o, ts) = [min |-> o.min, max |-> ts, who |-> id]
  BY <1>1 DEF Interval, Close
<1> QED
  BY <1>1, <1>2, <1>3, <1>4 DEF Interval, Storable, IsClosed

\* What remains of TypeOK once every new interval is known to be storable.
LEMMA TypeExtends ==
  ASSUME TypeOK, NEW x \in Interval, Storable(x),
         ti' \subseteq ti \cup {x}, call'.ret \in {-1, 0, 1}
  PROVE  TypeOK'
<1>1. ti' \subseteq Interval
  BY DEF TypeOK
<1>2. \A t \in ti' : Storable(t)
  BY DEF TypeOK
<1> QED
  BY <1>1, <1>2 DEF TypeOK, Storable, IsOpen, IsBackfill, IsClosed, Finite, Interval

LEMMA TypeStep == TypeOK /\ [Next]_vars => TypeOK'
<1> SUFFICES ASSUME TypeOK, [Next]_vars PROVE TypeOK'
  OBVIOUS
<1>1. ASSUME NEW ts \in Times, NEW id \in Ids, Start(ts, id) PROVE TypeOK'
  <2>1. CASE ti' = ti
    BY <1>1, <2>1 DEF TypeOK, Start, Reply
  <2>2. CASE Accepted(ts, id) /\ ti' = Insert(ti, id, ts, Inf) /\ Reply("start", ts, id, 0)
    <3>1. call'.ret = 0
      BY <2>2 DEF Reply
    <3> QED
      BY <2>2, <3>1, InsertKinds, TypeExtends DEF Insert
  <2> QED
    BY <1>1, <2>1, <2>2 DEF Start
<1>2. ASSUME NEW ts \in Times, NEW id \in Ids, Stop(ts, id) PROVE TypeOK'
  <2>1. call'.ret \in {-1, 0, 1}
    BY <1>2 DEF Stop, Reply
  <2>2. CASE ti' = ti
    BY <2>1, <2>2 DEF TypeOK
  <2>3. CASE Accepted(ts, id) /\ ti' = Insert(ti, id, MInf, ts)
    BY <2>1, <2>3, InsertKinds, TypeExtends DEF Insert
  <2>4. ASSUME Accepted(ts, id), NEW o \in OpenOf(ti, id),
               ti' = (ti \ {o}) \cup {Close(o, ts)}
        PROVE  TypeOK'
    BY <2>1, <2>4, FinishKinds, TypeExtends
  <2> QED
    BY <1>2, <2>2, <2>3, <2>4 DEF Stop, FinishLast
<1>3. ASSUME NEW id \in Ids, Erase(id) PROVE TypeOK'
  BY <1>3 DEF TypeOK, Erase, Reply
<1>4. CASE UNCHANGED vars
  BY <1>4 DEF TypeOK, vars
<1> QED
  BY <1>1, <1>2, <1>3, <1>4 DEF Next

\* Every stored interval has an admissible owner and is open, a backfill or
\* closed, whatever is called in whatever order.
THEOREM TypeCorrect == Spec => []TypeOK
<1>1. Init => TypeOK
  BY DEF Init, TypeOK
<1>2. QED
  BY <1>1, TypeStep, PTL DEF Spec

-----------------------------------------------------------------------------

\* No call touches an interval of an entity it does not name.
THEOREM NeighboursAreKept == Spec => NeighboursKept
<1> DEFINE Step == \A t \in (ti \ ti') \cup (ti' \ ti) :
                     t.who = call'.id /\ call'.ret # -1
<1>1. TypeOK /\ [Next]_vars => [Step]_vars
  <2> SUFFICES ASSUME TypeOK, Next PROVE Step
    OBVIOUS
  <2>1. ASSUME NEW ts \in Times, NEW id \in Ids, Start(ts, id) PROVE Step
    BY <2>1 DEF Start, Insert, Reply
  <2>2. ASSUME NEW ts \in Times, NEW id \in Ids, Stop(ts, id) PROVE Step
    <3>1. CASE ti' = ti
      BY <3>1
    <3>2. CASE ti' = Insert(ti, id, MInf, ts) /\ Reply("stop", ts, id, 1)
      BY <3>2 DEF Insert, Reply
    <3>3. ASSUME Accepted(ts, id), Reply("stop", ts, id, 0),
                 NEW o \in OpenOf(ti, id),
                 ti' = (ti \ {o}) \cup {Close(o, ts)}
          PROVE  Step
      <4>1. o.who = id
        BY DEF OpenOf, OwnedBy
      <4>2. Close(o, ts).who = id
        BY <3>3, FinishKinds
      <4> QED
        BY <3>3, <4>1, <4>2 DEF Reply
    <3> QED
      BY <2>2, <3>1, <3>2, <3>3 DEF Stop, FinishLast
  <2>3. ASSUME NEW id \in Ids, Erase(id) PROVE Step
    BY <2>3 DEF Erase, OwnedBy, Reply
  <2> QED
    BY <2>1, <2>2, <2>3 DEF Next
<1>2. QED
  BY <1>1, TypeCorrect, PTL DEF Spec, NeighboursKept
-----------------------------------------------------------------------------

\* joint_start and joint_stop never lose a bounded interval or the start of an
\* open one: only an erase forgets.
THEOREM HistoryIsKept == Spec => HistoryKept
<1> DEFINE Step == call'.op # "erase" =>
                     \A t \in ti \ ti' :
                       /\ t.max = Inf
                       /\ \E u \in ti' : u.min = t.min /\ u.who = t.who
<1>1. TypeOK /\ [Next]_vars => [Step]_vars
  <2> SUFFICES ASSUME TypeOK, Next PROVE Step
    OBVIOUS
  <2>1. ASSUME ti \subseteq ti' PROVE Step
    BY <2>1
  <2>2. ASSUME NEW ts \in Times, NEW id \in Ids, Start(ts, id) PROVE Step
    BY <2>1, <2>2 DEF Start, Insert
  <2>3. ASSUME NEW ts \in Times, NEW id \in Ids, Stop(ts, id) PROVE Step
    <3>1. CASE ti' = ti \/ ti' = Insert(ti, id, MInf, ts)
      BY <2>1, <3>1 DEF Insert
    <3>2. ASSUME Accepted(ts, id), NEW o \in OpenOf(ti, id),
                 ti' = (ti \ {o}) \cup {Close(o, ts)}
          PROVE  Step
      <4>1. /\ o.max = Inf /\ o.who = id
            /\ Close(o, ts) = [min |-> o.min, max |-> ts, who |-> id]
        BY <3>2, FinishKinds
      <4>2. Close(o, ts).min = o.min /\ Close(o, ts).who = o.who
        BY <4>1
      <4>3. \A t \in ti \ ti' : t = o
        BY <3>2
      <4> QED
        BY <3>2, <4>1, <4>2, <4>3
    <3> QED
      BY <2>3, <3>1, <3>2 DEF Stop, FinishLast
  <2>4. ASSUME NEW id \in Ids, Erase(id) PROVE Step
    BY <2>4 DEF Erase, Reply
  <2> QED
    BY <2>2, <2>3, <2>4 DEF Next
<1>2. QED
  BY <1>1, TypeCorrect, PTL DEF Spec, HistoryKept

-----------------------------------------------------------------------------

\* Presence grows with the store, and an interval added to it adds presence
\* only to its own entity and only where it covers.
LEMMA PresentGrows ==
  ASSUME NEW S, NEW x, NEW id, NEW t
  PROVE  /\ Present(S, t, id) => Present(S \cup {x}, t, id)
         /\ Present(S \cup {x}, t, id) =>
              Present(S, t, id) \/ (x.who = id /\ Covers(x, t))
BY DEF Present, OwnedBy

\* Presence changes on one side of the timestamp of a call only.
THEOREM TimeIsLocal == Spec => TimeLocal
<1> DEFINE Step ==
      \A id \in Ids, t \in MInf..(Inf - 1) :
         LET was == Present(ti, t, id)
             is  == Present(ti', t, id)
         IN /\ call'.op = "start" =>
                 (was => is) /\ (t < call'.ts => (is => was))
            /\ call'.op = "stop" /\ call'.ret = 0 =>
                 (is => was) /\ (t < call'.ts => (was => is))
            /\ call'.op = "stop" /\ call'.ret = 1 =>
                 (was => is) /\ (t >= call'.ts => (is => was))
<1>1. TypeOK /\ [Next]_vars => [Step]_vars
  <2> SUFFICES ASSUME TypeOK, Next PROVE Step
    OBVIOUS
  <2>1. ASSUME ti' = ti PROVE Step
    BY <2>1
  <2>2. ASSUME NEW ts \in Times, NEW id \in Ids, Start(ts, id) PROVE Step
    <3>1. ASSUME Accepted(ts, id), ti' = Insert(ti, id, ts, Inf),
                 Reply("start", ts, id, 0),
                 NEW i \in Ids, NEW t \in MInf..(Inf - 1)
          PROVE  /\ Present(ti, t, i) => Present(ti', t, i)
                 /\ t < ts => (Present(ti', t, i) => Present(ti, t, i))
      <4> DEFINE x == [min |-> ts, max |-> Inf, who |-> id]
      <4>1. ti' = ti \cup {x}
        BY <3>1 DEF Insert
      <4>2. ASSUME t < ts PROVE ~ Covers(x, t)
        BY <4>2, TimeAssumption, RangeAssumption, SentinelAssumption DEF Covers
      <4> HIDE DEF x
      <4> QED
        BY <4>1, <4>2, PresentGrows
    <3>2. CASE ti' = Insert(ti, id, ts, Inf) /\ Reply("start", ts, id, 0) /\ Accepted(ts, id)
      <4>1. call'.op = "start" /\ call'.ts = ts
        BY <3>2 DEF Reply
      <4> QED
        BY <3>1, <3>2, <4>1
    <3> QED
      BY <2>1, <2>2, <3>2 DEF Start
  <2>3. ASSUME NEW ts \in Times, NEW id \in Ids, Stop(ts, id) PROVE Step
    <3>1. ASSUME ti' = Insert(ti, id, MInf, ts), Reply("stop", ts, id, 1)
          PROVE  Step
      <4> DEFINE x == [min |-> MInf, max |-> ts, who |-> id]
      <4>1. ti' = ti \cup {x}
        BY <3>1 DEF Insert
      <4>2. ASSUME NEW t \in MInf..(Inf - 1), t >= ts PROVE ~ Covers(x, t)
        BY <4>2, TimeAssumption, RangeAssumption, SentinelAssumption DEF Covers
      <4>3. call'.op = "stop" /\ call'.ret = 1 /\ call'.ts = ts
        BY <3>1 DEF Reply
      <4> HIDE DEF x
      <4> QED
        BY <4>1, <4>2, <4>3, PresentGrows
    <3>2. ASSUME Accepted(ts, id), Reply("stop", ts, id, 0),
                 NEW o \in OpenOf(ti, id),
                 ti' = (ti \ {o}) \cup {Close(o, ts)}
          PROVE  Step
      <4> DEFINE x == Close(o, ts)
      <4>1. /\ o \in ti /\ o \in Interval /\ o.who = id /\ o.max = Inf
            /\ x.min = o.min /\ x.max = ts /\ x.who = id
        <5>1. /\ o \in ti /\ o.who = id /\ o.max = Inf
              /\ x = [min |-> o.min, max |-> ts, who |-> id]
          BY <3>2, FinishKinds
        <5> QED
          BY <5>1 DEF TypeOK
      <4>2. ts < Inf /\ ts \in Int /\ o.min \in Int /\ Inf \in Int /\ MInf \in Int
        BY <3>2, <4>1, TimeAssumption, RangeAssumption, SentinelAssumption DEF Accepted, Interval
      <4>3. call'.op = "stop" /\ call'.ret = 0 /\ call'.ts = ts
        BY <3>2 DEF Reply
      <4> HIDE DEF x
      <4>4. ASSUME NEW t \in MInf..(Inf - 1)
            PROVE  /\ Covers(x, t) => Covers(o, t)
                   /\ t < ts => (Covers(o, t) => Covers(x, t))
        BY <4>1, <4>2 DEF Covers
      <4>5. ASSUME NEW i \in Ids, NEW t \in MInf..(Inf - 1)
            PROVE  /\ Present(ti', t, i) => Present(ti, t, i)
                   /\ t < ts => (Present(ti, t, i) => Present(ti', t, i))
        BY <3>2, <4>1, <4>4 DEF Present, OwnedBy, x
      <4> QED
        BY <4>3, <4>5
    <3> QED
      BY <2>1, <2>3, <3>1, <3>2 DEF Stop, FinishLast
  <2>4. ASSUME NEW id \in Ids, Erase(id) PROVE Step
    BY <2>4 DEF Erase, Reply
  <2> QED
    BY <2>2, <2>3, <2>4 DEF Next
<1>2. QED
  BY <1>1, TypeCorrect, PTL DEF Spec, TimeLocal
=============================================================================
