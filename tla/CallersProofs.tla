--------------------------- MODULE CallersProofs ---------------------------
(***************************************************************************)
(* Theorems about the three kinds of callers of Timeline.                  *)
(*                                                                         *)
(* Sessions: with callers that keep time the store is well formed, and it  *)
(* implements Presence.                                                    *)
(*                                                                         *)
(* Cursor: what joint_next returns, row by row, is the answer to the query *)
(* over the store joint_iter saw, and what that answer is worth.           *)
(*                                                                         *)
(* Axis: the adapter calls the store as anybody may; what it says it       *)
(* stored is there, its atomic form leaves no gap, and storing again what  *)
(* was read back changes nothing.                                          *)
(***************************************************************************)
EXTENDS Sessions, Cursor, Axis, TimelineProofs, SplitsProofs

-----------------------------------------------------------------------------
(* Sessions.                                                               *)


LEMMA SessionStep == [SNext]_svars => [Next]_vars
BY DEF SNext, SStart, SStop, SErase, Next, svars, vars

LEMMA STypeStep == STypeOK /\ [SNext]_svars => STypeOK'
<1> SUFFICES ASSUME STypeOK, [SNext]_svars PROVE STypeOK'
  OBVIOUS
<1>1. TypeOK'
  BY SessionStep, TypeStep DEF STypeOK
<1>2. ASSUME NEW ts \in MInf..Inf, NEW id \in Ids, NEW to \in {"new", "in", "out"},
             Advance(ts, id, to)
      PROVE  STypeOK'
  BY <1>1, <1>2 DEF STypeOK, Advance
<1>3. CASE UNCHANGED svars
  BY <1>1, <1>3 DEF STypeOK, svars
<1>4. MInf \in MInf..Inf
  BY TimeAssumption, RangeAssumption, SentinelAssumption
<1> QED
  BY <1>2, <1>3, <1>4, TimeAssumption, RangeAssumption, SentinelAssumption DEF SNext, SStart, SStop, SErase

THEOREM STypeCorrect == SSpec => []STypeOK
<1>1. SInit => STypeOK
  BY TimeAssumption, RangeAssumption, SentinelAssumption DEF SInit, Init, STypeOK, TypeOK
<1>2. QED
  BY <1>1, STypeStep, PTL DEF SSpec

-----------------------------------------------------------------------------

SInv == STypeOK /\ WellFormed /\ PhaseAgrees

\* A subset of a well-formed store is well formed, and so is one with an
\* interval more that lies apart from the others of its entity.
LEMMA FormedSubset ==
  ASSUME NEW S, NEW T, T \subseteq S, Apart(S), NonEmpty(S)
  PROVE  Apart(T) /\ NonEmpty(T)
BY DEF Apart, NonEmpty

LEMMA FormedInsert ==
  ASSUME NEW S, NEW x, Apart(S), NonEmpty(S), x.min < x.max,
         \A t \in S : t.who = x.who => t.max < x.min \/ x.max < t.min
  PROVE  Apart(S \cup {x}) /\ NonEmpty(S \cup {x})
BY DEF Apart, NonEmpty

\* What the caller believes decides whether the entity is present at a later
\* timestamp, and all its bounded intervals lie before that.
LEMMA PhaseTells ==
  ASSUME SInv, NEW ts \in Times, NEW id \in Ids, clock[id] < ts, ts < Inf
  PROVE  /\ phase[id] = "in" <=> Present(ti, ts, id)
         /\ phase[id] # "in" => OpenOf(ti, id) = {}
         /\ \A t \in OwnedBy(ti, id) : t.max # Inf => t.max < ts
<1>1. ts \in Int /\ clock[id] \in Int
  BY TimeAssumption, RangeAssumption, SentinelAssumption DEF SInv, STypeOK
<1>2. \A t \in OwnedBy(ti, id) : t \in Interval /\ t.min \in Int /\ t.max \in Int
  BY TimeAssumption, RangeAssumption, SentinelAssumption DEF SInv, STypeOK, TypeOK, OwnedBy, Interval
<1>3. AgreesFor(id)
  BY DEF SInv, PhaseAgrees
<1>4. \A t \in OwnedBy(ti, id) : t.max # Inf => t.max < ts
  BY <1>1, <1>2, <1>3 DEF AgreesFor
<1>5. phase[id] # "in" => OpenOf(ti, id) = {}
  BY <1>3 DEF AgreesFor, OpenOf, SInv, STypeOK
<1>6. ASSUME phase[id] = "in" PROVE Present(ti, ts, id)
  <2>1. PICK o \in OpenOf(ti, id) : TRUE
    BY <1>3, <1>6 DEF AgreesFor
  <2>2. o \in OwnedBy(ti, id) /\ o.max = Inf /\ o.min <= clock[id]
    BY <1>3, <2>1 DEF OpenOf, AgreesFor
  <2> QED
    BY <1>1, <1>2, <2>2 DEF Present, Covers
<1>7. ASSUME phase[id] # "in" PROVE ~ Present(ti, ts, id)
  <2>1. \A t \in OwnedBy(ti, id) : t.max < ts
    BY <1>4, <1>5, <1>7 DEF OpenOf
  <2> QED
    BY <1>1, <1>2, <2>1 DEF Present, Covers
<1> QED
  BY <1>4, <1>5, <1>6, <1>7

\* An entity the call does not name keeps its intervals, its clock and its
\* phase, and so what it believes stays true.
LEMMA OthersAgree ==
  ASSUME SInv, NEW id \in Ids, NEW i \in Ids, i # id,
         OwnedBy(ti', i) = OwnedBy(ti, i),
         clock'[i] = clock[i], phase'[i] = phase[i]
  PROVE  AgreesFor(i)'
<1>1. AgreesFor(i)
  BY DEF SInv, PhaseAgrees
<1>2. OpenOf(ti', i) = OpenOf(ti, i)
  BY DEF OpenOf
<1> QED
  BY <1>1, <1>2 DEF AgreesFor
\* What Advance does to the entity a successful call names, and to the others.
LEMMA Advanced ==
  ASSUME SInv, NEW ts, NEW id \in Ids, NEW to, Advance(ts, id, to), call'.ret # -1
  PROVE  /\ clock'[id] = ts /\ phase'[id] = to
         /\ \A i \in Ids \ {id} : clock'[i] = clock[i] /\ phase'[i] = phase[i]
BY DEF Advance, SInv, STypeOK

LEMMA StartKeeps ==
  ASSUME SInv, NEW ts \in Times, NEW id \in Ids, SStart(ts, id)
  PROVE  WellFormed' /\ PhaseAgrees'
<1>1. CASE ~ Accepted(ts, id)
  <2>1. ti' = ti /\ call'.ret = -1
    BY <1>1 DEF SStart, Start, Reply
  <2>2. UNCHANGED <<ti, clock, phase>>
    BY <2>1 DEF SStart, Advance
  <2> QED
    BY <2>2 DEF SInv, WellFormed, PhaseAgrees, AgreesFor
<1>2. CASE Accepted(ts, id)
  <2>1. ts < Inf /\ ts \in Int /\ Inf \in Int /\ clock[id] \in Int /\ clock[id] < ts
    BY <1>2, TimeAssumption, RangeAssumption, SentinelAssumption DEF Accepted, SStart, SInv, STypeOK
  <2>2. call'.ret # -1
    BY <1>2 DEF SStart, Start, Reply
  <2>3. /\ clock'[id] = ts /\ phase'[id] = "in"
        /\ \A i \in Ids \ {id} : clock'[i] = clock[i] /\ phase'[i] = phase[i]
    BY <2>2, Advanced DEF SStart
  <2>4. CASE phase[id] = "in"
    <3>1. ti' = ti
      BY <1>2, <2>1, <2>4, PhaseTells DEF SStart, Start
    <3>2. AgreesFor(id)'
      <4>1. AgreesFor(id)
        BY DEF SInv, PhaseAgrees
      <4>2. \A t \in OwnedBy(ti, id) : t.min \in Int /\ t.max \in Int
        BY TimeAssumption, RangeAssumption, SentinelAssumption DEF SInv, STypeOK, TypeOK, OwnedBy, Interval
      <4> QED
        BY <2>1, <2>3, <2>4, <3>1, <4>1, <4>2 DEF AgreesFor
    <3>3. \A i \in Ids \ {id} : AgreesFor(i)'
      BY <2>3, <3>1, OthersAgree
    <3> QED
      BY <3>1, <3>2, <3>3 DEF SInv, WellFormed, PhaseAgrees
  <2>5. CASE phase[id] # "in"
    <3> DEFINE x == [min |-> ts, max |-> Inf, who |-> id]
    <3>1. ti' = ti \cup {x}
      BY <1>2, <2>1, <2>5, PhaseTells DEF SStart, Start, Insert
    <3>2. x.min = ts /\ x.max = Inf /\ x.who = id
      OBVIOUS
    <3> HIDE DEF x
    <3>3. \A t \in OwnedBy(ti, id) : t.max < ts
      BY <2>1, <2>5, PhaseTells DEF OpenOf
    <3>4. WellFormed'
      BY <2>1, <3>1, <3>2, <3>3, FormedInsert DEF SInv, WellFormed, OwnedBy
    <3>5. OwnedBy(ti', id) = OwnedBy(ti, id) \cup {x}
      BY <3>1, <3>2 DEF OwnedBy
    <3>6. OpenOf(ti', id) = {x}
      BY <2>1, <2>5, <3>2, <3>5, PhaseTells DEF OpenOf
    <3>7. \A t \in OwnedBy(ti, id) : t.max \in Int
      BY TimeAssumption, RangeAssumption, SentinelAssumption DEF SInv, STypeOK, TypeOK, OwnedBy, Interval
    <3>8. AgreesFor(id)'
      BY <2>1, <2>3, <3>2, <3>3, <3>5, <3>6, <3>7 DEF AgreesFor
    <3>9. \A i \in Ids \ {id} : OwnedBy(ti', i) = OwnedBy(ti, i)
      BY <3>1, <3>2 DEF OwnedBy
    <3>10. \A i \in Ids \ {id} : AgreesFor(i)'
      BY <2>3, <3>9, OthersAgree
    <3> QED
      BY <3>4, <3>8, <3>10 DEF PhaseAgrees
  <2> QED
    BY <2>4, <2>5
<1> QED
  BY <1>1, <1>2

LEMMA StopKeeps ==
  ASSUME SInv, NEW ts \in Times, NEW id \in Ids, SStop(ts, id)
  PROVE  WellFormed' /\ PhaseAgrees'
<1>1. CASE ~ Accepted(ts, id)
  <2>1. ti' = ti /\ call'.ret = -1
    BY <1>1 DEF SStop, Stop, Reply
  <2>2. UNCHANGED <<ti, clock, phase>>
    BY <2>1 DEF SStop, Advance
  <2> QED
    BY <2>2 DEF SInv, WellFormed, PhaseAgrees, AgreesFor
<1>2. CASE Accepted(ts, id)
  <2>1. /\ MInf < ts /\ ts < Inf /\ ts \in Int /\ Inf \in Int /\ MInf \in Int
        /\ clock[id] \in Int /\ clock[id] < ts
    BY <1>2, TimeAssumption, RangeAssumption, SentinelAssumption DEF Accepted, SStop, SInv, STypeOK
  <2>2. call'.ret # -1
    BY <1>2 DEF SStop, Stop, Reply
  <2>3. /\ clock'[id] = ts /\ phase'[id] = "out"
        /\ \A i \in Ids \ {id} : clock'[i] = clock[i] /\ phase'[i] = phase[i]
    BY <2>2, Advanced DEF SStop
  <2>4. AgreesFor(id)
    BY DEF SInv, PhaseAgrees
  <2>5. CASE phase[id] = "in"
    <3>1. PICK o \in OpenOf(ti, id) : OpenOf(ti, id) = {o}
      BY <2>4, <2>5 DEF AgreesFor
    <3> DEFINE x == Close(o, ts)
    <3>2. ti' = (ti \ {o}) \cup {x}
      BY <1>2, <2>1, <2>5, <3>1, PhaseTells DEF SStop, Stop, FinishLast
    <3>3. /\ o \in ti /\ o.who = id /\ o.max = Inf
          /\ x.min = o.min /\ x.max = ts /\ x.who = id
      <4>1. /\ o \in ti /\ o.who = id /\ o.max = Inf
            /\ Close(o, ts) = [min |-> o.min, max |-> ts, who |-> id]
        BY <1>2, FinishKinds DEF SInv, STypeOK
      <4> QED
        BY <4>1
    <3> HIDE DEF x
    <3>4. o.min \in Int /\ o.min < ts
      <4>1. o.min \in Int /\ o.min <= clock[id]
        BY <2>4, <3>3, TimeAssumption, RangeAssumption, SentinelAssumption
           DEF AgreesFor, OwnedBy, SInv, STypeOK, TypeOK, Interval
      <4> QED
        BY <2>1, <4>1
    <3>5. Apart(ti \ {o}) /\ NonEmpty(ti \ {o})
      BY FormedSubset DEF SInv, WellFormed
    <3>6. \A t \in ti \ {o} : t.who = id => t.max < o.min
      <4> SUFFICES ASSUME NEW t \in ti \ {o}, t.who = id PROVE t.max < o.min
        OBVIOUS
      <4>1. t.max < o.min \/ Inf < t.min
        BY <3>3 DEF SInv, WellFormed, Apart
      <4>2. t.min <= Inf /\ t.min \in Int
        BY TimeAssumption, RangeAssumption, SentinelAssumption DEF SInv, STypeOK, TypeOK, Interval
      <4> QED
        BY <2>1, <4>1, <4>2
    <3>7. WellFormed'
      BY <3>2, <3>3, <3>4, <3>5, <3>6, FormedInsert DEF WellFormed
    <3>8. OwnedBy(ti', id) = (OwnedBy(ti, id) \ {o}) \cup {x}
      BY <3>2, <3>3 DEF OwnedBy
    <3>9. OpenOf(ti', id) = {}
      BY <2>1, <3>1, <3>3, <3>8 DEF OpenOf
    <3>10. \A t \in OwnedBy(ti, id) \ {o} : t.max < ts /\ t.max \in Int
      <4> SUFFICES ASSUME NEW t \in OwnedBy(ti, id) \ {o}
                   PROVE  t.max < ts /\ t.max \in Int
        OBVIOUS
      <4>1. t.max # Inf
        BY <3>1 DEF OpenOf
      <4>2. t.max \in Int
        BY TimeAssumption, RangeAssumption, SentinelAssumption DEF SInv, STypeOK, TypeOK, OwnedBy, Interval
      <4> QED
        BY <2>1, <4>1, <4>2, PhaseTells
    <3>11. AgreesFor(id)'
      BY <2>1, <2>3, <3>3, <3>8, <3>9, <3>10 DEF AgreesFor
    <3>12. \A i \in Ids \ {id} : OwnedBy(ti', i) = OwnedBy(ti, i)
      BY <3>2, <3>3 DEF OwnedBy
    <3>13. \A i \in Ids \ {id} : AgreesFor(i)'
      BY <2>3, <3>12, OthersAgree
    <3> QED
      BY <3>7, <3>11, <3>13 DEF PhaseAgrees
  <2>6. CASE phase[id] = "new"
    <3> DEFINE x == [min |-> MInf, max |-> ts, who |-> id]
    <3>1. ti' = ti \cup {x}
      BY <1>2, <2>1, <2>6, PhaseTells DEF SStop, Stop, Insert
    <3>2. x.min = MInf /\ x.max = ts /\ x.who = id
      OBVIOUS
    <3> HIDE DEF x
    <3>3. OwnedBy(ti, id) = {}
      BY <2>4, <2>6 DEF AgreesFor
    <3>4. WellFormed'
      BY <2>1, <3>1, <3>2, <3>3, FormedInsert DEF SInv, WellFormed, OwnedBy
    <3>5. OwnedBy(ti', id) = {x}
      BY <3>1, <3>2, <3>3 DEF OwnedBy
    <3>6. AgreesFor(id)'
      BY <2>1, <2>3, <3>2, <3>5 DEF AgreesFor, OpenOf
    <3>7. \A i \in Ids \ {id} : OwnedBy(ti', i) = OwnedBy(ti, i)
      BY <3>1, <3>2 DEF OwnedBy
    <3>8. \A i \in Ids \ {id} : AgreesFor(i)'
      BY <2>3, <3>7, OthersAgree
    <3> QED
      BY <3>4, <3>6, <3>8 DEF PhaseAgrees
  <2> QED
    BY <2>5, <2>6 DEF SStop, SInv, STypeOK
<1> QED
  BY <1>1, <1>2

LEMMA EraseKeeps ==
  ASSUME SInv, NEW id \in Ids, SErase(id)
  PROVE  WellFormed' /\ PhaseAgrees'
<1>1. CASE id = NoId
  <2>1. ti' = ti /\ call'.ret = -1
    BY <1>1 DEF SErase, Erase, Reply
  <2>2. UNCHANGED <<ti, clock, phase>>
    BY <2>1 DEF SErase, Advance
  <2> QED
    BY <2>2 DEF SInv, WellFormed, PhaseAgrees, AgreesFor
<1>2. CASE id # NoId
  <2>1. ti' = ti \ OwnedBy(ti, id) /\ call'.ret = 0
    BY <1>2 DEF SErase, Erase, Reply
  <2>2. /\ clock'[id] = MInf /\ phase'[id] = "new"
        /\ \A i \in Ids \ {id} : clock'[i] = clock[i] /\ phase'[i] = phase[i]
    BY <2>1, Advanced DEF SErase
  <2>3. WellFormed'
    BY <2>1, FormedSubset DEF SInv, WellFormed
  <2>4. OwnedBy(ti', id) = {}
    BY <2>1 DEF OwnedBy
  <2>5. AgreesFor(id)'
    BY <2>2, <2>4 DEF AgreesFor
  <2>6. \A i \in Ids \ {id} : OwnedBy(ti', i) = OwnedBy(ti, i)
    BY <2>1 DEF OwnedBy
  <2>7. \A i \in Ids \ {id} : AgreesFor(i)'
    BY <2>2, <2>6, OthersAgree
  <2> QED
    BY <2>3, <2>5, <2>7 DEF PhaseAgrees
<1> QED
  BY <1>1, <1>2

\* The inductive invariant of Sessions.
LEMMA SStep == SInv /\ [SNext]_svars => SInv'
<1> SUFFICES ASSUME SInv, [SNext]_svars PROVE SInv'
  OBVIOUS
<1>1. STypeOK'
  BY STypeStep DEF SInv
<1>2. CASE SNext
  BY <1>1, <1>2, StartKeeps, StopKeeps, EraseKeeps DEF SNext, SInv
<1>3. CASE UNCHANGED svars
  BY <1>1, <1>3 DEF SInv, svars, WellFormed, PhaseAgrees, AgreesFor
<1> QED
  BY <1>2, <1>3

LEMMA SInvariant == SSpec => []SInv
<1>1. SInit => SInv
  <2> SUFFICES ASSUME SInit PROVE SInv
    OBVIOUS
  <2>1. STypeOK
    BY TimeAssumption, RangeAssumption, SentinelAssumption DEF SInit, Init, STypeOK, TypeOK
  <2>2. WellFormed
    BY DEF SInit, Init, WellFormed, Apart, NonEmpty
  <2>3. PhaseAgrees
    BY DEF SInit, Init, PhaseAgrees, AgreesFor, OwnedBy
  <2> QED
    BY <2>1, <2>2, <2>3 DEF SInv
<1>2. QED
  BY <1>1, SStep, PTL DEF SSpec

\* With callers that keep time no two intervals of an entity overlap or touch,
\* and none is empty or inverted: what the sweep needs to be exact.
THEOREM StoreIsWellFormed == SSpec => []WellFormed
<1>1. SInv => WellFormed
  BY DEF SInv
<1>2. QED
  BY <1>1, SInvariant, PTL

\* What the callers believe about an entity is what the store says.
THEOREM CallersAreRight == SSpec => []PhaseAgrees
<1>1. SInv => PhaseAgrees
  BY DEF SInv
<1>2. QED
  BY <1>1, SInvariant, PTL
-----------------------------------------------------------------------------

\* The presence of an entity is decided by its own intervals.
LEMMA HereOthers ==
  ASSUME NEW i \in Ids, OwnedBy(ti', i) = OwnedBy(ti, i)
  PROVE  Here'[i] = Here[i]
BY DEF Here, Present

LEMMA HereUpdate ==
  ASSUME NEW id \in Ids, NEW H,
         \A i \in Ids \ {id} : OwnedBy(ti', i) = OwnedBy(ti, i),
         Here'[id] = H
  PROVE  Here' = [Here EXCEPT ![id] = H]
<1>1. \A i \in Ids \ {id} : Here'[i] = Here[i]
  BY HereOthers
<1>2. Here = [i \in Ids |-> Here[i]] /\ Here' = [i \in Ids |-> Here'[i]]
  BY DEF Here
<1> HIDE DEF Here
<1> QED
  BY <1>1, <1>2

\* An accepted timestamp is an instant that a start or a stop may name.
LEMMA AcceptedMoment ==
  ASSUME NEW ts \in Times, NEW id \in Ids, Accepted(ts, id)
  PROVE  /\ ts \in Instants /\ Finite(ts)
         /\ MInf < ts /\ ts < Inf /\ ts \in Int /\ MInf \in Int /\ Inf \in Int
BY TimeAssumption, RangeAssumption, SentinelAssumption DEF Accepted, Instants, Finite

LEMMA StartPromise ==
  ASSUME SInv, NEW ts \in Times, NEW id \in Ids, SStart(ts, id)
  PROVE  Here' = Here \/ (Promise!Arrive(ts, id) /\ Accepted(ts, id))
<1>1. CASE ti' = ti
  BY <1>1 DEF Here
<1>2. CASE Accepted(ts, id) /\ ~ Present(ti, ts, id) /\ ti' = Insert(ti, id, ts, Inf)
  <2> DEFINE x == [min |-> ts, max |-> Inf, who |-> id]
  <2>1. ti' = ti \cup {x} /\ x.min = ts /\ x.max = Inf /\ x.who = id
    BY <1>2 DEF Insert
  <2> HIDE DEF x
  <2>2. \A i \in Ids \ {id} : OwnedBy(ti', i) = OwnedBy(ti, i)
    BY <2>1 DEF OwnedBy
  <2>3. \A t \in Instants : Covers(x, t) <=> ts <= t
    BY <1>2, <2>1, AcceptedMoment DEF Covers, Instants
  <2>4. \A t \in Instants : Present(ti', t, id) <=> Present(ti, t, id) \/ ts <= t
    BY <2>1, <2>3 DEF Present, OwnedBy
  <2>5. Here'[id] = Here[id] \cup Promise!From(ts)
    BY <2>4 DEF Here, Promise!From
  <2>6. ts \notin Here[id]
    BY <1>2 DEF Here
  <2>7. Here' = [Here EXCEPT ![id] = Here[id] \cup Promise!From(ts)]
    BY <2>2, <2>5, HereUpdate
  <2> QED
    BY <1>2, <2>6, <2>7 DEF Promise!Arrive
<1> QED
  BY <1>1, <1>2 DEF SStart, Start

LEMMA StopPromise ==
  ASSUME SInv, NEW ts \in Times, NEW id \in Ids, SStop(ts, id)
  PROVE  \/ Here' = Here
         \/ (Promise!Leave(ts, id) /\ Accepted(ts, id))
         \/ (Promise!Backfill(ts, id) /\ Accepted(ts, id))
<1>1. CASE ti' = ti
  BY <1>1 DEF Here
<1>2. CASE Accepted(ts, id) /\ ~ Present(ti, ts, id) /\ ti' = Insert(ti, id, MInf, ts)
  <2> DEFINE x == [min |-> MInf, max |-> ts, who |-> id]
  <2>1. ti' = ti \cup {x} /\ x.min = MInf /\ x.max = ts /\ x.who = id
    BY <1>2 DEF Insert
  <2> HIDE DEF x
  <2>2. \A i \in Ids \ {id} : OwnedBy(ti', i) = OwnedBy(ti, i)
    BY <2>1 DEF OwnedBy
  <2>3. \A t \in Instants : Covers(x, t) <=> t < ts
    BY <1>2, <2>1, AcceptedMoment DEF Covers, Instants
  <2>4. \A t \in Instants : Present(ti', t, id) <=> Present(ti, t, id) \/ t < ts
    BY <2>1, <2>3 DEF Present, OwnedBy
  <2>5. Here'[id] = Here[id] \cup Promise!Before(ts)
    BY <2>4 DEF Here, Promise!Before
  <2>6. ts \notin Here[id]
    BY <1>2 DEF Here
  <2>7. Here' = [Here EXCEPT ![id] = Here[id] \cup Promise!Before(ts)]
    BY <2>2, <2>5, HereUpdate
  <2> QED
    BY <1>2, <2>6, <2>7 DEF Promise!Backfill
<1>3. CASE Accepted(ts, id) /\ Present(ti, ts, id) /\ ti' \in FinishLast(ti, id, ts)
  <2>1. ts \in Instants /\ ts < Inf /\ ts \in Int /\ Inf \in Int /\ MInf \in Int
    BY <1>3, AcceptedMoment
  <2>2. phase[id] = "in" /\ \A t \in OwnedBy(ti, id) : t.max # Inf => t.max < ts
    BY <1>3, <2>1, PhaseTells DEF SStop
  <2>3. PICK o \in OpenOf(ti, id) : OpenOf(ti, id) = {o}
    BY <2>2 DEF SInv, PhaseAgrees, AgreesFor
  <2> DEFINE x == Close(o, ts)
  <2>4. ti' = (ti \ {o}) \cup {x}
    BY <1>3, <2>3 DEF FinishLast
  <2>5. /\ o \in ti /\ o.who = id /\ o.max = Inf
        /\ x.min = o.min /\ x.max = ts /\ x.who = id
    <3>1. /\ o \in ti /\ o.who = id /\ o.max = Inf
          /\ Close(o, ts) = [min |-> o.min, max |-> ts, who |-> id]
      BY <1>3, FinishKinds DEF SInv, STypeOK
    <3> QED
      BY <3>1
  <2> HIDE DEF x
  <2>6. \A i \in Ids \ {id} : OwnedBy(ti', i) = OwnedBy(ti, i)
    BY <2>4, <2>5 DEF OwnedBy
  <2>7. \A t \in OwnedBy(ti, id) : t.min \in Int /\ t.max \in Int
    BY TimeAssumption, RangeAssumption, SentinelAssumption DEF SInv, STypeOK, TypeOK, OwnedBy, Interval
  <2>8. \A t \in Instants : Covers(x, t) <=> Covers(o, t) /\ ~ (ts <= t)
    BY <2>1, <2>5, <2>7 DEF Covers, Instants, OwnedBy
  <2>9. \A u \in OwnedBy(ti, id) \ {o}, t \in Instants : Covers(u, t) => ~ (ts <= t)
    <3> SUFFICES ASSUME NEW u \in OwnedBy(ti, id) \ {o}, NEW t \in Instants,
                        Covers(u, t)
                 PROVE  ~ (ts <= t)
      OBVIOUS
    <3>1. u.max < ts
      BY <2>2, <2>3 DEF OpenOf
    <3> QED
      BY <2>1, <2>7, <3>1 DEF Covers, Instants
  <2>10. OwnedBy(ti', id) = (OwnedBy(ti, id) \ {o}) \cup {x}
    BY <2>4, <2>5 DEF OwnedBy
  <2>11. \A t \in Instants : Present(ti', t, id) <=> Present(ti, t, id) /\ ~ (ts <= t)
    <3>1. o \in OwnedBy(ti, id)
      BY <2>3 DEF OpenOf
    <3> QED
      BY <2>8, <2>9, <2>10, <3>1 DEF Present
  <2>12. Here'[id] = Here[id] \ Promise!From(ts)
    BY <2>11 DEF Here, Promise!From
  <2>13. ts \in Here[id]
    BY <1>3, <2>1 DEF Here
  <2>14. Here' = [Here EXCEPT ![id] = Here[id] \ Promise!From(ts)]
    BY <2>6, <2>12, HereUpdate
  <2> QED
    BY <1>3, <2>13, <2>14 DEF Promise!Leave
<1> QED
  BY <1>1, <1>2, <1>3 DEF SStop, Stop

LEMMA ErasePromise ==
  ASSUME NEW id \in Ids, SErase(id)
  PROVE  Here' = Here \/ Promise!Forget(id)
<1>1. CASE ti' = ti
  BY <1>1 DEF Here
<1>2. CASE ti' = ti \ OwnedBy(ti, id)
  <2>1. \A i \in Ids \ {id} : OwnedBy(ti', i) = OwnedBy(ti, i)
    BY <1>2 DEF OwnedBy
  <2>2. OwnedBy(ti', id) = {}
    BY <1>2 DEF OwnedBy
  <2>3. Here'[id] = {}
    BY <2>2 DEF Here, Present
  <2> QED
    BY <2>1, <2>3, HereUpdate DEF Promise!Forget
<1> QED
  BY <1>1, <1>2 DEF SErase, Erase

\* The store of time-keeping callers implements Presence: every call changes
\* who is there exactly as the abstract specification says, or not at all.
THEOREM SessionsImplementPresence == SSpec => PresenceSpec
<1>1. SInit => Promise!Init
  BY DEF SInit, Init, Promise!Init, Here, Present, OwnedBy
<1>2. SInv /\ [SNext]_svars => [Promise!Next]_Here
  <2> SUFFICES ASSUME SInv, [SNext]_svars PROVE [Promise!Next]_Here
    OBVIOUS
  <2>1. CASE UNCHANGED svars
    BY <2>1 DEF svars, Here
  <2>2. ASSUME NEW ts \in Times, NEW id \in Ids, SStart(ts, id)
        PROVE  [Promise!Next]_Here
    BY <2>2, StartPromise, AcceptedMoment DEF Promise!Next
  <2>3. ASSUME NEW ts \in Times, NEW id \in Ids, SStop(ts, id)
        PROVE  [Promise!Next]_Here
    BY <2>3, StopPromise, AcceptedMoment DEF Promise!Next
  <2>4. ASSUME NEW id \in Ids, SErase(id)
        PROVE  [Promise!Next]_Here
    BY <2>4, ErasePromise DEF Promise!Next
  <2> QED
    BY <2>1, <2>2, <2>3, <2>4 DEF SNext
<1>3. QED
  BY <1>1, <1>2, SInvariant, PTL DEF SSpec, PresenceSpec, Promise!Spec

-----------------------------------------------------------------------------
(* Cursor.                                                                 *)


\* The answer to the query, and the rows it comes to.
QueryAnswer == Query(asked.store, asked.from, asked.to)

RowsOf(q) == UNION {{Row(q[k], w) : w \in q[k].ids} : k \in 1..Len(q)}

\* The rows joint_next has still to return.
Unread == UNION {{Row(rest[k], w) : w \in rest[k].left} : k \in 1..Len(rest)}

CTypeOK ==
  /\ TypeOK /\ IsFiniteSet(ti)
  /\ asked.store \subseteq Interval /\ IsFiniteSet(asked.store)
  /\ asked.from \in Int /\ asked.to \in Int
  /\ status \in {"idle", "open", "done", "dead"}

\* Between them the rows returned and the rows left are the whole answer, and
\* none that was returned comes after one that is left.
Reads ==
  /\ rest \in Seq(Piece)
  /\ \A j, k \in 1..Len(rest) : j < k => rest[j].min <= rest[k].min
  /\ got \cup Unread = RowsOf(QueryAnswer)
  /\ \A r \in got : r.min \in Int
  /\ \A r \in got, k \in 1..Len(rest) : rest[k].left # {} => r.min <= rest[k].min

CInv ==
  /\ CTypeOK
  /\ status \in {"idle", "dead"} => got = {}
  /\ status = "dead" => QueryFaults(asked.store, asked.from, asked.to)
  /\ status \in {"open", "done"} => ~ QueryFaults(asked.store, asked.from, asked.to)
  /\ status \in {"open", "done"} /\ Ordered(asked.store) => Reads
  /\ status = "done" => rest = <<>>

-----------------------------------------------------------------------------

LEMMA RowFields ==
  ASSUME NEW s, NEW w
  PROVE  /\ Row(s, w).min = s.min /\ Row(s, w).max = s.max
         /\ Row(s, w).who = w /\ Row(s, w).count = Cardinality(s.ids)
BY DEF Row

LEMMA RowsOfMember ==
  ASSUME NEW q, NEW r
  PROVE  r \in RowsOf(q) <=> \E k \in 1..Len(q) : \E w \in q[k].ids : r = Row(q[k], w)
BY DEF RowsOf

LEMMA UnreadMember ==
  ASSUME NEW r
  PROVE  r \in Unread <=> \E k \in 1..Len(rest) : \E w \in rest[k].left : r = Row(rest[k], w)
BY DEF Unread

LEMMA UnreadNext ==
  ASSUME NEW r
  PROVE  r \in Unread' <=> \E k \in 1..Len(rest') : \E w \in rest'[k].left : r = Row(rest'[k], w)
BY DEF Unread, Row

\* A call adds at most one interval.
LEMMA FiniteStep ==
  ASSUME IsFiniteSet(ti), Next
  PROVE  IsFiniteSet(ti')
<1>1. ASSUME NEW x, ti' \subseteq ti \cup {x} PROVE IsFiniteSet(ti')
  <2>1. IsFiniteSet(ti \cup {x})
    BY FS_AddElement
  <2> QED
    BY <1>1, <2>1, FS_Subset
<1>2. ASSUME NEW ts \in Times, NEW id \in Ids, Start(ts, id) PROVE IsFiniteSet(ti')
  <2>1. ti' \subseteq ti \cup {[min |-> ts, max |-> Inf, who |-> id]}
    BY <1>2 DEF Start, Insert
  <2> QED
    BY <1>1, <2>1
<1>3. ASSUME NEW ts \in Times, NEW id \in Ids, Stop(ts, id) PROVE IsFiniteSet(ti')
  <2>1. CASE ti' = ti
    BY <2>1
  <2>2. CASE ti' = Insert(ti, id, MInf, ts)
    BY <1>1, <2>2 DEF Insert
  <2>3. ASSUME NEW o \in OpenOf(ti, id), ti' = (ti \ {o}) \cup {Close(o, ts)}
        PROVE  IsFiniteSet(ti')
    BY <1>1, <2>3
  <2> QED
    BY <1>3, <2>1, <2>2, <2>3 DEF Stop, FinishLast
<1>4. ASSUME NEW id \in Ids, Erase(id) PROVE IsFiniteSet(ti')
  <2>1. ti' \subseteq ti
    BY <1>4 DEF Erase
  <2> QED
    BY <2>1, FS_Subset
<1> QED
  BY <1>2, <1>3, <1>4 DEF Next

\* What a query that does not fault answers over a store without an inverted
\* interval, for every window.
LEMMA AnswerFacts ==
  ASSUME NEW S, S \subseteq Interval, Ordered(S), NEW a \in Int, NEW b \in Int,
         ~ QueryFaults(S, a, b)
  PROVE  /\ Truthful(Query(S, a, b), S, a, b)
         /\ Apart(S) => Telling(Query(S, a, b), S, a, b)
<1>1. CASE a <= b
  BY <1>1, QueryIsTruthful, QueryTells
<1>2. CASE a > b
  <2>1. Query(S, a, b) = <<>>
    BY <1>2, ReversedQuery
  <2>2. Telling(<<>>, S, a, b)
    BY <1>2 DEF Telling
  <2> QED
    BY <2>1, <2>2, NothingIsTruthful
<1> QED
  BY <1>1, <1>2

\* joint_iter: everything is left to return.
LEMMA IterReads ==
  ASSUME NEW q, NEW S, NEW a \in Int, NEW b \in Int, Truthful(q, S, a, b),
         rest' = q, got' = {}, QueryAnswer' = q
  PROVE  Reads'
<1>1. q \in Seq(Piece)
  BY DEF Truthful
<1>2. \A k \in 1..Len(q) : /\ q[k].min \in Int /\ q[k].max \in Int
                           /\ q[k].min < q[k].max /\ q[k].left = q[k].ids
  BY <1>1, ElementOfSeq, PieceFields DEF Truthful
<1>3. \A j, k \in 1..Len(q) : j < k => q[j].max <= q[k].min
  BY DEF Truthful
<1>4. \A j, k \in 1..Len(q) : j < k => q[j].min <= q[k].min
  BY <1>2, <1>3
<1>5. RowsOf(QueryAnswer)' = RowsOf(q)
  BY DEF RowsOf, Row
<1>6. Unread' = RowsOf(q)
  <2>1. \A r : r \in Unread' <=> r \in RowsOf(q)
    BY <1>2, UnreadNext, RowsOfMember
  <2> QED
    BY <2>1 DEF Unread
<1> QED
  BY <1>1, <1>4, <1>5, <1>6 DEF Reads

\* joint_next: the row it returns is one of those left, and the others stay.
LEMMA PopFacts ==
  ASSUME Reads, Unpopped # {}, NEW who, who \in rest[Min(Unpopped)].left
  PROVE  /\ Min(Unpopped) \in 1..Len(rest)
         /\ Pop(Min(Unpopped), who) \in Seq(Piece)
         /\ Len(Pop(Min(Unpopped), who)) = Len(rest) - Min(Unpopped) + 1
         /\ \A i \in 1..(Min(Unpopped) - 1) : rest[i].left = {}
         /\ \A i \in 1..Len(Pop(Min(Unpopped), who)) :
              /\ i + Min(Unpopped) - 1 \in 1..Len(rest)
              /\ Pop(Min(Unpopped), who)[i].min = rest[i + Min(Unpopped) - 1].min
              /\ Pop(Min(Unpopped), who)[i].max = rest[i + Min(Unpopped) - 1].max
              /\ Pop(Min(Unpopped), who)[i].ids = rest[i + Min(Unpopped) - 1].ids
              /\ Pop(Min(Unpopped), who)[i].left =
                   rest[i + Min(Unpopped) - 1].left \ (IF i = 1 THEN {who} ELSE {})
<1> DEFINE k == Min(Unpopped)
           tail == SubSeq(rest, k, Len(rest))
           p == Pop(k, who)
<1>1. rest \in Seq(Piece) /\ Len(rest) \in Nat /\ DOMAIN rest = 1..Len(rest)
  BY LenProperties DEF Reads
<1>2. Unpopped \in SUBSET Nat
  BY <1>1 DEF Unpopped
<1>3. \E x \in Unpopped : \A y \in Unpopped : x <= y
  BY <1>2, Least
<1>4. k \in Unpopped /\ \A y \in Unpopped : k <= y
  BY <1>3 DEF Min
<1> HIDE DEF k
<1>5. k \in 1..Len(rest) /\ k \in Int /\ Len(rest) \in Int
  BY <1>1, <1>4 DEF Unpopped
<1>6. \A i \in 1..(k - 1) : rest[i].left = {}
  <2> SUFFICES ASSUME NEW i \in 1..(k - 1), rest[i].left # {} PROVE FALSE
    OBVIOUS
  <2>1. i \in Unpopped
    BY <1>1, <1>5 DEF Unpopped
  <2> QED
    BY <1>4, <1>5, <2>1
<1>7. /\ tail \in Seq(Piece) /\ Len(tail) = Len(rest) - k + 1
      /\ \A i \in 1..(Len(rest) - k + 1) : tail[i] = rest[k + i - 1]
  <2>1. \A i \in k..Len(rest) : rest[i] \in Piece
    BY <1>1, <1>5, ElementOfSeq
  <2> QED
    BY <1>5, <2>1, SubSeqProperties
<1> HIDE DEF tail
<1>8. Len(tail) \in Nat /\ DOMAIN tail = 1..Len(tail) /\ 1 \in 1..Len(tail)
  BY <1>5, <1>7, LenProperties
<1>9. p = [tail EXCEPT ![1].left = @ \ {who}]
  BY DEF Pop, tail, p
<1> HIDE DEF p
<1>10. \A i \in 1..Len(tail) : tail[i] \in Piece
  BY <1>7, ElementOfSeq
<1>11. /\ p \in [1..Len(tail) -> Piece]
       /\ \A i \in 1..Len(tail) :
            /\ p[i].min = tail[i].min /\ p[i].max = tail[i].max /\ p[i].ids = tail[i].ids
            /\ p[i].left = tail[i].left \ (IF i = 1 THEN {who} ELSE {})
  <2>1. DOMAIN p = 1..Len(tail) /\ p = [i \in DOMAIN p |-> p[i]]
    BY <1>8, <1>9
  <2>2. p[1] = [tail[1] EXCEPT !.left = @ \ {who}]
    BY <1>8, <1>9
  <2>3. \A i \in 1..Len(tail) : i # 1 => p[i] = tail[i]
    BY <1>8, <1>9
  <2>4. /\ p[1] \in Piece /\ p[1].min = tail[1].min /\ p[1].max = tail[1].max
        /\ p[1].ids = tail[1].ids /\ p[1].left = tail[1].left \ {who}
    BY <1>8, <1>10, <2>2 DEF Piece
  <2>5. \A i \in 1..Len(tail) : p[i] \in Piece
    BY <1>10, <2>3, <2>4
  <2>6. p \in [1..Len(tail) -> Piece]
    BY <2>1, <2>5
  <2>7. ASSUME NEW i \in 1..Len(tail)
        PROVE  /\ p[i].min = tail[i].min /\ p[i].max = tail[i].max /\ p[i].ids = tail[i].ids
               /\ p[i].left = tail[i].left \ (IF i = 1 THEN {who} ELSE {})
    BY <2>3, <2>4
  <2> QED
    BY <2>6, <2>7
<1>12. p \in Seq(Piece)
  BY <1>8, <1>11, SeqDef
<1>13. Len(p) = Len(tail)
  BY <1>8, <1>11, <1>12, LenProperties
<1>14. ASSUME NEW i \in 1..Len(p)
       PROVE  /\ i + k - 1 \in 1..Len(rest)
              /\ p[i].min = rest[i + k - 1].min /\ p[i].max = rest[i + k - 1].max
              /\ p[i].ids = rest[i + k - 1].ids
              /\ p[i].left = rest[i + k - 1].left \ (IF i = 1 THEN {who} ELSE {})
  <2>1. i \in 1..Len(tail) /\ i \in 1..(Len(rest) - k + 1)
    BY <1>7, <1>13
  <2>2. k + i - 1 = i + k - 1 /\ i + k - 1 \in 1..Len(rest)
    BY <1>5, <2>1
  <2>3. tail[i] = rest[i + k - 1]
    BY <1>7, <2>1, <2>2
  <2> QED
    BY <1>11, <2>1, <2>2, <2>3
<1> QED
  BY <1>5, <1>6, <1>7, <1>12, <1>13, <1>14 DEF k, p

LEMMA DeliverReads ==
  ASSUME Reads, Unpopped # {}, NEW who, who \in rest[Min(Unpopped)].left,
         rest' = Pop(Min(Unpopped), who),
         got' = got \cup {Row(rest[Min(Unpopped)], who)}, asked' = asked
  PROVE  /\ Reads'
         /\ \A r \in got : r.min <= Row(rest[Min(Unpopped)], who).min
<1> DEFINE k == Min(Unpopped)
           p == Pop(k, who)
<1>1. /\ k \in 1..Len(rest)
      /\ p \in Seq(Piece) /\ Len(p) = Len(rest) - k + 1
      /\ \A i \in 1..(k - 1) : rest[i].left = {}
      /\ \A i \in 1..Len(p) :
           /\ i + k - 1 \in 1..Len(rest)
           /\ p[i].min = rest[i + k - 1].min /\ p[i].max = rest[i + k - 1].max
           /\ p[i].ids = rest[i + k - 1].ids
           /\ p[i].left = rest[i + k - 1].left \ (IF i = 1 THEN {who} ELSE {})
  BY PopFacts
<1>2. rest' = p /\ got' = got \cup {Row(rest[k], who)} /\ who \in rest[k].left
  OBVIOUS
<1> HIDE DEF k, p
<1>3. rest \in Seq(Piece) /\ Len(rest) \in Nat /\ Len(p) \in Nat
  BY <1>1, LenProperties DEF Reads
<1>4. \A i \in 1..Len(rest) : rest[i].min \in Int
  BY <1>3, ElementOfSeq, PieceFields
<1>5. \A j, l \in 1..Len(rest) : j < l => rest[j].min <= rest[l].min
  BY DEF Reads
<1>6. ASSUME NEW i \in 1..Len(p), NEW w PROVE Row(p[i], w) = Row(rest[i + k - 1], w)
  BY <1>1 DEF Row
<1>7. ASSUME NEW r \in Unread' PROVE r \in Unread
  <2>1. PICK i \in 1..Len(p) : \E w \in p[i].left : r = Row(p[i], w)
    BY <1>2, <1>7, UnreadNext
  <2>2. PICK w \in p[i].left : r = Row(p[i], w)
    BY <2>1
  <2>3. i + k - 1 \in 1..Len(rest) /\ w \in rest[i + k - 1].left
    BY <1>1, <2>2
  <2>4. r = Row(rest[i + k - 1], w)
    BY <1>6, <2>2
  <2> QED
    BY <2>3, <2>4, UnreadMember
<1>8. ASSUME NEW r \in Unread PROVE r \in Unread' \/ r = Row(rest[k], who)
  <2>1. PICK j \in 1..Len(rest) : \E w \in rest[j].left : r = Row(rest[j], w)
    BY UnreadMember
  <2>2. PICK w \in rest[j].left : r = Row(rest[j], w)
    BY <2>1
  <2>3. ~ (j < k)
    BY <1>1, <2>2
  <2> DEFINE i == j - k + 1
  <2>4. i \in 1..Len(p) /\ i + k - 1 = j /\ (i = 1 <=> j = k)
    BY <1>1, <1>3, <2>3
  <2> HIDE DEF i
  <2>5. CASE j = k /\ w = who
    BY <2>2, <2>5
  <2>6. CASE ~ (j = k /\ w = who)
    <3>1. w \in p[i].left
      BY <1>1, <2>2, <2>4, <2>6
    <3>2. r = Row(p[i], w)
      BY <1>6, <2>2, <2>4
    <3> QED
      BY <1>2, <2>4, <3>1, <3>2, UnreadNext
  <2> QED
    BY <2>5, <2>6
<1>9. Row(rest[k], who) \in Unread
  BY <1>1, <1>2, UnreadMember
<1>10. got' \cup Unread' = got \cup Unread
  BY <1>2, <1>7, <1>8, <1>9
<1>11. RowsOf(QueryAnswer)' = RowsOf(QueryAnswer)
  BY DEF RowsOf, QueryAnswer, Row
<1>12. got' \cup Unread' = RowsOf(QueryAnswer)'
  BY <1>10, <1>11 DEF Reads
<1>13. \A r \in got : r.min <= rest[k].min
  BY <1>1, <1>2 DEF Reads
<1>14. Row(rest[k], who).min = rest[k].min
  BY RowFields
<1>15. \A i \in 1..Len(p) : rest[k].min <= p[i].min
  <2> SUFFICES ASSUME NEW i \in 1..Len(p) PROVE rest[k].min <= p[i].min
    OBVIOUS
  <2>1. p[i].min = rest[i + k - 1].min /\ i + k - 1 \in 1..Len(rest)
    BY <1>1
  <2>2. i + k - 1 = k \/ k < i + k - 1
    BY <1>1, <1>3
  <2> QED
    BY <1>1, <1>4, <1>5, <2>1, <2>2
<1>16. \A r \in got', i \in 1..Len(p) : r.min <= p[i].min
  <2> SUFFICES ASSUME NEW r \in got', NEW i \in 1..Len(p) PROVE r.min <= p[i].min
    OBVIOUS
  <2>1. r.min \in Int /\ r.min <= rest[k].min
    <3>1. CASE r \in got
      <4>1. r.min \in Int
        BY <3>1 DEF Reads
      <4>2. r.min <= rest[k].min
        BY <1>13, <3>1
      <4> QED
        BY <4>1, <4>2
    <3>2. CASE r = Row(rest[k], who)
      BY <1>1, <1>4, <1>14, <3>2
    <3> QED
      BY <1>2, <3>1, <3>2
  <2> QED
    BY <1>1, <1>4, <1>15, <2>1
<1>18. \A r \in got' : r.min \in Int
  BY <1>1, <1>2, <1>4, <1>14 DEF Reads
<1>17. \A j, l \in 1..Len(p) : j < l => p[j].min <= p[l].min
  <2> SUFFICES ASSUME NEW j \in 1..Len(p), NEW l \in 1..Len(p), j < l
               PROVE  p[j].min <= p[l].min
    OBVIOUS
  <2>1. j + k - 1 < l + k - 1
    BY <1>1, <1>3
  <2>2. p[j].min = rest[j + k - 1].min /\ j + k - 1 \in 1..Len(rest)
    BY <1>1
  <2>3. p[l].min = rest[l + k - 1].min /\ l + k - 1 \in 1..Len(rest)
    BY <1>1
  <2> QED
    BY <1>5, <2>1, <2>2, <2>3
<1> QED
  BY <1>1, <1>2, <1>12, <1>13, <1>14, <1>16, <1>17, <1>18 DEF Reads, k

-----------------------------------------------------------------------------

LEMMA CInitHolds == CInit => CInv
<1> SUFFICES ASSUME CInit PROVE CInv
  OBVIOUS
<1>1. TypeOK /\ IsFiniteSet(ti)
  BY FS_EmptySet DEF CInit, Init, TypeOK
<1>2. asked.store = {} /\ asked.from \in Int /\ asked.to \in Int
  BY SentinelAssumption DEF CInit
<1>3. CTypeOK
  BY <1>1, <1>2, FS_EmptySet DEF CInit, CTypeOK
<1> QED
  BY <1>3 DEF CInit, CInv

LEMMA MutateKeeps ==
  ASSUME CInv, Mutate
  PROVE  CInv'
<1>1. TypeOK /\ IsFiniteSet(ti) /\ Next
  BY DEF CInv, CTypeOK, Mutate
<1>2. TypeOK'
  BY <1>1, TypeStep
<1>3. IsFiniteSet(ti')
  BY <1>1, FiniteStep
<1>4. rest' = rest /\ status' = status /\ asked' = asked /\ got' = got
  BY DEF Mutate
<1>5. CTypeOK'
  BY <1>2, <1>3, <1>4 DEF CInv, CTypeOK
<1>6. Reads' = Reads
  BY <1>4 DEF Reads, Unread, RowsOf, QueryAnswer, Row
<1> QED
  BY <1>4, <1>5, <1>6 DEF CInv

LEMMA IterKeeps ==
  ASSUME CInv, NEW w \in Windows, Iter(w)
  PROVE  CInv'
<1>1. w[1] \in Int /\ w[2] \in Int
  BY WindowAssumption
<1>2. /\ status = "idle" /\ got = {} /\ got' = got /\ ti' = ti /\ call' = call
      /\ asked' = [store |-> ti, from |-> w[1], to |-> w[2]]
  BY DEF Iter, CInv
<1>3. asked'.store = ti /\ asked'.from = w[1] /\ asked'.to = w[2]
  BY <1>2
<1>4. TypeOK /\ IsFiniteSet(ti) /\ ti \subseteq Interval
  BY DEF CInv, CTypeOK, TypeOK
<1>5. TypeOK'
  BY <1>2, <1>4 DEF TypeOK
<1>6. status' \in {"open", "dead"}
  BY DEF Iter
<1>7. CTypeOK'
  BY <1>1, <1>2, <1>3, <1>4, <1>5, <1>6 DEF CTypeOK
<1>8. CASE QueryFaults(ti, w[1], w[2]) /\ status' = "dead"
  BY <1>2, <1>3, <1>7, <1>8 DEF CInv
<1>9. CASE /\ ~ QueryFaults(ti, w[1], w[2]) /\ status' = "open"
           /\ rest' = Query(ti, w[1], w[2])
  <2>1. ASSUME Ordered(ti) PROVE Reads'
    <3>1. Truthful(rest', ti, w[1], w[2])
      BY <1>1, <1>4, <1>9, <2>1, AnswerFacts
    <3>2. QueryAnswer' = rest'
      BY <1>3, <1>9 DEF QueryAnswer
    <3> QED
      BY <1>1, <1>2, <3>1, <3>2, IterReads
  <2> QED
    BY <1>2, <1>3, <1>7, <1>9, <2>1 DEF CInv
<1> QED
  BY <1>8, <1>9 DEF Iter

LEMMA DeliverKeeps ==
  ASSUME CInv, Deliver
  PROVE  /\ CInv'
         /\ Ordered(asked.store) => \A r \in got' \ got, q \in got : q.min <= r.min
<1>1. PICK who \in rest[Min(Unpopped)].left :
        /\ rest' = Pop(Min(Unpopped), who)
        /\ got' = got \cup {Row(rest[Min(Unpopped)], who)}
  BY DEF Deliver
<1>2. /\ ti' = ti /\ call' = call /\ status' = status /\ asked' = asked
      /\ status = "open" /\ Unpopped # {}
  BY DEF Deliver
<1>3. CTypeOK'
  BY <1>2 DEF CInv, CTypeOK, TypeOK
<1>4. ASSUME Ordered(asked.store)
      PROVE  Reads' /\ \A r \in got' \ got, q \in got : q.min <= r.min
  <2>1. Reads
    BY <1>2, <1>4 DEF CInv
  <2>2. Reads' /\ \A q \in got : q.min <= Row(rest[Min(Unpopped)], who).min
    BY <1>1, <1>2, <2>1, DeliverReads
  <2> QED
    BY <1>1, <2>2
<1> QED
  BY <1>2, <1>3, <1>4 DEF CInv

LEMMA ExhaustKeeps ==
  ASSUME CInv, Exhaust
  PROVE  CInv'
<1>1. /\ ti' = ti /\ call' = call /\ asked' = asked /\ got' = got
      /\ status = "open" /\ status' = "done" /\ rest' = <<>> /\ Unpopped = {}
  BY DEF Exhaust
<1>2. CTypeOK'
  BY <1>1 DEF CInv, CTypeOK, TypeOK
<1>3. ASSUME Ordered(asked.store) PROVE Reads'
  <2>1. Reads
    BY <1>1, <1>3 DEF CInv
  <2>2. DOMAIN rest = 1..Len(rest)
    BY <2>1, LenProperties DEF Reads
  <2>3. Unread = {}
    BY <1>1, <2>2 DEF Unpopped, Unread
  <2>4. <<>> \in Seq(Piece) /\ 1..Len(<<>>) = {}
    OBVIOUS
  <2>5. Unread' = {}
    BY <1>1, <2>4 DEF Unread
  <2>6. RowsOf(QueryAnswer)' = RowsOf(QueryAnswer)
    BY <1>1 DEF RowsOf, QueryAnswer, Row
  <2> QED
    BY <1>1, <2>1, <2>3, <2>4, <2>5, <2>6 DEF Reads
<1> QED
  BY <1>1, <1>2, <1>3 DEF CInv

LEMMA CStep == CInv /\ [CNext]_cvars => CInv'
<1> SUFFICES ASSUME CInv, [CNext]_cvars PROVE CInv'
  OBVIOUS
<1>1. CASE UNCHANGED cvars
  <2>1. Reads' = Reads
    BY <1>1 DEF Reads, Unread, RowsOf, QueryAnswer, Row, cvars
  <2> QED
    BY <1>1, <2>1 DEF CInv, CTypeOK, TypeOK, cvars
<1> QED
  BY <1>1, MutateKeeps, IterKeeps, DeliverKeeps, ExhaustKeeps DEF CNext

LEMMA CInvariant == CSpec => []CInv
BY CInitHolds, CStep, PTL DEF CSpec

-----------------------------------------------------------------------------
(* What the rows returned say.                                             *)

\* A row comes from a piece of the answer.
LEMMA GotFacts ==
  ASSUME CInv, Ordered(asked.store), got # {}
  PROVE  /\ Truthful(QueryAnswer, asked.store, asked.from, asked.to)
         /\ \A r \in got : \E k \in 1..Len(QueryAnswer) : \E w \in QueryAnswer[k].ids : r = Row(QueryAnswer[k], w)
<1>1. status \in {"open", "done"}
  BY DEF CInv, CTypeOK
<1>2. Reads /\ ~ QueryFaults(asked.store, asked.from, asked.to)
  BY <1>1 DEF CInv
<1>3. Truthful(QueryAnswer, asked.store, asked.from, asked.to)
  BY <1>2, AnswerFacts DEF CInv, CTypeOK, QueryAnswer
<1>4. \A r \in got : r \in RowsOf(QueryAnswer)
  BY <1>2 DEF Reads
<1> QED
  BY <1>3, <1>4, RowsOfMember

LEMMA RowTells ==
  ASSUME CInv, Ordered(asked.store), NEW r \in got
  PROVE  /\ r.min \in Int /\ r.max \in Int /\ r.who \in Ids
         /\ asked.from <= r.min /\ r.min < r.max /\ r.max <= asked.to
         /\ \E t \in asked.store : t.who = r.who /\ t.min <= r.min /\ r.max <= t.max
<1>1. Truthful(QueryAnswer, asked.store, asked.from, asked.to)
  BY GotFacts
<1>2. PICK k \in 1..Len(QueryAnswer) : \E w \in QueryAnswer[k].ids : r = Row(QueryAnswer[k], w)
  BY GotFacts
<1>3. PICK w \in QueryAnswer[k].ids : r = Row(QueryAnswer[k], w)
  BY <1>2
<1>4. QueryAnswer[k] \in Piece
  BY <1>1, ElementOfSeq DEF Truthful
<1>5. r.min = QueryAnswer[k].min /\ r.max = QueryAnswer[k].max /\ r.who = w
  BY <1>3, RowFields
<1>6. QueryAnswer[k].min \in Int /\ QueryAnswer[k].max \in Int /\ w \in Ids
  BY <1>3, <1>4, PieceFields
<1>7. /\ asked.from <= QueryAnswer[k].min /\ QueryAnswer[k].min < QueryAnswer[k].max
      /\ QueryAnswer[k].max <= asked.to
  BY <1>1 DEF Truthful
<1>8. \E t \in asked.store : t.who = w /\ t.min <= QueryAnswer[k].min /\ QueryAnswer[k].max <= t.max
  BY <1>1, <1>3 DEF Truthful
<1> QED
  BY <1>5, <1>6, <1>7, <1>8

\* An interval that covers the piece covers every instant of it.
LEMMA ThereThroughout ==
  ASSUME CInv, NEW t \in asked.store, NEW x \in Int, t.min <= x, x < t.max
  PROVE  t.who \in There(asked.store, x)
BY ClipFields, SentinelAssumption DEF There, Present, OwnedBy, Covers, CInv, CTypeOK, Interval

\* No ghosts: every row joint_next returns names an entity that was there,
\* during the whole of the row, in the store joint_iter saw, however the store
\* has changed since.
THEOREM CursorRowsAreTrue == CSpec => []RowsAreTrue
<1>1. CInv => RowsAreTrue
  <2> SUFFICES ASSUME CInv, Ordered(asked.store), NEW r \in got
               PROVE  /\ asked.from <= r.min /\ r.min < r.max /\ r.max <= asked.to
                      /\ \A t \in r.min..(r.max - 1) : r.who \in There(asked.store, t)
    BY DEF RowsAreTrue
  <2>1. /\ r.min \in Int /\ r.max \in Int
        /\ asked.from <= r.min /\ r.min < r.max /\ r.max <= asked.to
    BY RowTells
  <2>2. PICK t \in asked.store : t.who = r.who /\ t.min <= r.min /\ r.max <= t.max
    BY RowTells
  <2>3. t.min \in Int /\ t.max \in Int
    <3>1. t \in Interval
      BY DEF CInv, CTypeOK
    <3> QED
      BY <3>1, SentinelAssumption DEF Interval
  <2>4. ASSUME NEW x \in r.min..(r.max - 1) PROVE r.who \in There(asked.store, x)
    <3>1. x \in Int /\ t.min <= x /\ x < t.max
      BY <2>1, <2>2, <2>3
    <3> QED
      BY <2>2, <3>1, ThereThroughout
  <2> QED
    BY <2>1, <2>4
<1> QED
  BY <1>1, CInvariant, PTL

\* When joint_next says 0 the rows it has returned are those of the answer.
LEMMA DoneIsAll ==
  ASSUME CInv, status = "done", Ordered(asked.store)
  PROVE  /\ got = RowsOf(QueryAnswer)
         /\ Truthful(QueryAnswer, asked.store, asked.from, asked.to)
         /\ Apart(asked.store) => Telling(QueryAnswer, asked.store, asked.from, asked.to)
<1>1. Reads /\ rest = <<>> /\ ~ QueryFaults(asked.store, asked.from, asked.to)
  BY DEF CInv
<1>2. 1..Len(<<>>) = {}
  OBVIOUS
<1>3. Unread = {}
  BY <1>1, <1>2 DEF Unread
<1>4. got = RowsOf(QueryAnswer)
  BY <1>1, <1>3 DEF Reads
<1> QED
  BY <1>1, <1>4, AnswerFacts DEF CInv, CTypeOK, QueryAnswer

\* When joint_next says 0 the rows tell exactly who was there at every instant
\* of the window, provided the intervals of each entity lie apart.
THEOREM CursorIsExact == CSpec => []AnswerIsExact
<1>1. CInv => AnswerIsExact
  <2> SUFFICES ASSUME CInv, status = "done", Apart(asked.store), Ordered(asked.store),
                      NEW x \in asked.from..(asked.to - 1)
               PROVE  Reported(x) = There(asked.store, x)
    BY DEF AnswerIsExact
  <2>1. x \in Int /\ asked.from <= x /\ x < asked.to
    BY DEF CInv, CTypeOK
  <2>2. ASSUME NEW id \in Reported(x) PROVE id \in There(asked.store, x)
    <3>1. PICK r \in got : r.min <= x /\ x < r.max /\ id = r.who
      BY <2>2 DEF Reported
    <3>2. r.min \in Int /\ r.max \in Int
      BY RowTells
    <3>3. PICK t \in asked.store : t.who = r.who /\ t.min <= r.min /\ r.max <= t.max
      BY RowTells
    <3>4. t.min \in Int /\ t.max \in Int
      <4>1. t \in Interval
        BY DEF CInv, CTypeOK
      <4> QED
        BY <4>1, SentinelAssumption DEF Interval
    <3>5. t.min <= x /\ x < t.max
      BY <2>1, <3>1, <3>2, <3>3, <3>4
    <3> QED
      BY <2>1, <3>1, <3>3, <3>5, ThereThroughout
  <2>3. ASSUME NEW id \in There(asked.store, x) PROVE id \in Reported(x)
    <3>1. PICK t \in asked.store : t.who = id /\ Covers(t, x)
      BY <2>3 DEF There, Present, OwnedBy
    <3>2. PICK k \in 1..Len(QueryAnswer) :
            QueryAnswer[k].min <= x /\ x < QueryAnswer[k].max /\ id \in QueryAnswer[k].ids
      BY <2>1, <3>1, DoneIsAll DEF Telling
    <3>3. Row(QueryAnswer[k], id) \in got
      BY <3>2, DoneIsAll, RowsOfMember
    <3> QED
      BY <3>2, <3>3, RowFields DEF Reported
  <2> QED
    BY <2>2, <2>3
<1> QED
  BY <1>1, CInvariant, PTL

\* The count joint_next reports is the number of rows of that split it returns,
\* and the splits of one answer do not overlap.
THEOREM CursorCountsRight == CSpec => []CountIsHonest
<1>1. CInv => CountIsHonest
  <2> SUFFICES ASSUME CInv, status = "done", Ordered(asked.store), NEW r \in got
               PROVE  /\ Cardinality({q \in got : q.min = r.min}) = r.count
                      /\ \A q \in got \ {q \in got : q.min = r.min} :
                           q.max <= r.min \/ r.max <= q.min
    BY DEF CountIsHonest
  <2> DEFINE same == {q \in got : q.min = r.min}
             A == QueryAnswer
  <2>1. got = RowsOf(A) /\ Truthful(A, asked.store, asked.from, asked.to)
    BY DoneIsAll
  <2> HIDE DEF A
  <2>2. /\ A \in Seq(Piece) /\ Len(A) \in Nat
        /\ \A j \in 1..Len(A) : A[j].min \in Int /\ A[j].max \in Int /\ A[j].min < A[j].max
        /\ \A j, l \in 1..Len(A) : j < l => A[j].max <= A[l].min
    BY <2>1, LenProperties, ElementOfSeq, PieceFields DEF Truthful
  <2>3. \A j, l \in 1..Len(A) : A[j].min = A[l].min => j = l
    <3> SUFFICES ASSUME NEW j \in 1..Len(A), NEW l \in 1..Len(A), A[j].min = A[l].min, j # l
                 PROVE  FALSE
      OBVIOUS
    <3>1. j < l \/ l < j
      BY <2>2
    <3>2. A[j].max <= A[l].min \/ A[l].max <= A[j].min
      BY <2>2, <3>1
    <3> QED
      BY <2>2, <3>2
  <2>4. PICK k \in 1..Len(A) : \E w \in A[k].ids : r = Row(A[k], w)
    BY <2>1, RowsOfMember
  <2>5. r.min = A[k].min /\ r.max = A[k].max /\ r.count = Cardinality(A[k].ids)
    BY <2>4, RowFields
  <2>6. same = {Row(A[k], w) : w \in A[k].ids}
    <3>1. ASSUME NEW q \in same PROVE q \in {Row(A[k], w) : w \in A[k].ids}
      <4>1. PICK j \in 1..Len(A) : \E w \in A[j].ids : q = Row(A[j], w)
        BY <2>1, RowsOfMember
      <4>2. q.min = A[j].min
        BY <4>1, RowFields
      <4>3. j = k
        BY <2>3, <2>5, <4>2
      <4> QED
        BY <4>1, <4>3
    <3>2. ASSUME NEW w \in A[k].ids PROVE Row(A[k], w) \in same
      <4>1. Row(A[k], w) \in got
        BY <2>1, RowsOfMember
      <4>2. Row(A[k], w).min = r.min
        BY <2>5, RowFields
      <4> QED
        BY <4>1, <4>2
    <3> QED
      BY <3>1, <3>2
  <2>7. IsFiniteSet(A[k].ids)
    <3>1. IsFiniteSet({t.who : t \in asked.store})
      <4> DEFINE f == [t \in asked.store |-> t.who]
      <4>1. f \in Surjection(asked.store, {t.who : t \in asked.store})
        BY DEF Surjection
      <4> QED
        BY <4>1, FS_Surjection DEF CInv, CTypeOK
    <3>2. A[k].ids \subseteq {t.who : t \in asked.store}
      <4> SUFFICES ASSUME NEW w \in A[k].ids PROVE \E t \in asked.store : t.who = w
        OBVIOUS
      <4> QED
        BY <2>1 DEF Truthful
    <3> QED
      BY <3>1, <3>2, FS_Subset
  <2>8. Cardinality(same) = Cardinality(A[k].ids)
    <3> DEFINE f == [w \in A[k].ids |-> Row(A[k], w)]
    <3>1. f \in [A[k].ids -> same]
      BY <2>6
    <3>2. \A v, w \in A[k].ids : f[v] = f[w] => v = w
      BY RowFields
    <3>3. \A q \in same : \E w \in A[k].ids : f[w] = q
      BY <2>6
    <3>4. f \in Bijection(A[k].ids, same)
      BY <3>1, <3>2, <3>3 DEF Bijection, Injection, Surjection, IsInjective
    <3>5. ExistsBijection(A[k].ids, same)
      BY <3>4 DEF ExistsBijection
    <3> QED
      BY <2>7, <3>5, FS_Bijection
  <2>9. ASSUME NEW q \in got, q \notin same PROVE q.max <= r.min \/ r.max <= q.min
    <3>1. PICK j \in 1..Len(A) : \E w \in A[j].ids : q = Row(A[j], w)
      BY <2>1, RowsOfMember
    <3>2. q.min = A[j].min /\ q.max = A[j].max
      BY <3>1, RowFields
    <3>3. j # k
      BY <2>5, <2>9, <3>2
    <3>4. j < k \/ k < j
      BY <2>2, <3>3
    <3> QED
      BY <2>2, <2>5, <3>2, <3>4
  <2> QED
    BY <2>5, <2>8, <2>9
<1> QED
  BY <1>1, CInvariant, PTL

\* The sweep runs into the unallocated set only for a reversed window or a
\* store with an inverted interval.
THEOREM CursorDiesOnlyDisordered == CSpec => []DiesOnlyDisordered
<1>1. CInv => DiesOnlyDisordered
  <2> SUFFICES ASSUME CInv, status = "dead", Ordered(asked.store)
               PROVE  asked.from > asked.to
    BY DEF DiesOnlyDisordered
  <2>1. QueryFaults(asked.store, asked.from, asked.to)
    BY DEF CInv
  <2>2. ~ (asked.from <= asked.to)
    BY <2>1, SaneQueryRuns DEF CInv, CTypeOK
  <2> QED
    BY <2>2 DEF CInv, CTypeOK
<1> QED
  BY <1>1, CInvariant, PTL

\* Rows come in time order: joint_next never returns to an earlier split.
THEOREM CursorKeepsTimeOrder == CSpec => InTimeOrder
<1> DEFINE Step == Ordered(asked.store) => \A r \in got' \ got, q \in got : q.min <= r.min
<1>1. CInv /\ [CNext]_cvars => [Step]_cvars
  <2> SUFFICES ASSUME CInv, CNext PROVE Step
    OBVIOUS
  <2>1. CASE Deliver
    BY <2>1, DeliverKeeps
  <2>2. CASE got' = got
    BY <2>2
  <2> QED
    BY <2>1, <2>2 DEF CNext, Mutate, Iter, Exhaust
<1> QED
  BY <1>1, CInvariant, PTL DEF CSpec, InTimeOrder

-----------------------------------------------------------------------------
(* Axis.                                                                   *)

Opening(a, id) == [min |-> a, max |-> Inf, who |-> id]

\* Between two adapter calls what was stored is there; in the middle of an
\* atomic store the interval it opened is still open.
Told ==
  /\ ti \subseteq Given /\ IsFiniteSet(ti)
  /\ pending \in Times \cup {MInf}
  /\ reply \in [ref : Ids \cup {NoId}, from : Times \cup {MInf},
                to : Times \cup {MInf}, ret : {-1, 0}]
  /\ reply.ret = 0 /\ reply.from # MInf => Present(ti, reply.from, reply.ref)
  /\ ~ Idle => /\ reply.ref \in Ids
               /\ reply.from # MInf /\ reply.from < pending
               /\ reply.ret = 0
               /\ call.ret = 0 => Opening(reply.from, reply.ref) \in ti

\* What a consumer that stores entries back works from.
Booked ==
  /\ owner \in Ids \cup {NoId}
  /\ saved \in Seq(Given)
  /\ at \in 1..(Len(saved) + 1)
  /\ doing \in {"none", "restating", "restoring"}
  /\ doing # "none" => /\ owner \in Ids /\ owner # NoId
                       /\ \A t \in ToSet(saved) : t.who = owner

Restating ==
  doing = "restating" /\ NonEmpty(ToSet(saved)) => Idle /\ Owned = ToSet(saved)

\* What the consumer has stored back after the unstore is what it read: as far
\* as it got, with the last entry still open in the middle of its two calls.
Restorable ==
  /\ Regular /\ OpenLast
  /\ \A t \in ToSet(saved) : IsClosed(t) => t.min \in Midnights

Back(n) == {saved[k] : k \in 1..n}

HalfBack ==
  LET t == saved[at - 1]
  IN /\ at > 1 /\ IsClosed(t)
     /\ reply.ref = owner /\ pending = t.max
     /\ Owned = Back(at - 2) \cup {Opening(t.min, owner)}

Restoring ==
  doing = "restoring" /\ Restorable =>
    IF Idle THEN Owned = Back(at - 1) ELSE HalfBack

AInv == Told /\ Booked /\ Restating /\ Restoring

-----------------------------------------------------------------------------
(* The native calls.                                                       *)

LEMMA GivenIsTyped == Given \subseteq Interval /\ \A t \in Given : Storable(t)
BY DEF Given

LEMMA TimesAreInts ==
  /\ MInf \in Int /\ Inf \in Int /\ MInf < TsLo /\ TsHi < Inf /\ TsLo <= TsHi
  /\ TsLo \in Int /\ TsHi \in Int
  /\ \A x \in Times : x \in Int /\ x \in MInf..Inf
BY SentinelAssumption, RangeAssumption, TimeAssumption

LEMMA StartTells ==
  ASSUME ti \subseteq Given, IsFiniteSet(ti),
         NEW a \in Times, NEW id \in Ids, Start(a, id)
  PROVE  /\ ti' \subseteq Given /\ IsFiniteSet(ti') /\ ti \subseteq ti'
         /\ call'.ret \in {-1, 0, 1}
         /\ call'.ret # -1 => Finite(a) /\ a # MInf /\ Present(ti', a, id)
         /\ call'.ret = 0 => Opening(a, id) \in ti'
         /\ Present(ti, a, id) => ti' = ti
<1>1. CASE ~ Accepted(a, id) /\ ti' = ti /\ Reply("start", a, id, -1)
  BY <1>1 DEF Reply
<1>2. CASE Accepted(a, id) /\ Present(ti, a, id) /\ ti' = ti /\ Reply("start", a, id, 1)
  <2>1. Finite(a) /\ a # MInf
    BY <1>2, TimesAreInts DEF Accepted, Finite
  <2> QED
    BY <1>2, <2>1 DEF Reply
<1>3. CASE /\ Accepted(a, id) /\ ~ Present(ti, a, id)
           /\ ti' = Insert(ti, id, a, Inf) /\ Reply("start", a, id, 0)
  <2>1. Finite(a) /\ a # MInf /\ a < Inf /\ a \in Int
    BY <1>3, TimesAreInts DEF Accepted, Finite
  <2>2. ti' = ti \cup {Opening(a, id)} /\ call'.ret = 0
    BY <1>3 DEF Insert, Opening, Reply
  <2>3. Opening(a, id) \in Given
    BY <1>3, InsertKinds DEF Opening, Given
  <2>4. Present(ti', a, id)
    <3>1. /\ Opening(a, id) \in ti'
          /\ Opening(a, id).who = id /\ Opening(a, id).min = a /\ Opening(a, id).max = Inf
      BY <2>2 DEF Opening
    <3>2. a <= a /\ a < Inf
      BY <2>1, TimesAreInts
    <3> QED
      BY <3>1, <3>2 DEF Present, OwnedBy, Covers
  <2>5. IsFiniteSet(ti')
    BY <2>2, FS_AddElement
  <2> QED
    BY <1>3, <2>1, <2>2, <2>3, <2>4, <2>5
<1> QED
  BY <1>1, <1>2, <1>3 DEF Start

\* A stop at b takes nobody's presence before b away, and of what an interval
\* that was open covered it leaves everything before b covered.
LEMMA StopTells ==
  ASSUME ti \subseteq Given, IsFiniteSet(ti),
         NEW b \in Times, NEW id \in Ids, Stop(b, id)
  PROVE  /\ ti' \subseteq Given /\ IsFiniteSet(ti')
         /\ call'.ret \in {-1, 0, 1}
         /\ \A t \in ti : \/ t \in ti'
                          \/ t.max = Inf /\ Close(t, b) \in ti'
<1>1. call'.ret \in {-1, 0, 1}
  BY DEF Stop, Reply
<1>2. CASE ti' = ti
  BY <1>1, <1>2
<1>3. CASE Accepted(b, id) /\ ti' = Insert(ti, id, MInf, b)
  <2>1. [min |-> MInf, max |-> b, who |-> id] \in Given
    BY <1>3, InsertKinds DEF Given
  <2>2. ti' = ti \cup {[min |-> MInf, max |-> b, who |-> id]}
    BY <1>3 DEF Insert
  <2>3. IsFiniteSet(ti')
    BY <2>2, FS_AddElement
  <2> QED
    BY <1>1, <2>1, <2>2, <2>3
<1>4. ASSUME Accepted(b, id), NEW o \in OpenOf(ti, id),
             ti' = (ti \ {o}) \cup {Close(o, b)}
      PROVE  /\ ti' \subseteq Given /\ IsFiniteSet(ti')
             /\ \A t \in ti : t \in ti' \/ (t.max = Inf /\ Close(t, b) \in ti')
  <2>1. o \in ti /\ o \in Interval /\ o.who = id /\ o.max = Inf
        /\ o.min \in Times \cup {MInf} /\ Storable(o)
    BY <1>4 DEF OpenOf, OwnedBy, Given
  <2>2. Finite(o.min)
    BY <2>1, TimesAreInts DEF Storable, IsOpen, IsBackfill, IsClosed, Finite
  <2>3. Close(o, b) = [min |-> o.min, max |-> b, who |-> id]
    BY <2>1 DEF Interval, Close
  <2>4. Close(o, b) \in Interval /\ Storable(Close(o, b))
    <3>1. Finite(b) /\ b \in MInf..Inf /\ id # NoId
      BY <1>4, TimesAreInts DEF Accepted, Finite
    <3> QED
      BY <2>1, <2>2, <2>3, <3>1 DEF Interval, Storable, IsClosed
  <2>5. Close(o, b) \in Given
    BY <2>1, <2>3, <2>4 DEF Given
  <2>6. IsFiniteSet(ti')
    <3>1. IsFiniteSet(ti \ {o})
      BY FS_Subset
    <3> QED
      BY <1>4, <3>1, FS_AddElement
  <2> QED
    BY <1>4, <2>1, <2>5, <2>6
<1> QED
  BY <1>1, <1>2, <1>3, <1>4 DEF Stop, FinishLast

\* Whoever is there at x before b is there after a stop at b.
LEMMA StopKeepsPast ==
  ASSUME ti \subseteq Given, NEW b \in Times, NEW x \in Int, x < b, NEW id,
         \A t \in ti : t \in ti' \/ (t.max = Inf /\ Close(t, b) \in ti'),
         Present(ti, x, id)
  PROVE  Present(ti', x, id)
<1>1. PICK t \in ti : t.who = id /\ t.min <= x /\ x < t.max
  BY DEF Present, OwnedBy, Covers
<1>2. CASE t \in ti'
  BY <1>1, <1>2 DEF Present, OwnedBy, Covers
<1>3. CASE Close(t, b) \in ti'
  <2>1. t \in Interval
    BY GivenIsTyped
  <2>2. Close(t, b) = [min |-> t.min, max |-> b, who |-> id]
    BY <1>1, <2>1 DEF Close, Interval
  <2> QED
    BY <1>1, <1>3, <2>2 DEF Present, OwnedBy, Covers
<1> QED
  BY <1>2, <1>3

-----------------------------------------------------------------------------
(* One value stored.                                                       *)

\* What the adapter answers when it changes nothing.
LEMMA NothingKeeps ==
  ASSUME Told, Idle, NEW ref \in Ids \cup {NoId},
         NEW x \in Times \cup {MInf}, NEW y \in Times \cup {MInf}, NEW ret \in {-1, 0},
         Nothing(ref, x, y, ret), ret = 0 /\ x # MInf => Present(ti, x, ref)
  PROVE  Told' /\ Idle' /\ ti' = ti /\ call' = call
BY DEF Told, Nothing, Answer, Idle

LEMMA AbsorbedIs == Absorbed \in {-1, 0} /\ (Absorbed = 0 => call'.ret # -1)
BY DEF Absorbed

LEMMA StoreOpenKeeps ==
  ASSUME Told, Idle, NEW ref \in Ids, NEW a \in Times, StoreOpen(ref, a)
  PROVE  /\ Told' /\ Idle'
         /\ Restated(ref, a, Inf) => ti' = ti
         /\ Present(ti, a, ref) => ti' = ti
         /\ [Next]_vars
<1>0. MInf \in Times \cup {MInf} /\ ti \subseteq Given /\ IsFiniteSet(ti)
  BY DEF Told
<1>1. CASE Restated(ref, a, Inf) /\ Nothing(ref, a, MInf, 0)
  <2>1. PICK t \in ti : t.who = ref /\ t.min = a /\ t.max = Inf
    BY <1>1 DEF Restated, OwnedBy
  <2>2. Storable(t)
    BY <1>0 DEF Given
  <2>3. a # MInf => Present(ti, a, ref)
    BY <2>1, <2>2, TimesAreInts
       DEF Storable, IsOpen, IsBackfill, IsClosed, Finite, Present, OwnedBy, Covers
  <2> QED
    BY <1>0, <1>1, <2>3, NothingKeeps DEF vars
<1>2. CASE ~ Restated(ref, a, Inf) /\ Start(a, ref) /\ pending' = MInf
           /\ Answer(ref, a, MInf, Absorbed)
  <2>1. /\ ti' \subseteq Given /\ IsFiniteSet(ti')
        /\ call'.ret # -1 => Present(ti', a, ref)
        /\ Present(ti, a, ref) => ti' = ti
    BY <1>0, <1>2, StartTells
  <2>2. reply' = [ref |-> ref, from |-> a, to |-> MInf, ret |-> Absorbed]
    BY <1>2 DEF Answer
  <2>3. Told' /\ Idle'
    BY <1>2, <2>1, <2>2, AbsorbedIs DEF Told, Idle
  <2> QED
    BY <1>2, <2>1, <2>3 DEF Next
<1> QED
  BY <1>1, <1>2 DEF StoreOpen

LEMMA StoreStopKeeps ==
  ASSUME Told, Idle, NEW ref \in Ids, NEW b \in Times, StoreStop(ref, b)
  PROVE  /\ Told' /\ Idle'
         /\ Restated(ref, MInf, b) => ti' = ti
         /\ [Next]_vars
<1>0. MInf \in Times \cup {MInf} /\ ti \subseteq Given /\ IsFiniteSet(ti)
  BY DEF Told
<1>1. CASE Restated(ref, MInf, b) /\ Nothing(ref, MInf, b, 0)
  BY <1>0, <1>1, NothingKeeps DEF vars
<1>2. CASE ~ Restated(ref, MInf, b) /\ Stop(b, ref) /\ pending' = MInf
           /\ Answer(ref, MInf, b, Absorbed)
  <2>1. ti' \subseteq Given /\ IsFiniteSet(ti')
    BY <1>0, <1>2, StopTells
  <2>2. reply' = [ref |-> ref, from |-> MInf, to |-> b, ret |-> Absorbed]
    BY <1>2 DEF Answer
  <2>3. Told' /\ Idle'
    BY <1>2, <2>1, <2>2, AbsorbedIs DEF Told, Idle
  <2> QED
    BY <1>2, <2>3 DEF Next
<1> QED
  BY <1>1, <1>2 DEF StoreStop

LEMMA StoreBothKeeps ==
  ASSUME Told, Idle, NEW ref \in Ids, NEW a \in Times, NEW b \in Times, a < b,
         StoreBoth(ref, a, b)
  PROVE  /\ Told'
         /\ Restated(ref, a, b) => ti' = ti /\ Idle'
         /\ [Next]_vars
<1>0. MInf \in Times \cup {MInf} /\ ti \subseteq Given /\ IsFiniteSet(ti)
  BY DEF Told
<1>1. CASE Restated(ref, a, b) /\ Nothing(ref, a, b, 0)
  <2>1. PICK t \in ti : t.who = ref /\ t.min = a /\ t.max = b
    BY <1>1 DEF Restated, OwnedBy
  <2>2. Present(ti, a, ref)
    <3>1. a <= a
      BY TimesAreInts
    <3> QED
      BY <2>1, <3>1 DEF Present, OwnedBy, Covers
  <2> QED
    BY <1>0, <1>1, <2>2, NothingKeeps DEF vars
<1>2. CASE ~ Restated(ref, a, b) /\ Start(a, ref)
           /\ pending' = (IF call'.ret = -1 THEN MInf ELSE b)
           /\ Answer(ref, a, b, Absorbed)
  <2>1. /\ ti' \subseteq Given /\ IsFiniteSet(ti')
        /\ call'.ret # -1 => a # MInf /\ Present(ti', a, ref)
        /\ call'.ret = 0 => Opening(a, ref) \in ti'
    BY <1>0, <1>2, StartTells
  <2>2. reply' = [ref |-> ref, from |-> a, to |-> b, ret |-> Absorbed]
    BY <1>2 DEF Answer
  <2>3. CASE call'.ret = -1
    <3>1. pending' = MInf /\ reply'.ret = -1
      BY <1>2, <2>2, <2>3 DEF Absorbed
    <3> QED
      BY <1>2, <2>1, <2>2, <3>1, AbsorbedIs DEF Told, Idle, Next
  <2>4. CASE call'.ret # -1
    <3>1. pending' = b /\ reply'.ret = 0
      BY <1>2, <2>2, <2>4 DEF Absorbed
    <3> QED
      BY <1>2, <2>1, <2>2, <2>4, <3>1, AbsorbedIs DEF Told, Idle, Next
  <2> QED
    BY <2>3, <2>4
<1> QED
  BY <1>1, <1>2 DEF StoreBoth

\* Whatever a value's texts name is an instant callers may pass.
Names(v) ==
  /\ v.left \in Text => v.left.t \in Times
  /\ v.right \in Text => v.right.t \in Times

LEMMA StoreKeeps ==
  ASSUME Told, Idle, NEW ref \in Ids, NEW v, Names(v), Store(ref, v)
  PROVE  Told' /\ [Next]_vars
<1>1. CASE Nothing(ref, MInf, MInf, -1)
  BY <1>1, NothingKeeps DEF vars
<1>2. CASE NamesOpen(v) /\ StoreOpen(ref, v.left.t)
  BY <1>2, StoreOpenKeeps DEF NamesOpen, Names
<1>3. CASE NamesStop(v) /\ StoreStop(ref, v.right.t)
  BY <1>3, StoreStopKeeps DEF NamesStop, Names
<1>4. CASE NamesBoth(v) /\ StoreBoth(ref, v.left.t, v.right.t)
  BY <1>4, StoreBothKeeps DEF NamesBoth, Names
<1> QED
  BY <1>1, <1>2, <1>3, <1>4 DEF Store

LEMMA FinishBothKeeps ==
  ASSUME Told, FinishBoth
  PROVE  /\ Told' /\ Idle'
         /\ [Next]_vars
         /\ call.ret = 0 =>
              \A x \in reply.from..(pending - 1) : Present(ti', x, reply.ref)
<1>1. /\ ~ Idle /\ Stop(pending, reply.ref) /\ pending' = MInf
      /\ reply' = [ref |-> reply.ref, from |-> reply.from, to |-> reply.to, ret |-> Absorbed]
  BY DEF FinishBoth, Answer
<1>2. /\ pending \in Times /\ reply.ref \in Ids /\ reply.from \in Times
      /\ reply.from # MInf /\ reply.from < pending /\ reply.ret = 0
      /\ Present(ti, reply.from, reply.ref)
      /\ call.ret = 0 => Opening(reply.from, reply.ref) \in ti
      /\ ti \subseteq Given /\ IsFiniteSet(ti)
  BY <1>1 DEF Told, Idle
<1>3. /\ ti' \subseteq Given /\ IsFiniteSet(ti')
      /\ \A t \in ti : t \in ti' \/ (t.max = Inf /\ Close(t, pending) \in ti')
  BY <1>1, <1>2, StopTells
<1>4. Present(ti', reply.from, reply.ref)
  BY <1>2, <1>3, StopKeepsPast, TimesAreInts
<1>5. Told' /\ Idle'
  BY <1>1, <1>2, <1>3, <1>4, AbsorbedIs DEF Told, Idle
<1>6. ASSUME call.ret = 0, NEW x \in reply.from..(pending - 1)
      PROVE  Present(ti', x, reply.ref)
  <2>1. x \in Int /\ x < pending /\ reply.from <= x /\ x < Inf
    BY <1>2, TimesAreInts
  <2>2. /\ Opening(reply.from, reply.ref) \in ti
        /\ Opening(reply.from, reply.ref).who = reply.ref
        /\ Opening(reply.from, reply.ref).min = reply.from
        /\ Opening(reply.from, reply.ref).max = Inf
    BY <1>2, <1>6 DEF Opening
  <2>3. Present(ti, x, reply.ref)
    BY <2>1, <2>2 DEF Present, OwnedBy, Covers
  <2> QED
    BY <1>2, <1>3, <2>1, <2>3, StopKeepsPast
<1> QED
  BY <1>1, <1>2, <1>5, <1>6 DEF Next

LEMMA EraseTells ==
  ASSUME Told, Idle, NEW ref \in Ids, Unstore(ref)
  PROVE  Told' /\ [Next]_vars
<1>1. /\ Erase(ref) /\ pending' = pending
      /\ reply' = [ref |-> ref, from |-> MInf, to |-> MInf, ret |-> Absorbed]
  BY DEF Unstore, Answer
<1>2. ti' \subseteq ti
  BY <1>1 DEF Erase
<1>3. IsFiniteSet(ti')
  BY <1>2, FS_Subset DEF Told
<1> QED
  BY <1>1, <1>2, <1>3, AbsorbedIs DEF Told, Idle, Next

-----------------------------------------------------------------------------
(* Reading back and storing again.                                         *)

\* readback prints every interval of the entity, whatever the order.
LEMMA OrderIsAll ==
  ASSUME NEW S, IsFiniteSet(S), NEW s \in SetToSeqs(S)
  PROVE  s \in Seq(S) /\ ToSet(s) = S
<1> DEFINE n == Cardinality(S)
<1>1. n \in Nat
  BY FS_CardinalityType
<1>2. s \in [1..n -> S] /\ \A i, j \in 1..n : i # j => s[i] # s[j]
  BY DEF SetToSeqs
<1>3. s \in Injection(1..n, S)
  BY <1>2 DEF Injection, IsInjective
<1>4. Cardinality(1..n) = n
  BY <1>1, FS_Interval
<1>5. s \in Surjection(1..n, S)
  BY <1>3, <1>4, FS_Injection
<1> HIDE DEF n
<1>6. s \in Seq(S)
  BY <1>1, <1>2
<1>7. ToSet(s) = S
  <2>1. DOMAIN s = 1..n
    BY <1>2
  <2> QED
    BY <1>2, <1>5, <2>1 DEF ToSet, Surjection
<1> QED
  BY <1>6, <1>7

LEMMA ShowIsText == \A t \in Times : Show(t) \in Text /\ Show(t).t = t
BY TimesAreInts DEF Show, Text

\* The three forms an interval is printed in.
LEMMA EntryForms ==
  ASSUME NEW t \in Given
  PROVE  /\ IsBackfill(t) =>
              /\ t.min = MInf /\ t.max \in Times
              /\ Entry(t) = [left |-> NoText, payload |-> FALSE, right |-> Show(t.max)]
         /\ IsOpen(t) =>
              /\ t.min \in Times /\ t.max = Inf
              /\ Entry(t) = [left |-> Show(t.min), payload |-> FALSE, right |-> NoText]
         /\ IsClosed(t) =>
              /\ t.min \in Times /\ t.max \in Times
              /\ Entry(t) = [left |-> Show(t.min), payload |-> FALSE, right |-> Show(t.max)]
<1>1. t.min \in Times \cup {MInf} /\ t.max \in Times \cup {Inf}
  BY DEF Given
<1>2. IsOpen(t) => t.min # MInf /\ t.max = Inf
  BY TimesAreInts DEF IsOpen, Finite
<1>3. IsBackfill(t) => t.min = MInf /\ t.max # Inf
  BY TimesAreInts DEF IsBackfill, Finite
<1>4. IsClosed(t) => t.min # MInf /\ t.max # Inf
  BY TimesAreInts DEF IsClosed, Finite
<1> QED
  BY <1>1, <1>2, <1>3, <1>4 DEF Entry

LEMMA EntryNames == \A t \in Given : Names(Entry(t))
<1> SUFFICES ASSUME NEW t \in Given PROVE Names(Entry(t))
  OBVIOUS
<1> QED
  BY EntryForms, GivenIsTyped, ShowIsText, TextAssumption DEF Names, Storable

\* An entry of an interval that is there and not empty changes nothing: it is
\* found restated, or, misread as an open one, it finds the entity there.
LEMMA RestatedKeeps ==
  ASSUME Told, Idle, NEW ref \in Ids, NEW t \in OwnedBy(ti, ref), t.min < t.max,
         Store(ref, Entry(t))
  PROVE  ti' = ti /\ Idle'
<1> DEFINE v == Entry(t)
<1>1. t \in ti /\ t.who = ref /\ t \in Given
  BY DEF OwnedBy, Told
<1>2. Present(ti, t.min, ref)
  <2>1. t.min <= t.min
    BY <1>1, TimesAreInts DEF Given
  <2> QED
    BY <1>1, <2>1 DEF Present, OwnedBy, Covers
<1>3. NoText \notin Text
  BY TextAssumption
<1>4. CASE Nothing(ref, MInf, MInf, -1)
  BY <1>4 DEF Nothing, Idle
<1>5. ASSUME t.min \in Times, StoreOpen(ref, t.min)
      PROVE  ti' = ti /\ Idle'
  BY <1>2, <1>5, StoreOpenKeeps
<1>6. CASE t.min = MInf /\ t.max \in Times
           /\ v = [left |-> NoText, payload |-> FALSE, right |-> Show(t.max)]
  <2>1. ~ NamesOpen(v) /\ ~ NamesBoth(v)
    BY <1>3, <1>6 DEF NamesOpen, NamesBoth
  <2>2. CASE StoreStop(ref, v.right.t)
    <3>1. StoreStop(ref, t.max)
      BY <1>6, <2>2, ShowIsText
    <3>2. Restated(ref, MInf, t.max)
      BY <1>1, <1>6 DEF Restated, OwnedBy
    <3> QED
      BY <1>6, <3>1, <3>2, StoreStopKeeps
  <2> QED
    BY <1>4, <2>1, <2>2 DEF Store
<1>7. CASE t.min \in Times /\ t.max = Inf
           /\ v = [left |-> Show(t.min), payload |-> FALSE, right |-> NoText]
  <2>1. ~ HasComma(v)
    BY <1>7 DEF HasComma
  <2>2. v.left.t = t.min
    BY <1>7, ShowIsText
  <2> QED
    BY <1>4, <1>5, <1>7, <2>1, <2>2 DEF Store, NamesStop, NamesBoth
<1>8. CASE t.min \in Times /\ t.max \in Times
           /\ v = [left |-> Show(t.min), payload |-> FALSE, right |-> Show(t.max)]
  <2>1. v.left.t = t.min /\ v.right.t = t.max /\ v.left \in Text
    BY <1>8, ShowIsText
  <2>2. ~ NamesStop(v)
    BY <1>3, <2>1 DEF NamesStop
  <2>3. CASE StoreBoth(ref, t.min, t.max)
    <3>1. Restated(ref, t.min, t.max)
      BY <1>1 DEF Restated, OwnedBy
    <3> QED
      BY <1>8, <2>3, <3>1, StoreBothKeeps
  <2> QED
    BY <1>4, <1>5, <1>8, <2>1, <2>2, <2>3 DEF Store
<1>9. IsOpen(t) \/ IsBackfill(t) \/ IsClosed(t)
  BY <1>1, GivenIsTyped DEF Storable
<1> QED
  BY <1>1, <1>6, <1>7, <1>8, <1>9, EntryForms

LEMMA SameInterval ==
  ASSUME NEW t \in Interval, NEW u \in Interval,
         t.min = u.min, t.max = u.max, t.who = u.who
  PROVE  t = u
BY DEF Interval

\* Storing back a backfill that lies apart from what the entity has.
LEMMA AddBackfill ==
  ASSUME Told, Idle, NEW ref \in Ids, ref # NoId, NEW t \in Given, t.who = ref,
         IsBackfill(t), Apart(OwnedBy(ti, ref) \cup {t}), Store(ref, Entry(t))
  PROVE  Idle' /\ OwnedBy(ti', ref) = OwnedBy(ti, ref) \cup {t}
<1> DEFINE v == Entry(t)
<1>1. t.min = MInf /\ t.max \in Times /\ Finite(t.max) /\ t \in Interval
      /\ ti \subseteq Interval
  BY GivenIsTyped, TimesAreInts DEF IsBackfill, Finite, Given, Told
<1>2. v = [left |-> NoText, payload |-> FALSE, right |-> Show(t.max)]
  BY EntryForms
<1>3. Show(t.max) \in Text /\ Show(t.max).t = t.max /\ NoText \notin Text
  BY <1>1, ShowIsText, TextAssumption
<1>4. HasComma(v) /\ NamesStop(v) /\ ~ NamesOpen(v) /\ ~ NamesBoth(v)
  BY <1>2, <1>3 DEF HasComma, ColonFirst, NamesStop, NamesOpen, NamesBoth
<1>5. StoreStop(ref, t.max)
  BY <1>2, <1>3, <1>4 DEF Store
<1>6. CASE Restated(ref, MInf, t.max) /\ Nothing(ref, MInf, t.max, 0)
  <2>1. t \in OwnedBy(ti, ref)
    BY <1>1, <1>6, SameInterval DEF Restated, OwnedBy
  <2> QED
    BY <1>6, <2>1 DEF Nothing, Idle
<1>7. CASE ~ Restated(ref, MInf, t.max) /\ Stop(t.max, ref) /\ pending' = MInf
  <2>1. Accepted(t.max, ref)
    BY <1>1 DEF Accepted, Finite
  <2>2. ~ Present(ti, t.max, ref)
    <3> SUFFICES ASSUME NEW u \in OwnedBy(ti, ref), u.min <= t.max, t.max < u.max
                 PROVE  FALSE
      BY DEF Present, Covers
    <3>1. u # t => u.max < t.min \/ t.max < u.min
      BY DEF Apart, OwnedBy
    <3>2. u.min \in Int /\ u.max \in Int /\ MInf <= u.max /\ t.max \in Int
      BY <1>1, TimesAreInts DEF OwnedBy, Interval
    <3> QED
      BY <1>1, <3>1, <3>2, TimesAreInts
  <2>3. ti' = ti \cup {[min |-> MInf, max |-> t.max, who |-> ref]}
    BY <1>7, <2>1, <2>2 DEF Stop, Insert
  <2>4. [min |-> MInf, max |-> t.max, who |-> ref] = t
    BY <1>1 DEF Interval
  <2> QED
    BY <1>7, <2>3, <2>4 DEF OwnedBy, Idle
<1> QED
  BY <1>5, <1>6, <1>7 DEF StoreStop

\* The entity is not there where an interval of its that lies apart begins.
LEMMA NotYetThere ==
  ASSUME Told, NEW ref \in Ids, NEW t \in Given, t.who = ref, t.min \in Times, t.min < t.max,
         Apart(OwnedBy(ti, ref) \cup {t}), t \notin ti
  PROVE  ~ Present(ti, t.min, ref)
<1> SUFFICES ASSUME NEW u \in OwnedBy(ti, ref), u.min <= t.min, t.min < u.max
             PROVE  FALSE
  BY DEF Present, Covers
<1>1. u.max < t.min \/ t.max < u.min
  BY DEF Apart, OwnedBy
<1>2. u \in Interval /\ t \in Interval
  BY GivenIsTyped DEF OwnedBy, Told
<1>3. u.min \in Int /\ u.max \in Int /\ t.min \in Int /\ t.max \in Int
  BY <1>2, TimesAreInts DEF Interval
<1> QED
  BY <1>1, <1>3

\* The start that begins to store back such an interval.
LEMMA AddStart ==
  ASSUME Told, NEW ref \in Ids, ref # NoId, NEW t \in Given, t.who = ref,
         t.min \in Times, Finite(t.min), t.min < t.max, t \notin ti,
         Apart(OwnedBy(ti, ref) \cup {t}), Start(t.min, ref)
  PROVE  /\ OwnedBy(ti', ref) = OwnedBy(ti, ref) \cup {Opening(t.min, ref)}
         /\ call'.ret = 0
<1>1. Accepted(t.min, ref)
  BY DEF Accepted, Finite
<1>2. ~ Present(ti, t.min, ref)
  BY NotYetThere
<1>3. ti' = ti \cup {Opening(t.min, ref)} /\ call'.ret = 0
  BY <1>1, <1>2 DEF Start, Insert, Opening, Reply
<1> QED
  BY <1>3 DEF OwnedBy, Opening

LEMMA AddOpen ==
  ASSUME Told, Idle, NEW ref \in Ids, ref # NoId, NEW t \in Given, t.who = ref,
         IsOpen(t), Apart(OwnedBy(ti, ref) \cup {t}), Store(ref, Entry(t))
  PROVE  Idle' /\ OwnedBy(ti', ref) = OwnedBy(ti, ref) \cup {t}
<1> DEFINE v == Entry(t)
<1>1. t.min \in Times /\ Finite(t.min) /\ t.max = Inf /\ t \in Interval /\ t.min < t.max
      /\ ti \subseteq Interval
  BY GivenIsTyped, TimesAreInts DEF IsOpen, Finite, Given, Told
<1>2. v = [left |-> Show(t.min), payload |-> FALSE, right |-> NoText]
  BY EntryForms
<1>3. Show(t.min) \in Text /\ Show(t.min).t = t.min
  BY <1>1, ShowIsText
<1>4. ~ HasComma(v) /\ NamesOpen(v) /\ ~ NamesStop(v) /\ ~ NamesBoth(v)
  BY <1>2, <1>3 DEF HasComma, NamesStop, NamesOpen, NamesBoth, Whole
<1>5. StoreOpen(ref, t.min)
  BY <1>2, <1>3, <1>4 DEF Store
<1>6. CASE Restated(ref, t.min, Inf) /\ Nothing(ref, t.min, MInf, 0)
  <2>1. t \in OwnedBy(ti, ref)
    BY <1>1, <1>6, SameInterval DEF Restated, OwnedBy
  <2> QED
    BY <1>6, <2>1 DEF Nothing, Idle
<1>7. CASE ~ Restated(ref, t.min, Inf) /\ Start(t.min, ref) /\ pending' = MInf
  <2>1. t \notin ti
    BY <1>1, <1>7 DEF Restated, OwnedBy
  <2>2. OwnedBy(ti', ref) = OwnedBy(ti, ref) \cup {Opening(t.min, ref)}
    BY <1>1, <1>7, <2>1, AddStart
  <2>3. Opening(t.min, ref) = t
    BY <1>1 DEF Opening, Interval
  <2> QED
    BY <1>7, <2>2, <2>3 DEF Idle
<1> QED
  BY <1>5, <1>6, <1>7 DEF StoreOpen

LEMMA AddClosed ==
  ASSUME Told, Idle, NEW ref \in Ids, ref # NoId, NEW t \in Given, t.who = ref,
         IsClosed(t), t.min < t.max, t.min \in Midnights,
         Apart(OwnedBy(ti, ref) \cup {t}), Store(ref, Entry(t))
  PROVE  \/ Idle' /\ OwnedBy(ti', ref) = OwnedBy(ti, ref) \cup {t}
         \/ /\ ~ Idle' /\ reply'.ref = ref /\ pending' = t.max
            /\ OwnedBy(ti', ref) = OwnedBy(ti, ref) \cup {Opening(t.min, ref)}
<1> DEFINE v == Entry(t)
<1>1. t.min \in Times /\ Finite(t.min) /\ t.max \in Times /\ Finite(t.max) /\ t \in Interval
      /\ ti \subseteq Interval
  BY GivenIsTyped, TimesAreInts DEF IsClosed, Finite, Given, Told
<1>2. v = [left |-> Show(t.min), payload |-> FALSE, right |-> Show(t.max)]
  BY EntryForms
<1>3. /\ Show(t.min) \in Text /\ Show(t.min).t = t.min /\ Show(t.min).style = "date"
      /\ Show(t.max) \in Text /\ Show(t.max).t = t.max /\ NoText \notin Text
  BY <1>1, ShowIsText, TextAssumption DEF Show
<1>4. HasComma(v) /\ NamesBoth(v) /\ ~ NamesStop(v) /\ ~ NamesOpen(v)
  BY <1>2, <1>3 DEF HasComma, ColonFirst, NamesStop, NamesOpen, NamesBoth
<1>5. StoreBoth(ref, t.min, t.max)
  BY <1>2, <1>3, <1>4 DEF Store
<1>6. CASE Restated(ref, t.min, t.max) /\ Nothing(ref, t.min, t.max, 0)
  <2>1. t \in OwnedBy(ti, ref)
    BY <1>1, <1>6, SameInterval DEF Restated, OwnedBy
  <2> QED
    BY <1>6, <2>1 DEF Nothing, Idle
<1>7. CASE ~ Restated(ref, t.min, t.max) /\ Start(t.min, ref)
           /\ pending' = (IF call'.ret = -1 THEN MInf ELSE t.max)
           /\ Answer(ref, t.min, t.max, Absorbed)
  <2>1. t \notin ti
    BY <1>1, <1>7 DEF Restated, OwnedBy
  <2>2. OwnedBy(ti', ref) = OwnedBy(ti, ref) \cup {Opening(t.min, ref)} /\ call'.ret = 0
    BY <1>1, <1>7, <2>1, AddStart
  <2>3. pending' = t.max /\ ~ Idle' /\ reply'.ref = ref
    BY <1>1, <1>7, <2>2, TimesAreInts DEF Idle, Finite, Answer
  <2> QED
    BY <2>2, <2>3
<1> QED
  BY <1>5, <1>6, <1>7 DEF StoreBoth

\* The stop that ends it: the interval just opened is the only open one.
LEMMA AddStop ==
  ASSUME Told, NEW ref \in Ids, ref # NoId, NEW t \in Given, t.who = ref,
         IsClosed(t), t.min < t.max, NEW S, \A u \in S : u.max # Inf,
         OwnedBy(ti, ref) = S \cup {Opening(t.min, ref)}, Stop(t.max, ref)
  PROVE  OwnedBy(ti', ref) = S \cup {t}
<1> DEFINE o == Opening(t.min, ref)
<1>1. t \in Interval /\ t.min \in Int /\ t.max \in Int /\ Finite(t.max) /\ t.max < Inf
  BY GivenIsTyped, TimesAreInts DEF IsClosed, Finite, Interval
<1>2. o.min = t.min /\ o.max = Inf /\ o.who = ref /\ o \in ti
  BY DEF Opening, OwnedBy
<1>3. OpenOf(ti, ref) = {o}
  BY <1>2 DEF OpenOf
<1>4. Accepted(t.max, ref)
  BY <1>1 DEF Accepted, Finite
<1>5. Present(ti, t.max, ref)
  BY <1>1, <1>2 DEF Present, OwnedBy, Covers
<1>6. Close(o, t.max) = t
  BY <1>1 DEF Close, Opening, Interval
<1>7. ti' = (ti \ {o}) \cup {t}
  BY <1>3, <1>4, <1>5, <1>6 DEF Stop, FinishLast
<1>8. o \notin S
  BY <1>2
<1> QED
  BY <1>2, <1>7, <1>8 DEF OwnedBy

-----------------------------------------------------------------------------
(* The invariant.                                                          *)

LEMMA AInvInit == AInit => AInv
<1> SUFFICES ASSUME AInit PROVE AInv
  OBVIOUS
<1>1. Told
  BY FS_EmptySet DEF AInit, Init, Told, Idle
<1>2. Booked
  BY DEF AInit, Booked
<1>3. Restating /\ Restoring
  BY DEF AInit, Restating, Restoring
<1> QED
  BY <1>1, <1>2, <1>3 DEF AInv

LEMMA ForgoneBooks == Forgo => Booked' /\ Restating' /\ Restoring'
BY DEF Forgo, Booked, Restating, Restoring

LEMMA StoreValueKeeps ==
  ASSUME AInv, NEW ref \in Ids, NEW v \in Values(Texts), StoreValue(ref, v)
  PROVE  AInv' /\ [Next]_vars
<1>1. Names(v)
  BY TextAssumption DEF Values, Names
<1>2. Told /\ Idle /\ Store(ref, v) /\ Forgo
  BY DEF AInv, StoreValue, Free
<1> QED
  BY <1>1, <1>2, StoreKeeps, ForgoneBooks DEF AInv

LEMMA StoreTokensKeeps ==
  ASSUME AInv, NEW ref \in Ids, NEW ts \in {MInf} \cup {x \in Times : Finite(x)},
         StoreTokens(ref, ts)
  PROVE  AInv' /\ [Next]_vars
<1>1. Told /\ Idle /\ Forgo
  BY DEF AInv, StoreTokens, Free
<1>2. ASSUME NEW ret \in {-1, 0}, Nothing(ref, MInf, MInf, ret)
      PROVE  Told' /\ [Next]_vars
  BY <1>1, <1>2, NothingKeeps DEF vars
<1>3. ASSUME ts # MInf, StoreOpen(ref, ts)
      PROVE  Told' /\ [Next]_vars
  BY <1>1, <1>3, StoreOpenKeeps
<1> QED
  BY <1>1, <1>2, <1>3, ForgoneBooks DEF StoreTokens, AInv

LEMMA ReadbackKeeps ==
  ASSUME AInv, NEW ref \in Ids, Readback(ref)
  PROVE  AInv' /\ [Next]_vars
<1>1. /\ Told /\ Idle
      /\ OwnedBy(ti, ref) # {}
      /\ owner' = ref /\ saved' \in SetToSeqs(OwnedBy(ti, ref)) /\ at' = 1
      /\ doing' = "restating"
      /\ UNCHANGED <<ti, call, pending, reply>>
  BY DEF AInv, Readback, Free
<1>2. /\ IsFiniteSet(OwnedBy(ti, ref)) /\ OwnedBy(ti, ref) \subseteq Given
      /\ \A t \in OwnedBy(ti, ref) : t.who = ref
  BY <1>1, FS_Subset DEF OwnedBy, Told
<1>3. saved' \in Seq(OwnedBy(ti, ref)) /\ ToSet(saved') = OwnedBy(ti, ref)
  BY <1>1, <1>2, OrderIsAll
<1>4. saved' \in Seq(Given) /\ Len(saved') \in Nat
  BY <1>2, <1>3
<1>5. Told' /\ Idle'
  BY <1>1 DEF Told, Idle
<1>6. ref # NoId
  BY <1>1, <1>2, GivenIsTyped DEF Storable
<1>7. Booked'
  BY <1>1, <1>2, <1>3, <1>4, <1>6 DEF Booked
<1>8. Restating' /\ Restoring'
  BY <1>1, <1>3, <1>5 DEF Restating, Restoring, Owned, OwnedBy
<1> QED
  BY <1>1, <1>5, <1>7, <1>8 DEF AInv, vars

LEMMA UnstoreKeeps ==
  ASSUME AInv, NEW ref \in Ids, Unstore(ref)
  PROVE  AInv' /\ [Next]_vars
<1>1. Told /\ Booked /\ Idle
  BY DEF AInv, Unstore, Free
<1>2. Told' /\ [Next]_vars
  BY <1>1, EraseTells
<1>3. CASE Forgo
  BY <1>2, <1>3, ForgoneBooks DEF AInv
<1>4. CASE /\ doing = "restating" /\ doing' = "restoring" /\ at = 1 /\ ref = owner
           /\ UNCHANGED <<owner, saved, at>>
  <2>1. Booked' /\ Restating'
    BY <1>1, <1>4 DEF Booked, Restating
  <2>2. ref # NoId /\ Erase(ref) /\ pending' = pending
    BY <1>1, <1>4 DEF Booked, Unstore
  <2>3. Owned' = {} /\ Idle'
    BY <1>1, <1>4, <2>2 DEF Erase, Owned, OwnedBy, Idle
  <2>4. Back(at - 1)' = {}
    BY <1>4 DEF Back
  <2>5. Restoring'
    BY <2>3, <2>4 DEF Restoring
  <2> QED
    BY <1>2, <2>1, <2>5 DEF AInv
<1> QED
  BY <1>2, <1>3, <1>4 DEF Unstore

\* What a restoring consumer knows of the entries.
LEMMA EntryFacts ==
  ASSUME Booked, doing # "none", Restorable, NEW k \in 1..Len(saved)
  PROVE  /\ saved[k] \in Given /\ saved[k] \in ToSet(saved)
         /\ saved[k].who = owner /\ saved[k].min < saved[k].max
         /\ IsClosed(saved[k]) => saved[k].min \in Midnights
         /\ \A n \in Nat : n < k => /\ \A u \in Back(n) : u.max # Inf
                                   /\ Back(n) \subseteq ToSet(saved)
         /\ Back(k - 1) \cup {saved[k]} = Back(k)
         /\ Apart(Back(k - 1) \cup {saved[k]})
<1>1. saved \in Seq(Given) /\ Len(saved) \in Nat /\ DOMAIN saved = 1..Len(saved)
  BY DEF Booked
<1>2. saved[k] \in Given /\ saved[k] \in ToSet(saved)
  BY <1>1 DEF ToSet
<1>3. /\ saved[k].who = owner /\ saved[k].min < saved[k].max
      /\ IsClosed(saved[k]) => saved[k].min \in Midnights
  BY <1>2 DEF Booked, Restorable, Regular, NonEmpty
<1>4. ASSUME NEW n \in Nat, n < k
      PROVE  (\A u \in Back(n) : u.max # Inf) /\ Back(n) \subseteq ToSet(saved)
  <2>1. \A j \in 1..n : j \in 1..(Len(saved) - 1) /\ j \in DOMAIN saved
    BY <1>1, <1>4
  <2> QED
    BY <2>1 DEF Back, ToSet, Restorable, OpenLast
<1>5. Back(k - 1) \cup {saved[k]} = Back(k)
  <2>1. 1..k = 1..(k - 1) \cup {k}
    BY <1>1
  <2> QED
    BY <2>1 DEF Back
<1>6. Apart(Back(k - 1) \cup {saved[k]})
  <2>1. k - 1 \in Nat /\ k - 1 < k
    BY <1>1
  <2>2. Back(k - 1) \cup {saved[k]} \subseteq ToSet(saved)
    BY <1>2, <1>4, <2>1
  <2> QED
    BY <2>2 DEF Restorable, Regular, Apart
<1> QED
  BY <1>2, <1>3, <1>4, <1>5, <1>6

LEMMA FinishBothKeepsAll ==
  ASSUME AInv, FinishBoth
  PROVE  AInv' /\ [Next]_vars
<1>1. Told /\ Booked /\ ~ Idle /\ UNCHANGED trip /\ Stop(pending, reply.ref)
  BY DEF AInv, FinishBoth
<1>2. Told' /\ Idle' /\ [Next]_vars
  BY <1>1, FinishBothKeeps
<1>3. Booked'
  BY <1>1 DEF Booked, trip
<1>4. Restating'
  BY <1>1 DEF AInv, Restating, trip
<1>5. Restoring'
  <2> SUFFICES ASSUME doing = "restoring", Restorable PROVE Owned' = Back(at - 1)
    BY <1>1, <1>2 DEF Restoring, Restorable, Regular, OpenLast, Back, trip
  <2> DEFINE k == at - 1
             t == saved[k]
  <2>1. /\ at > 1 /\ IsClosed(t) /\ reply.ref = owner /\ pending = t.max
        /\ Owned = Back(at - 2) \cup {Opening(t.min, owner)}
    BY <1>1 DEF AInv, Restoring, HalfBack
  <2>2. k \in 1..Len(saved) /\ k - 1 = at - 2 /\ k - 1 \in Nat /\ k - 1 < k
    BY <1>1, <2>1 DEF Booked
  <2>3. owner \in Ids /\ owner # NoId
    BY <1>1 DEF Booked
  <2> HIDE DEF k
  <2>4. /\ t \in Given /\ t.who = owner /\ t.min < t.max
        /\ \A u \in Back(k - 1) : u.max # Inf
        /\ Back(k - 1) \cup {t} = Back(k)
    BY <1>1, <2>2, EntryFacts
  <2>5. OwnedBy(ti, owner) = Back(k - 1) \cup {Opening(t.min, owner)}
    BY <2>1, <2>2 DEF Owned
  <2>6. Stop(t.max, owner)
    BY <1>1, <2>1
  <2> HIDE DEF t
  <2>7. OwnedBy(ti', owner) = Back(k - 1) \cup {t}
    BY <1>1, <2>1, <2>3, <2>4, <2>5, <2>6, AddStop
  <2> QED
    BY <1>1, <2>4, <2>7 DEF Owned, trip, k
<1> QED
  BY <1>2, <1>3, <1>4, <1>5 DEF AInv

\* One more entry is back, or half of it.
LEMMA RestoringKeeps ==
  ASSUME AInv, StoreBack, doing = "restoring", Restorable
  PROVE  IF Idle' THEN Owned' = Back(at) ELSE HalfBack'
<1>1. /\ Told /\ Booked /\ Idle /\ at <= Len(saved)
      /\ Store(owner, Entry(saved[at])) /\ at' = at + 1
      /\ UNCHANGED <<owner, saved, doing>>
  BY DEF AInv, StoreBack
<1>2. owner \in Ids /\ owner # NoId /\ at \in 1..Len(saved) /\ at \in Nat
  BY <1>1 DEF Booked
<1> DEFINE t == saved[at]
<1>3. /\ t \in Given /\ t.who = owner /\ t.min < t.max
      /\ IsClosed(t) => t.min \in Midnights
      /\ Back(at - 1) \cup {t} = Back(at)
      /\ Apart(Back(at - 1) \cup {t})
  BY <1>1, <1>2, EntryFacts
<1>4. OwnedBy(ti, owner) = Back(at - 1)
  BY <1>1 DEF AInv, Restoring, Owned
<1>5. Storable(t) /\ Store(owner, Entry(t))
  BY <1>1, <1>3, GivenIsTyped
<1>6. ASSUME Idle', OwnedBy(ti', owner) = OwnedBy(ti, owner) \cup {t}
      PROVE  Idle' /\ Owned' = Back(at)
  BY <1>1, <1>3, <1>4, <1>6 DEF Owned
<1> HIDE DEF t
<1>7. CASE IsOpen(t)
  <2>1. Idle' /\ OwnedBy(ti', owner) = OwnedBy(ti, owner) \cup {t}
    BY <1>1, <1>2, <1>3, <1>4, <1>5, <1>7, AddOpen
  <2> QED
    BY <1>6, <2>1
<1>8. CASE IsBackfill(t)
  <2>1. Idle' /\ OwnedBy(ti', owner) = OwnedBy(ti, owner) \cup {t}
    BY <1>1, <1>2, <1>3, <1>4, <1>5, <1>8, AddBackfill
  <2> QED
    BY <1>6, <2>1
<1>9. CASE IsClosed(t)
  <2>1. \/ Idle' /\ OwnedBy(ti', owner) = OwnedBy(ti, owner) \cup {t}
        \/ /\ ~ Idle' /\ reply'.ref = owner /\ pending' = t.max
           /\ OwnedBy(ti', owner) = OwnedBy(ti, owner) \cup {Opening(t.min, owner)}
    BY <1>1, <1>2, <1>3, <1>4, <1>5, <1>9, AddClosed
  <2>2. ASSUME ~ Idle', reply'.ref = owner, pending' = t.max,
               OwnedBy(ti', owner) = OwnedBy(ti, owner) \cup {Opening(t.min, owner)}
        PROVE  HalfBack'
    <3>1. at' > 1 /\ at' - 1 = at /\ at' - 2 = at - 1
      BY <1>1, <1>2
    <3>2. saved'[at' - 1] = t
      BY <1>1, <3>1 DEF t
    <3>3. Owned' = Back(at - 1) \cup {Opening(t.min, owner)}
      BY <1>1, <1>4, <2>2 DEF Owned
    <3>4. Back(at - 2)' = Back(at - 1)
      BY <1>1, <3>1 DEF Back
    <3> QED
      BY <1>1, <1>9, <2>2, <3>1, <3>2, <3>3, <3>4
         DEF HalfBack, IsClosed, Finite, Opening
  <2> QED
    BY <1>6, <2>1, <2>2
<1> QED
  BY <1>5, <1>7, <1>8, <1>9 DEF Storable

LEMMA StoreBackKeeps ==
  ASSUME AInv, StoreBack
  PROVE  AInv' /\ [Next]_vars
<1>1. /\ Told /\ Booked /\ Idle /\ doing # "none" /\ at <= Len(saved)
      /\ Store(owner, Entry(saved[at])) /\ at' = at + 1
      /\ UNCHANGED <<owner, saved, doing>>
  BY DEF AInv, StoreBack
<1>2. owner \in Ids /\ at \in 1..Len(saved) /\ saved[at] \in Given
  BY <1>1 DEF Booked
<1>3. Told' /\ [Next]_vars
  BY <1>1, <1>2, EntryNames, StoreKeeps
<1>4. Booked'
  BY <1>1, <1>2 DEF Booked
<1>5. Restating'
  <2> SUFFICES ASSUME doing = "restating", NonEmpty(ToSet(saved))
               PROVE  Idle' /\ Owned' = ToSet(saved)
    BY <1>1 DEF Restating
  <2>1. Owned = ToSet(saved)
    BY DEF AInv, Restating
  <2>2. saved[at] \in ToSet(saved)
    BY <1>1, <1>2 DEF ToSet, Booked
  <2>3. saved[at] \in OwnedBy(ti, owner) /\ saved[at].min < saved[at].max
    BY <2>1, <2>2 DEF Owned, NonEmpty
  <2>4. ti' = ti /\ Idle'
    BY <1>1, <1>2, <2>3, RestatedKeeps
  <2> QED
    BY <1>1, <2>1, <2>4 DEF Owned
<1>6. Restoring'
  <2> SUFFICES ASSUME doing = "restoring", Restorable
               PROVE  IF Idle' THEN Owned' = Back(at - 1)' ELSE HalfBack'
    BY <1>1 DEF Restoring, Restorable, Regular, OpenLast, IsClosed, Finite
  <2>1. Back(at - 1)' = Back(at)
    BY <1>1, <1>2 DEF Back
  <2> QED
    BY <2>1, RestoringKeeps
<1> QED
  BY <1>3, <1>4, <1>5, <1>6 DEF AInv

LEMMA AStep == AInv /\ [ANext]_avars => AInv' /\ [Next]_vars
<1> SUFFICES ASSUME AInv, [ANext]_avars PROVE AInv' /\ [Next]_vars
  OBVIOUS
<1>1. CASE UNCHANGED avars
  BY <1>1 DEF avars, vars, AInv, Told, Booked, Restating, Restoring, Restorable,
                 Regular, OpenLast, HalfBack, Back, Idle, Owned, IsClosed, Finite
<1> QED
  BY <1>1, StoreValueKeeps, StoreTokensKeeps, ReadbackKeeps, UnstoreKeeps,
     FinishBothKeepsAll, StoreBackKeeps DEF ANext

LEMMA AInvariant == ASpec => []AInv
BY AInvInit, AStep, PTL DEF ASpec

-----------------------------------------------------------------------------

\* The adapter is a caller of the interval store like any other, so that every
\* theorem of TimelineProofs holds under it.
THEOREM AdapterCallsTheStore == ASpec => Spec
<1>1. AInit => Init
  BY DEF AInit
<1> QED
  BY <1>1, AInvariant, AStep, PTL DEF ASpec, Spec

\* Type correctness of the adapter, the store it writes and the consumer.
THEOREM ATypeCorrect == ASpec => []ATypeOK
<1>1. AInv => ATypeOK
  BY DEF AInv, Told, Booked, ATypeOK
<1> QED
  BY <1>1, AInvariant, PTL

\* What a store says it stored is there: the guard against restated values and
\* the absorbed replies hide no loss.
THEOREM StoredIsThereAlways == ASpec => []StoredIsThere
<1>1. AInv => StoredIsThere
  BY DEF AInv, Told, StoredIsThere
<1> QED
  BY <1>1, AInvariant, PTL

\* Indexing an entity again from its own readback changes nothing, in whatever
\* order the entries come and however its intervals overlap.
THEOREM ReindexingIsNoop == ASpec => []ReindexIsNoop
<1>1. AInv => ReindexIsNoop
  BY DEF AInv, Restating, ReindexIsNoop
<1> QED
  BY <1>1, AInvariant, PTL

\* An entity whose intervals lie apart and print as dates where they are closed
\* is restored exactly from its readback if the open one is printed last.
THEOREM RestoringIsExact == ASpec => []RestoreIsExact
<1>1. AInv => RestoreIsExact
  <2> SUFFICES ASSUME AInv, doing = "restoring", Idle, at > Len(saved), Restorable
               PROVE  Owned = ToSet(saved)
    BY DEF RestoreIsExact, Restored, Restorable
  <2>1. Owned = Back(at - 1)
    BY DEF AInv, Restoring
  <2>2. at - 1 = Len(saved) /\ DOMAIN saved = 1..Len(saved)
    BY DEF AInv, Booked
  <2> QED
    BY <2>1, <2>2 DEF Back, ToSet
<1> QED
  BY <1>1, AInvariant, PTL

\* The two calls of "A,B" leave no gap in [A, B) when the first one opened it.
THEOREM AtomicFormCovers == ASpec => AtomicCovers
<1>1. AInv /\ [ANext]_avars =>
        [~ Idle /\ call.ret = 0 =>
           \A t \in reply.from..(pending - 1) : Present(ti', t, reply.ref)]_avars
  <2> SUFFICES ASSUME AInv, ANext, ~ Idle, call.ret = 0
               PROVE  \A t \in reply.from..(pending - 1) : Present(ti', t, reply.ref)
    OBVIOUS
  <2>1. FinishBoth
    BY DEF ANext, StoreValue, StoreTokens, Readback, Unstore, StoreBack, Free
  <2> QED
    BY <2>1, FinishBothKeeps DEF AInv
<1> QED
  BY <1>1, AInvariant, PTL DEF ASpec, AtomicCovers
=============================================================================
