---------------------------- MODULE ClientsProofs ---------------------------
(***************************************************************************)
(* Theorems about the two programs that open stores by handle and ask them *)
(* queries.                                                                *)
(*                                                                         *)
(* Recall keeps the header's rules, so that what is proved of Handles      *)
(* holds of it; pairs are safe, and a point query finds who is there.      *)
(*                                                                         *)
(* Npm: no timeline reaches into another one, the finalizer forgets no     *)
(* store but that of handle 0, and hits are exact.  Its assumption that    *)
(* Rows is all of Interval is cited in this part only.                     *)
(***************************************************************************)
EXTENDS Recall, Npm, HandlesProofs, SplitsProofs

-----------------------------------------------------------------------------
(* Recall.                                                                 *)


LEMMA RecallStep == [RNext]_rvars => [HNext]_hvars
<1> SUFFICES ASSUME RNext PROVE [HNext]_hvars
  BY DEF rvars, hvars
<1>1. CASE Manage
  BY <1>1 DEF Manage, HNext
<1>2. CASE Leave \/ Perish
  BY <1>2 DEF Leave, Perish, HNext
<1>3. CASE Option
  BY <1>3 DEF Option
<1>4. ASSUME NEW o \in Openers, NEW leaf \in Leaves, Ask(o, leaf)
      PROVE  [HNext]_hvars
  BY <1>4 DEF Ask, HNext, hvars
<1> QED
  BY <1>1, <1>2, <1>3, <1>4 DEF RNext

\* The recall kernel's process is one of those Handles describes, so that every
\* theorem of HandlesProofs holds of it.
THEOREM RecallKeepsHandles == RSpec => HSpec
BY RecallStep, PTL DEF RSpec, RInit, HSpec

\* However options are set and queries asked, and through every crash, the
\* openers' stores and the disk are as Durable promises.
THEOREM RecallIsDurable == RSpec => DurableSpec
BY RecallKeepsHandles, HandlesImplementDurable

-----------------------------------------------------------------------------
(* Windows.                                                                *)

\* What a pair that is accepted comes to.
LEMMA AcceptedPair ==
  ASSUME NEW q \in QueryText, Accepts(q)
  PROVE  /\ Pair(q)[1] = q.from
         /\ Pair(q)[1] \in Int /\ Pair(q)[2] \in Int
         /\ Pair(q)[1] <= Pair(q)[2]
         /\ q.to = Point => Pair(q)[2] = DayEnd[q.from] /\ q.from < DayEnd[q.from]
<1>1. q.from \in Instants /\ q.to \in Instants \cup {Point}
  BY DEF Accepts, Readable, QueryText, TimeText
<1>2. CASE q.to = Point
  <2>1. Pair(q)[1] = q.from /\ Pair(q)[2] = DayEnd[q.from]
    BY <1>2 DEF Pair
  <2>2. DayEnd[q.from] \in Int /\ q.from < DayEnd[q.from]
    BY <1>1, <2>1, DayAssumption DEF Accepts
  <2> QED
    BY <1>1, <2>1, <2>2, InstantAssumption DEF Accepts
<1>3. CASE q.to # Point
  <2>1. Pair(q)[1] = q.from /\ Pair(q)[2] = q.to
    BY <1>3 DEF Pair
  <2> QED
    BY <1>1, <1>3, <2>1, InstantAssumption DEF Accepts
<1> QED
  BY <1>2, <1>3

\* The --query that is kept is a pair with its ends in order.
PairKept ==
  query # Unset => query[1] \in Int /\ query[2] \in Int /\ query[1] <= query[2]

LEMMA PairIsKept == PairKept /\ [RNext]_rvars => PairKept'
<1> SUFFICES ASSUME PairKept, [RNext]_rvars PROVE PairKept'
  OBVIOUS
<1>1. CASE query' = query
  BY <1>1 DEF PairKept
<1>2. CASE Restart
  BY <1>2 DEF Restart, PairKept
<1>3. ASSUME NEW q \in QueryOptions, ConfigQuery(q)
      PROVE  PairKept'
  <2>1. CASE Accepts(q)
    <3>1. q \in QueryText /\ query' = Pair(q)
      BY <1>3, <2>1, LeafAssumption DEF ConfigQuery, QueryAfter
    <3> QED
      BY <2>1, <3>1, AcceptedPair DEF PairKept
  <2>2. CASE ~ Accepts(q)
    BY <1>1, <1>3, <2>2 DEF ConfigQuery, QueryAfter
  <2> QED
    BY <2>1, <2>2
<1>4. CASE Manage \/ UNCHANGED rvars
  BY <1>1, <1>4 DEF Manage, options, rvars
<1>5. CASE Leave \/ Perish
  BY <1>2, <1>5 DEF Leave, Perish
<1>6. CASE Option
  <2>1. ASSUME NEW x \in TimeOptions, ConfigSince(x) \/ ConfigUntil(x)
        PROVE  query' = query
    BY <2>1 DEF ConfigSince, ConfigUntil
  <2> QED
    BY <1>1, <1>3, <1>6, <2>1 DEF Option
<1>7. ASSUME NEW o \in Openers, NEW leaf \in Leaves, Ask(o, leaf)
      PROVE  PairKept'
  BY <1>1, <1>2, <1>7 DEF Ask, options
<1> QED
  BY <1>4, <1>5, <1>6, <1>7 DEF RNext

LEMMA RecallInvariant == RSpec => [](HInv /\ PairKept)
<1>1. RInit => PairKept
  BY DEF RInit, DInit, PairKept
<1>2. RSpec => []HInv
  BY RecallKeepsHandles, HInvariant, PTL
<1> QED
  BY <1>1, <1>2, PairIsKept, PTL DEF RSpec

LEMMA LastIndex ==
  ASSUME NEW n \in Nat, NEW T \in SUBSET (1..n), T # {}
  PROVE  Max(T) \in T
<1> DEFINE U == {n - x : x \in T}
<1>1. U \in SUBSET Nat /\ U # {}
  <2>1. \A x \in T : x \in Nat /\ n - x \in Nat
    OBVIOUS
  <2> QED
    BY <2>1
<1>2. PICK u \in U : \A v \in U : u <= v
  BY <1>1, Least
<1>3. PICK x \in T : u = n - x
  OBVIOUS
<1>4. \A y \in T : x >= y
  <2> SUFFICES ASSUME NEW y \in T PROVE x >= y
    OBVIOUS
  <2>1. n - y \in U
    OBVIOUS
  <2> QED
    BY <1>2, <1>3, <2>1
<1> QED
  BY <1>3, <1>4 DEF Max

\* In a leaf of pairs the last pair that is accepted gives both ends.
LEMMA PairsGive ==
  ASSUME NEW leaf \in Leaves, OnlyPairs(leaf)
  PROVE  \/ /\ \A k \in DOMAIN leaf : ~ Accepts(leaf[k].val)
            /\ LeafEnd(leaf, 1) = Unset /\ LeafEnd(leaf, 2) = Unset
         \/ \E k \in DOMAIN leaf :
              /\ Accepts(leaf[k].val)
              /\ leaf[k].val \in QueryText
              /\ LeafEnd(leaf, 1) = Pair(leaf[k].val)[1]
              /\ LeafEnd(leaf, 2) = Pair(leaf[k].val)[2]
<1> DEFINE T == {k \in DOMAIN leaf : Accepts(leaf[k].val)}
           G(e) == {k \in DOMAIN leaf : Says(leaf[k], e) # Unset}
<1>1. /\ DOMAIN leaf = 1..Len(leaf) /\ Len(leaf) \in Nat
      /\ \A k \in DOMAIN leaf : leaf[k].key = "query" /\ leaf[k].val \in QueryText
  BY LeafAssumption DEF OnlyPairs
<1>2. ASSUME NEW k \in DOMAIN leaf, NEW e \in {1, 2}
      PROVE  Says(leaf[k], e) = IF Accepts(leaf[k].val) THEN Pair(leaf[k].val)[e] ELSE Unset
  <2>1. leaf[k].key # <<"a", "b">>[e] /\ leaf[k].key = "query"
    BY <1>1, <1>2
  <2> QED
    BY <2>1 DEF Says
<1>3. ASSUME NEW k \in T, NEW e \in {1, 2} PROVE Pair(leaf[k].val)[e] # Unset
  BY <1>1, <1>3, AcceptedPair, InstantAssumption
<1>4. G(1) = T /\ G(2) = T
  BY <1>2, <1>3
<1>5. CASE T = {}
  <2>1. LeafEnd(leaf, 1) = Unset /\ LeafEnd(leaf, 2) = Unset
    BY <1>4, <1>5 DEF LeafEnd
  <2> QED
    BY <1>5, <2>1
<1>6. CASE T # {}
  <2>1. Max(T) \in T
    BY <1>1, <1>6, LastIndex
  <2>2. /\ LeafEnd(leaf, 1) = Says(leaf[Max(T)], 1)
        /\ LeafEnd(leaf, 2) = Says(leaf[Max(T)], 2)
    BY <1>4, <1>6 DEF LeafEnd
  <2>3. /\ Says(leaf[Max(T)], 1) = Pair(leaf[Max(T)].val)[1]
        /\ Says(leaf[Max(T)], 2) = Pair(leaf[Max(T)].val)[2]
    BY <1>2, <2>1
  <2> QED
    BY <1>1, <2>1, <2>2, <2>3
<1> QED
  BY <1>5, <1>6

\* A leaf that gives both ends is asked about with them.
LEMMA LeafWins ==
  ASSUME NEW leaf, LeafEnd(leaf, 1) # Unset, LeafEnd(leaf, 2) # Unset
  PROVE  Resolve(leaf) = [a |-> LeafEnd(leaf, 1), b |-> LeafEnd(leaf, 2)]
BY DEF Resolve, End1

\* Where only pairs have a say a query has a window that is not reversed.
LEMMA PairsAreOrdered ==
  ASSUME PairKept, NEW leaf \in Leaves, OnlyPairs(leaf),
         \/ since = Unset /\ until = Unset
         \/ \E k \in DOMAIN leaf : Accepts(leaf[k].val),
         NEW w, w = Resolve(leaf), w # Null
  PROVE  w.a \in Int /\ w.b \in Int /\ w.a <= w.b
<1>1. ASSUME NEW k \in DOMAIN leaf, Accepts(leaf[k].val), leaf[k].val \in QueryText,
             LeafEnd(leaf, 1) = Pair(leaf[k].val)[1],
             LeafEnd(leaf, 2) = Pair(leaf[k].val)[2]
      PROVE  w.a \in Int /\ w.b \in Int /\ w.a <= w.b
  <2>1. /\ LeafEnd(leaf, 1) \in Int /\ LeafEnd(leaf, 2) \in Int
        /\ LeafEnd(leaf, 1) <= LeafEnd(leaf, 2)
    BY <1>1, AcceptedPair
  <2>2. w = [a |-> LeafEnd(leaf, 1), b |-> LeafEnd(leaf, 2)]
    BY <2>1, LeafWins, InstantAssumption
  <2> QED
    BY <2>1, <2>2
<1>2. ASSUME \A k \in DOMAIN leaf : ~ Accepts(leaf[k].val),
             LeafEnd(leaf, 1) = Unset, LeafEnd(leaf, 2) = Unset
      PROVE  w.a \in Int /\ w.b \in Int /\ w.a <= w.b
  <2>1. since = Unset /\ until = Unset
    BY <1>2
  <2>2. query # Unset
    BY <1>2, <2>1 DEF Resolve, NoOption
  <2>3. query[1] \in Int /\ query[2] \in Int /\ query[1] <= query[2]
    BY <2>2 DEF PairKept
  <2>4. w = [a |-> End1(Unset, Unset, query[1]), b |-> End1(Unset, Unset, query[2])]
    BY <1>2, <2>1, <2>2 DEF Resolve, NoOption, QueryEnd
  <2>5. End1(Unset, Unset, query[1]) = query[1] /\ End1(Unset, Unset, query[2]) = query[2]
    BY <2>3, InstantAssumption DEF End1
  <2> QED
    BY <2>3, <2>4, <2>5
<1> QED
  BY <1>1, <1>2, PairsGive

\* What a handle of the kernel leads to.
LEMMA BoundStore ==
  ASSUME HInv, NEW o \in Openers, Bound(o)
  PROVE  /\ jd[o] \in DOMAIN store
         /\ store[jd[o]].ti \subseteq Interval
<1>1. HTypeOK /\ NotShared
  BY HInvTells
<1>2. o \in Holders
  BY <1>1 DEF Bound, HTypeOK
<1>3. jd[o] \in DOMAIN store
  BY <1>1, <1>2 DEF NotShared, Held
<1>4. store[jd[o]] \in Store
  BY <1>1, <1>3 DEF HTypeOK
<1>5. store[jd[o]].ti \subseteq Interval
  BY <1>4, RowAssumption DEF Store
<1> QED
  BY <1>3, <1>5

\* For every leaf and every sequence of options, openings and closes before it: a
\* query that pairs alone decide never makes the sweep follow its NULL set.
THEOREM PairsNeverFault == RSpec => []PairsAreSafe
<1>1. HInv /\ PairKept => PairsAreSafe
  <2> SUFFICES ASSUME HInv, PairKept, NEW o \in Openers, NEW leaf \in Leaves,
                      Bound(o), OnlyPairs(leaf),
                      \/ since = Unset /\ until = Unset
                      \/ \E k \in DOMAIN leaf : Accepts(leaf[k].val),
                      Ordered(store[jd[o]].ti)
               PROVE  ~ Faults(o, leaf)
    BY DEF PairsAreSafe
  <2> DEFINE w == Resolve(leaf)
             S == store[jd[o]].ti
  <2> SUFFICES ASSUME w # Null PROVE ~ QueryFaults(S, w.a, w.b)
    BY DEF Faults
  <2>1. w.a \in Int /\ w.b \in Int /\ w.a <= w.b
    BY PairsAreOrdered
  <2>2. S \subseteq Interval
    BY BoundStore
  <2> HIDE DEF w, S
  <2> QED
    BY <2>1, <2>2, SaneQueryRuns DEF S
<1> QED
  BY <1>1, RecallInvariant, PTL

\* For every instant and every calendar: a point query finds everyone whose
\* interval covers the point, through the widening to the day's end, the sweep
\* and the refills.
THEOREM PointQueryFinds == RSpec => []PointFindsWhoIsThere
<1>1. HInv => PointFindsWhoIsThere
  <2> SUFFICES ASSUME HInv, NEW o \in Openers, NEW leaf \in Leaves,
                      Bound(o), Len(leaf) = 1, OnlyPairs(leaf),
                      leaf[1].val.to = Point, Accepts(leaf[1].val),
                      Ordered(store[jd[o]].ti), Apart(store[jd[o]].ti),
                      NEW id \in Ids, Present(store[jd[o]].ti, leaf[1].val.from, id)
               PROVE  id \in Found(o, leaf)
    BY DEF PointFindsWhoIsThere
  <2> DEFINE S == store[jd[o]].ti
             q == leaf[1].val
  <2>1. DOMAIN leaf = {1}
    BY LeafAssumption
  <2>2. q \in QueryText
    BY <2>1, LeafAssumption DEF OnlyPairs
  <2>3. /\ Pair(q)[1] = q.from /\ q.from \in Int
        /\ Pair(q)[2] = DayEnd[q.from] /\ DayEnd[q.from] \in Int
        /\ q.from < DayEnd[q.from]
    BY <2>2, AcceptedPair
  <2>4. LeafEnd(leaf, 1) = q.from /\ LeafEnd(leaf, 2) = DayEnd[q.from]
    BY <2>1, <2>3, PairsGive
  <2>5. Resolve(leaf) = [a |-> q.from, b |-> DayEnd[q.from]]
    BY <2>3, <2>4, LeafWins, InstantAssumption
  <2>6. S \subseteq Interval
    BY BoundStore
  <2>7. PICK t \in S : t.who = id /\ Covers(t, q.from)
    BY DEF Present, OwnedBy
  <2>8. Telling(Query(S, q.from, DayEnd[q.from]), S, q.from, DayEnd[q.from])
    BY <2>3, <2>6, QueryTells
  <2>9. Truthful(Query(S, q.from, DayEnd[q.from]), S, q.from, DayEnd[q.from])
    BY <2>3, <2>6, QueryIsTruthful
  <2> DEFINE r == Query(S, q.from, DayEnd[q.from])
  <2>10. r \in Seq(Piece)
    BY <2>9 DEF Truthful
  <2>11. PICK k \in 1..Len(r) : id \in r[k].ids
    BY <2>3, <2>7, <2>8 DEF Telling
  <2>12. r[k] \in ToSet(r)
    BY <2>10, <2>11 DEF ToSet
  <2>13. Found(o, leaf) = UNION {s.ids : s \in ToSet(r)}
    BY <2>5 DEF Found
  <2> HIDE DEF r
  <2> QED
    BY <2>11, <2>12, <2>13
<1> QED
  BY <1>1, RecallInvariant, PTL

-----------------------------------------------------------------------------
(* Npm.                                                                    *)


(* A record keeps a store a set of intervals.                              *)

LEMMA AfterStartIsTyped ==
  ASSUME NEW S \in SUBSET Interval, NEW ts \in MInf..Inf, NEW id \in Ids
  PROVE  AfterStart(S, ts, id) \in SUBSET Interval
<1>1. Inf \in MInf..Inf
  BY SentinelAssumption
<1> QED
  BY <1>1 DEF AfterStart, Insert, Interval

LEMMA AfterStopIsTyped ==
  ASSUME NEW S \in SUBSET Interval, NEW ts \in MInf..Inf, NEW id \in Ids
  PROVE  AfterStop(S, ts, id) \subseteq SUBSET Interval
<1>1. MInf \in MInf..Inf
  BY SentinelAssumption
<1>2. Insert(S, id, MInf, ts) \in SUBSET Interval
  BY <1>1 DEF Insert, Interval
<1>3. FinishLast(S, id, ts) \subseteq SUBSET Interval
  <2>1. \A o \in OpenOf(S, id) : o \in Interval /\ Close(o, ts) \in Interval
    BY DEF OpenOf, OwnedBy, Close, Interval
  <2> QED
    BY <2>1 DEF FinishLast
<1> QED
  BY <1>2, <1>3 DEF AfterStop

LEMMA RecordedIsTyped == \A r \in Records : Recorded(r) \in Interval
<1> SUFFICES ASSUME NEW r \in Records PROVE Recorded(r) \in Interval
  OBVIOUS
<1>1. r.ref \in Ids /\ r.start \in MInf..(Inf - 1) /\ r.end \in MInf..Inf
  BY RecordAssumption
<1>2. r.start \in MInf..Inf /\ r.start + 1 \in MInf..Inf
  BY <1>1, SentinelAssumption
<1> QED
  BY <1>1, <1>2 DEF Recorded, Interval

-----------------------------------------------------------------------------
(* What each call does to the handles.                                     *)

\* The step of one timeline, seen by the handles.
Touch(o) ==
  \/ \E f \in Files \cup {NoFile} : JointInit(o, f)
  \/ \E rows \in SUBSET Rows : Rewrite(o, rows)
  \/ JointClose(o)
  \/ UNCHANGED hvars

LEMMA RecordTouches ==
  ASSUME HInv, NEW o \in Openers, NEW t \in Interval, RecordNative(o, t)
  PROVE  \E rows \in SUBSET Rows : Rewrite(o, rows)
<1>1. PICK rows \in AfterStop(AfterStart(store[jd[o]].ti, t.min, t.who), t.max, t.who) :
        Rewrite(o, rows)
  BY DEF RecordNative
<1>2. store[jd[o]].ti \in SUBSET Interval
  <2>1. jd[o] # NoJd
    BY <1>1 DEF Rewrite
  <2>2. jd[o] \in DOMAIN store
    BY <2>1, HInvTells DEF NotShared, Held, Holders
  <2> QED
    BY <2>2, HInvTells, RecordAssumption DEF HTypeOK, Store
<1>3. t.min \in MInf..Inf /\ t.max \in MInf..Inf /\ t.who \in Ids
  BY DEF Interval
<1>4. AfterStart(store[jd[o]].ti, t.min, t.who) \in SUBSET Interval
  BY <1>2, <1>3, AfterStartIsTyped
<1>5. rows \in SUBSET Interval
  BY <1>1, <1>3, <1>4, AfterStopIsTyped
<1> QED
  BY <1>1, <1>5, RecordAssumption

LEMMA NpmTouches ==
  ASSUME HInv, NNext
  PROVE  by' \in Openers /\ Touch(by')
<1>1. PICK o \in Openers :
        /\ by' = o
        /\ \/ \E f \in Files \cup {NoFile} : New(o, f)
           \/ \E r \in Records : RecordInterval(o, r)
           \/ Clear(o)
           \/ CloseTimeline(o)
           \/ Collect(o)
  BY DEF NNext
<1>2. ASSUME NEW f \in Files \cup {NoFile}, New(o, f) PROVE Touch(o)
  BY <1>2 DEF New, Touch
<1>3. ASSUME NEW r \in Records, RecordInterval(o, r) PROVE Touch(o)
  <2>1. CASE RecordNative(o, Recorded(r))
    BY <2>1, RecordTouches, RecordedIsTyped DEF Touch
  <2>2. CASE RecordFlat(r)
    BY <2>2 DEF RecordFlat, Touch
  <2> QED
    BY <1>3, <2>1, <2>2 DEF RecordInterval
<1>4. ASSUME Clear(o) \/ CloseTimeline(o) \/ Collect(o) PROVE Touch(o)
  BY <1>4 DEF Clear, CloseTimeline, Collect, Finalize, Touch
<1> QED
  BY <1>1, <1>2, <1>3, <1>4

LEMMA NpmStep == HInv /\ [NNext]_nvars => HInv'
<1>1. ASSUME HInv, NNext PROVE HInv'
  <2>1. by' \in Openers /\ Touch(by')
    BY <1>1, NpmTouches
  <2>2. Call(by') \/ UNCHANGED hvars
    BY <2>1 DEF Touch, Call
  <2> QED
    BY <1>1, <2>1, <2>2, CallKeeps, HInvStep
<1>2. ASSUME HInv, UNCHANGED nvars PROVE HInv'
  BY <1>2, HInvStep DEF nvars, hvars
<1> QED
  BY <1>1, <1>2

LEMMA NpmHInv == NSpec => []HInv
<1>1. NInit => HInv
  BY HInvInit DEF NInit
<1> QED
  BY <1>1, NpmStep, PTL DEF NSpec

-----------------------------------------------------------------------------
(* Whose handle is whose.                                                  *)

\* What one timeline's object, wrapper and handle have to do with each other.
Wrapped(what, w, h) ==
  /\ what \in {"none", "native", "shared", "lost"}
  /\ w \in [jd : Nat \cup {NoJd}, is_open : BOOLEAN]
  /\ w.is_open <=> what = "native"
  /\ what = "native" => h = w.jd /\ h # NoJd
  /\ what \in {"none", "shared"} => h = NoJd
  /\ what = "lost" => h = 0

NInv ==
  /\ HInv
  /\ ~ burned
  /\ DOMAIN obj = Openers /\ DOMAIN wrap = Openers
  /\ \A o \in Openers : Wrapped(obj[o], wrap[o], jd[o])

LEMMA InitGives ==
  ASSUME HInv, NEW o \in Openers, NEW f, JointInit(o, f)
  PROVE  /\ jd'[o] \in Nat
         /\ \A p \in Openers \ {o} : jd'[p] = jd[p]
<1>1. PICK h \in NewId(idm) : jd' = [jd EXCEPT ![o] = h]
  BY DEF JointInit
<1>2. h \in Nat
  <2>1. idm.next \in Nat /\ idm.free \subseteq Nat
    BY HInvTells DEF HTypeOK
  <2> QED
    BY <2>1 DEF NewId
<1>3. jd \in [Openers -> Nat \cup {NoJd}]
  BY HInvTells DEF HTypeOK
<1> QED
  BY <1>1, <1>2, <1>3

LEMMA CloseTakes ==
  ASSUME HInv, NEW o \in Openers, JointClose(o)
  PROVE  /\ jd'[o] = NoJd
         /\ \A p \in Openers \ {o} : jd'[p] = jd[p]
<1>1. jd \in [Openers -> Nat \cup {NoJd}]
  BY HInvTells DEF HTypeOK
<1> QED
  BY <1>1 DEF JointClose

\* A call concerns one timeline: its object, its wrapper and its handle.
LEMMA NInvOne ==
  ASSUME NInv, HInv', ~ burned', NEW o \in Openers,
         DOMAIN obj' = Openers, DOMAIN wrap' = Openers,
         \A p \in Openers \ {o} : obj'[p] = obj[p] /\ wrap'[p] = wrap[p] /\ jd'[p] = jd[p],
         Wrapped(obj'[o], wrap'[o], jd'[o])
  PROVE  NInv'
BY DEF NInv

LEMMA NInvInit == NInit => NInv
<1> SUFFICES ASSUME NInit PROVE NInv
  OBVIOUS
<1>1. HInv
  BY HInvInit DEF NInit
<1>2. \A o \in Openers : Wrapped(obj[o], wrap[o], jd[o])
  BY DEF NInit, HInit, Wrapped
<1> QED
  BY <1>1, <1>2 DEF NInit, HInit, NInv

LEMMA NewKeeps ==
  ASSUME NInv, HInv', NEW o \in Openers, NEW f, New(o, f)
  PROVE  NInv'
<1>1. obj[o] = "none" /\ HInv /\ DOMAIN obj = Openers /\ DOMAIN wrap = Openers
  BY DEF New, NInv
<1>2. CASE native /\ JointInit(o, f) /\ obj' = [obj EXCEPT ![o] = "native"]
             /\ wrap' = [wrap EXCEPT ![o] = [jd |-> jd'[o], is_open |-> TRUE]]
  <2>1. jd'[o] \in Nat /\ \A p \in Openers \ {o} : jd'[p] = jd[p]
    BY <1>1, <1>2, InitGives
  <2>2. obj'[o] = "native" /\ wrap'[o] = [jd |-> jd'[o], is_open |-> TRUE]
    BY <1>1, <1>2
  <2>3. Wrapped(obj'[o], wrap'[o], jd'[o])
    BY <2>1, <2>2 DEF Wrapped, NoJd
  <2>4. ~ burned'
    BY <1>2 DEF JointInit, NInv
  <2> QED
    BY <1>1, <1>2, <2>1, <2>3, <2>4, NInvOne
<1>3. CASE ~ native /\ obj' = [obj EXCEPT ![o] = "shared"] /\ UNCHANGED <<hvars, wrap, said>>
  <2>1. obj'[o] = "shared" /\ jd' = jd /\ wrap' = wrap /\ burned' = burned
    BY <1>1, <1>3 DEF hvars
  <2>2. Wrapped(obj'[o], wrap'[o], jd'[o])
    BY <1>1, <2>1 DEF Wrapped, NInv
  <2> QED
    BY <1>1, <1>3, <2>1, <2>2, NInvOne DEF NInv
<1> QED
  BY <1>2, <1>3 DEF New

LEMMA CloseTimelineKeeps ==
  ASSUME NInv, HInv', NEW o \in Openers, CloseTimeline(o)
  PROVE  NInv'
<1>1. /\ obj[o] = "native" /\ HInv /\ JointClose(o)
      /\ obj' = [obj EXCEPT ![o] = "shared"]
      /\ wrap' = [wrap EXCEPT ![o].is_open = FALSE]
      /\ DOMAIN obj = Openers /\ DOMAIN wrap = Openers
  BY DEF CloseTimeline, NInv
<1>2. jd'[o] = NoJd /\ \A p \in Openers \ {o} : jd'[p] = jd[p]
  BY <1>1, CloseTakes
<1>3. wrap'[o] \in [jd : Nat \cup {NoJd}, is_open : BOOLEAN] /\ ~ wrap'[o].is_open
  <2>1. wrap[o] \in [jd : Nat \cup {NoJd}, is_open : BOOLEAN]
    BY <1>1 DEF NInv, Wrapped
  <2>2. wrap'[o] = [wrap[o] EXCEPT !.is_open = FALSE]
    BY <1>1
  <2> QED
    BY <2>1, <2>2
<1>4. Wrapped(obj'[o], wrap'[o], jd'[o])
  BY <1>1, <1>2, <1>3 DEF Wrapped
<1>5. ~ burned'
  BY <1>1 DEF JointClose, NInv
<1> QED
  BY <1>1, <1>2, <1>4, <1>5, NInvOne

LEMMA CollectKeeps ==
  ASSUME NInv, HInv', NEW o \in Openers, Collect(o)
  PROVE  NInv'
<1>1. /\ obj[o] \in {"native", "shared"} /\ Finalize(o) /\ HInv
      /\ obj' = [obj EXCEPT ![o] = IF jd'[o] = NoJd THEN "none" ELSE "lost"]
      /\ wrap' = [wrap EXCEPT ![o] = [jd |-> NoJd, is_open |-> FALSE]]
      /\ DOMAIN obj = Openers /\ DOMAIN wrap = Openers
      /\ Wrapped(obj[o], wrap[o], jd[o])
  BY DEF Collect, NInv
<1>2. /\ \A p \in Openers \ {o} : jd'[p] = jd[p]
      /\ jd'[o] = NoJd \/ jd'[o] = 0
      /\ ~ burned'
  <2>1. CASE JointClose(o)
    BY <1>1, <2>1, CloseTakes DEF JointClose, NInv
  <2>2. CASE UNCHANGED hvars /\ ~ (wrap[o].is_open /\ wrap[o].jd # 0)
    <3>1. jd' = jd /\ burned' = burned
      BY <2>2 DEF hvars
    <3>2. jd[o] = NoJd \/ jd[o] = 0
      BY <1>1, <2>2 DEF Wrapped
    <3> QED
      BY <3>1, <3>2 DEF NInv
  <2> QED
    BY <1>1, <2>1, <2>2 DEF Finalize
<1>3. /\ wrap'[o] = [jd |-> NoJd, is_open |-> FALSE]
      /\ obj'[o] = IF jd'[o] = NoJd THEN "none" ELSE "lost"
  BY <1>1
<1>4. Wrapped(obj'[o], wrap'[o], jd'[o])
  BY <1>2, <1>3 DEF Wrapped, NoJd
<1> QED
  BY <1>1, <1>2, <1>4, NInvOne

LEMMA NInvStep == NInv /\ [NNext]_nvars => NInv'
<1> SUFFICES ASSUME NInv, [NNext]_nvars PROVE NInv'
  OBVIOUS
<1>1. HInv /\ HInv'
  BY NpmStep DEF NInv
<1>2. CASE UNCHANGED <<obj, wrap, jd, burned>>
  BY <1>1, <1>2 DEF NInv
<1>3. ASSUME NEW o \in Openers, NEW r \in Records, RecordInterval(o, r)
      PROVE  UNCHANGED <<obj, wrap, jd, burned>>
  BY <1>3 DEF RecordInterval, RecordNative, RecordFlat, Rewrite, hvars
<1>4. ASSUME NEW o \in Openers, Clear(o)
      PROVE  UNCHANGED <<obj, wrap, jd, burned>>
  BY <1>4 DEF Clear, hvars
<1>5. CASE UNCHANGED nvars
  BY <1>2, <1>5 DEF nvars
<1> QED
  BY <1>1, <1>2, <1>3, <1>4, <1>5, NewKeeps, CloseTimelineKeeps, CollectKeeps DEF NNext

LEMMA NInvariant == NSpec => []NInv
BY NInvInit, NInvStep, PTL DEF NSpec

-----------------------------------------------------------------------------

\* Whatever is created, closed and collected, a store that no timeline can close
\* any more is that of handle 0.
THEOREM OnlyHandleZeroLeaks == NSpec => []OnlyZeroLeaks
<1>1. NInv => OnlyZeroLeaks
  <2> SUFFICES ASSUME NInv, NEW h \in DOMAIN store, h # 0
               PROVE  \E o \in Openers : IsLive(o) /\ wrap[o].jd = h
    BY DEF OnlyZeroLeaks
  <2>1. PICK b : \E B \in {{}, {b}} : Accounted(B)
    BY DEF NInv, HInv
  <2>2. Good(idm, store, jd, {})
    BY <2>1 DEF Accounted, NInv
  <2>3. PICK o \in Openers : jd[o] = h /\ jd[o] # NoJd
    BY <2>2 DEF Good, HeldIn, HoldersIn
  <2>4. obj[o] = "native" /\ wrap[o].is_open /\ wrap[o].jd = h
    BY <2>3 DEF NInv, Wrapped
  <2> QED
    BY <2>4 DEF IsLive
<1> QED
  BY <1>1, NInvariant, PTL

LEMMA OthersKeep ==
  ASSUME HInv, NEW o \in Openers, NEW p \in Openers, o # p, jd[o] # NoJd, Touch(p)
  PROVE  /\ jd'[o] = jd[o]
         /\ jd[o] \in DOMAIN store'
         /\ store'[jd[o]] = store[jd[o]]
<1>1. jd[o] \in DOMAIN store
  BY HInvTells DEF NotShared, Held, Holders
<1>2. jd[p] # NoJd => jd[p] # jd[o]
  BY HInvTells DEF NotShared, Holders
<1>3. jd \in [Openers -> Nat \cup {NoJd}]
  BY HInvTells DEF HTypeOK
<1>4. ASSUME NEW f, JointInit(p, f)
      PROVE  jd'[o] = jd[o] /\ jd[o] \in DOMAIN store' /\ store'[jd[o]] = store[jd[o]]
  <2>1. PICK h \in NewId(idm) : store' = With(store, h, Loaded(f))
    BY <1>4 DEF JointInit
  <2>2. h \notin DOMAIN store
    <3>1. idm.next \notin DOMAIN store
      BY HInvTells DEF HTypeOK
    <3>2. DOMAIN store \cap idm.free = {}
      BY HInvTells DEF NotShared
    <3> QED
      BY <3>1, <3>2 DEF NewId
  <2>3. jd'[o] = jd[o]
    BY <1>4, InitGives
  <2> QED
    BY <1>1, <2>1, <2>2, <2>3 DEF With
<1>5. CASE JointClose(p)
  <2>1. jd'[o] = jd[o] /\ jd[p] # NoJd /\ store' = Without(store, jd[p])
    BY <1>5, CloseTakes DEF JointClose
  <2> QED
    BY <1>1, <1>2, <2>1 DEF Without
<1>6. ASSUME NEW rows, Rewrite(p, rows)
      PROVE  jd'[o] = jd[o] /\ jd[o] \in DOMAIN store' /\ store'[jd[o]] = store[jd[o]]
  <2>1. /\ jd[p] # NoJd /\ jd' = jd
        /\ store' = [store EXCEPT ![jd[p]].ti = rows]
    BY <1>6 DEF Rewrite
  <2> QED
    BY <1>1, <1>2, <2>1
<1>7. CASE UNCHANGED hvars
  BY <1>1, <1>7 DEF hvars
<1> QED
  BY <1>4, <1>5, <1>6, <1>7 DEF Touch

\* No call of another timeline and no late finalizer changes or closes what an
\* open native timeline holds, for any number of timelines.
THEOREM TimelinesAreIsolated == NSpec => Isolated
<1>1. NInv /\ [NNext]_nvars =>
        [\A o \in Openers \ {by'} : IsLive(o) =>
           /\ jd'[o] = wrap[o].jd
           /\ wrap[o].jd \in DOMAIN store'
           /\ store'[wrap[o].jd] = store[wrap[o].jd]]_nvars
  <2> SUFFICES ASSUME NInv, NNext, NEW o \in Openers \ {by'}, IsLive(o)
               PROVE  /\ jd'[o] = wrap[o].jd
                      /\ wrap[o].jd \in DOMAIN store'
                      /\ store'[wrap[o].jd] = store[wrap[o].jd]
    OBVIOUS
  <2>1. HInv /\ jd[o] = wrap[o].jd /\ jd[o] # NoJd
    BY DEF NInv, Wrapped, IsLive
  <2>2. by' \in Openers /\ Touch(by')
    BY <2>1, NpmTouches
  <2> QED
    BY <2>1, <2>2, OthersKeep
<1> QED
  BY <1>1, NInvariant, PTL DEF NSpec, Isolated

-----------------------------------------------------------------------------
(* What a native timeline was told is what its store holds.                *)

LEMMA SeqOfSet ==
  ASSUME NEW S, IsFiniteSet(S)
  PROVE  SetToSeq(S) \in Seq(S) /\ ToSet(SetToSeq(S)) = S
<1> DEFINE n == Cardinality(S)
           s == SetToSeq(S)
<1>1. n \in Nat /\ \E g : g \in Bijection(1..n, S)
  BY FS_CardinalityType DEF ExistsBijection
<1>2. \E g \in [1..n -> S] : IsInjective(g)
  BY <1>1 DEF Bijection, Injection
<1>3. s \in [1..n -> S] /\ IsInjective(s)
  BY <1>2 DEF SetToSeq
<1>4. s \in Injection(1..n, S)
  BY <1>3 DEF Injection
<1>5. Cardinality(1..n) = n
  BY <1>1, FS_Interval
<1>6. s \in Surjection(1..n, S)
  BY <1>4, <1>5, FS_Injection
<1> HIDE DEF n, s
<1>7. s \in Seq(S)
  BY <1>1, <1>3
<1>8. DOMAIN s = 1..n
  BY <1>3
<1>9. ToSet(s) = S
  BY <1>3, <1>6, <1>8 DEF ToSet, Surjection
<1> QED
  BY <1>7, <1>9 DEF s

LEMMA OneMore ==
  ASSUME NEW told \in Seq(Interval), NEW t \in Interval
  PROVE  /\ Append(told, t) \in Seq(Interval)
         /\ ToSet(Append(told, t)) = ToSet(told) \cup {t}
<1> DEFINE r == Append(told, t)
<1>1. /\ r \in Seq(Interval) /\ Len(r) = Len(told) + 1 /\ Len(told) \in Nat
      /\ DOMAIN told = 1..Len(told) /\ DOMAIN r = 1..(Len(told) + 1)
      /\ \A k \in 1..(Len(told) + 1) : r[k] = IF k <= Len(told) THEN told[k] ELSE t
  OBVIOUS
<1> HIDE DEF r
<1>2. 1..(Len(told) + 1) = (1..Len(told)) \cup {Len(told) + 1}
  BY <1>1
<1>3. r[Len(told) + 1] = t /\ \A k \in 1..Len(told) : r[k] = told[k]
  BY <1>1
<1>4. ToSet(r) = ToSet(told) \cup {t}
  BY <1>1, <1>2, <1>3 DEF ToSet
<1> QED
  BY <1>1, <1>4 DEF r

\* Records that can be expected to be kept could be so before the last of them.
LEMMA SoundBefore ==
  ASSUME NEW told \in Seq(Interval), NEW t \in Interval, Sound(Append(told, t))
  PROVE  /\ Sound(told) /\ t \notin ToSet(told)
         /\ Apart(ToSet(told) \cup {t})
         /\ \A u \in ToSet(told) \cup {t} :
              u.min < u.max /\ Accepted(u.min, u.who) /\ Accepted(u.max, u.who)
<1> DEFINE r == Append(told, t)
           T == ToSet(told)
<1>1. /\ Len(told) \in Nat
      /\ DOMAIN told = 1..Len(told) /\ DOMAIN r = 1..(Len(told) + 1)
      /\ \A k \in 1..Len(told) : r[k] = told[k]
      /\ r[Len(told) + 1] = t
  OBVIOUS
<1>2. ToSet(r) = T \cup {t}
  BY OneMore
<1>3. /\ IsInjective(r) /\ Apart(T \cup {t}) /\ NonEmpty(T \cup {t})
      /\ \A u \in T \cup {t} : Accepted(u.min, u.who) /\ Accepted(u.max, u.who)
  BY <1>2 DEF Sound
<1> HIDE DEF r
<1>4. \A i, j \in 1..(Len(told) + 1) : r[i] = r[j] => i = j
  BY <1>1, <1>3 DEF IsInjective
<1>5. IsInjective(told)
  BY <1>1, <1>4 DEF IsInjective
<1>6. t \notin T
  <2> SUFFICES ASSUME NEW k \in 1..Len(told), told[k] = t PROVE FALSE
    BY <1>1 DEF ToSet
  <2>1. k \in 1..(Len(told) + 1) /\ Len(told) + 1 \in 1..(Len(told) + 1)
        /\ k # Len(told) + 1
    BY <1>1
  <2> QED
    BY <1>1, <1>4, <2>1
<1>7. Apart(T) /\ NonEmpty(T)
      /\ \A u \in T : Accepted(u.min, u.who) /\ Accepted(u.max, u.who)
  BY <1>3 DEF Apart, NonEmpty
<1> QED
  BY <1>3, <1>5, <1>6, <1>7 DEF Sound, NonEmpty

\* The start and the stop of a record put just that interval, where they find
\* the entity away and then only the interval they opened.
LEMMA RecordAdds ==
  ASSUME NEW S, S \subseteq Interval, NEW t \in Interval, t \notin S,
         Apart(S \cup {t}),
         \A u \in S \cup {t} :
           u.min < u.max /\ Accepted(u.min, u.who) /\ Accepted(u.max, u.who)
  PROVE  AfterStop(AfterStart(S, t.min, t.who), t.max, t.who) = {S \cup {t}}
<1> DEFINE v == [min |-> t.min, max |-> Inf, who |-> t.who]
           V == S \cup {v}
<1>1. /\ t.min \in Int /\ t.max \in Int /\ t.min < t.max /\ t.max < Inf
      /\ Inf \in Int /\ MInf \in Int
      /\ Accepted(t.min, t.who) /\ Accepted(t.max, t.who)
  <2>1. t.min \in Int /\ t.max \in Int
    BY SentinelAssumption DEF Interval
  <2> QED
    BY <2>1, SentinelAssumption, RangeAssumption DEF Accepted
<1>2. \A u \in S : /\ u.min \in Int /\ u.max \in Int /\ u.max < Inf
                   /\ u.who = t.who => t.max < u.min \/ u.max < t.min
  <2> SUFFICES ASSUME NEW u \in S
               PROVE  /\ u.min \in Int /\ u.max \in Int /\ u.max < Inf
                      /\ u.who = t.who => t.max < u.min \/ u.max < t.min
    OBVIOUS
  <2>1. u.min \in Int /\ u.max \in Int
    BY SentinelAssumption DEF Interval
  <2>2. u.max < Inf
    BY <2>1, SentinelAssumption, RangeAssumption DEF Accepted
  <2>3. u.who = t.who => t.max < u.min \/ u.max < t.min
    BY DEF Apart
  <2> QED
    BY <2>1, <2>2, <2>3
<1>3. ~ Present(S, t.min, t.who)
  <2> SUFFICES ASSUME NEW u \in S, u.who = t.who, Covers(u, t.min) PROVE FALSE
    BY DEF Present, OwnedBy
  <2> QED
    BY <1>1, <1>2 DEF Covers
<1>4. AfterStart(S, t.min, t.who) = V
  BY <1>1, <1>3 DEF AfterStart, Insert
<1>5. /\ v.min = t.min /\ v.max = Inf /\ v.who = t.who
      /\ v \notin S
  BY <1>2, <1>1
<1>6. t = [min |-> t.min, max |-> t.max, who |-> t.who]
  BY DEF Interval
<1>7. Close(v, t.max) = t
  BY <1>6 DEF Close
<1> HIDE DEF v
<1>8. Present(V, t.max, t.who)
  BY <1>1, <1>5 DEF Present, OwnedBy, Covers
<1>9. OpenOf(V, t.who) = {v}
  <2>1. \A u \in S : u.max # Inf
    BY <1>1, <1>2
  <2> QED
    BY <1>5, <2>1 DEF OpenOf, OwnedBy
<1>10. FinishLast(V, t.who, t.max) = {(V \ {v}) \cup {t}}
  BY <1>7, <1>9 DEF FinishLast
<1>11. V \ {v} = S
  BY <1>5
<1> HIDE DEF V
<1>12. AfterStop(V, t.max, t.who) = {S \cup {t}}
  BY <1>1, <1>8, <1>10, <1>11 DEF AfterStop
<1> QED
  BY <1>4, <1>12

\* What a store is known to hold when it began with, and was told since, `told`.
TellsTrue(told, rows) ==
  told \in Seq(Interval) /\ (Sound(told) => rows = ToSet(told))

LEMMA TellsMore ==
  ASSUME NEW told, NEW S, S \subseteq Interval, TellsTrue(told, S), NEW t \in Interval,
         NEW rows \in AfterStop(AfterStart(S, t.min, t.who), t.max, t.who)
  PROVE  TellsTrue(Append(told, t), rows)
<1>1. told \in Seq(Interval) /\ (Sound(told) => S = ToSet(told))
  BY DEF TellsTrue
<1>2. /\ Append(told, t) \in Seq(Interval)
      /\ ToSet(Append(told, t)) = ToSet(told) \cup {t}
  BY <1>1, OneMore
<1>3. ASSUME Sound(Append(told, t)) PROVE rows = ToSet(told) \cup {t}
  <2>1. /\ S = ToSet(told) /\ t \notin S /\ Apart(S \cup {t})
        /\ \A u \in S \cup {t} :
             u.min < u.max /\ Accepted(u.min, u.who) /\ Accepted(u.max, u.who)
    BY <1>1, <1>3, SoundBefore
  <2>2. rows = S \cup {t}
    BY <2>1, RecordAdds
  <2> QED
    BY <2>1, <2>2
<1> QED
  BY <1>2, <1>3 DEF TellsTrue

-----------------------------------------------------------------------------
(* Stores and files are finite, so that what is loaded can be listed.      *)

Finite ==
  /\ \A h \in DOMAIN store : IsFiniteSet(store[h].ti)
  /\ \A f \in Files : IsFiniteSet(disk[f])

LEMMA RecordIsFinite ==
  ASSUME NEW S, IsFiniteSet(S), NEW a, NEW b, NEW id,
         NEW rows \in AfterStop(AfterStart(S, a, id), b, id)
  PROVE  IsFiniteSet(rows)
<1> DEFINE T == AfterStart(S, a, id)
<1>1. IsFiniteSet(T)
  BY FS_AddElement DEF AfterStart, Insert
<1> HIDE DEF T
<1>2. \A v, w : IsFiniteSet((T \ {v}) \cup {w}) /\ IsFiniteSet(T \cup {w})
  BY <1>1, FS_AddElement, FS_RemoveElement
<1>3. rows = T \/ (\E v, w : rows = (T \ {v}) \cup {w}) \/ (\E w : rows = T \cup {w})
  BY DEF AfterStop, FinishLast, Insert, T
<1>4. CASE rows = T
  BY <1>1, <1>4
<1>5. ASSUME NEW v, NEW w, rows = (T \ {v}) \cup {w} PROVE IsFiniteSet(rows)
  <2>1. IsFiniteSet((T \ {v}) \cup {w})
    BY <1>2
  <2> QED
    BY ONLY <1>5, <2>1
<1>6. ASSUME NEW w, rows = T \cup {w} PROVE IsFiniteSet(rows)
  <2>1. IsFiniteSet(T \cup {w})
    BY <1>2
  <2> QED
    BY ONLY <1>6, <2>1
<1> QED
  BY <1>3, <1>4, <1>5, <1>6

LEMMA FlushIsFinite ==
  ASSUME Finite, Flush, NEW f \in Files
  PROVE  IsFiniteSet(disk'[f])
<1>1. \A h \in Backing(f) : IsFiniteSet(store[h].ti)
  BY DEF Backing, Finite
<1>2. IsFiniteSet(disk[f])
  BY DEF Finite
<1>3. \A rows \in Contents(f) : IsFiniteSet(rows)
  BY <1>1, <1>2 DEF Contents
<1> QED
  BY <1>3 DEF Flush

\* Touch, with finite rows.
LEMMA FiniteKeeps ==
  ASSUME HInv, Finite, NEW o \in Openers,
         \/ \E f \in Files \cup {NoFile} : JointInit(o, f)
         \/ \E rows : IsFiniteSet(rows) /\ Rewrite(o, rows)
         \/ JointClose(o)
         \/ UNCHANGED hvars
  PROVE  Finite'
<1>1. ASSUME NEW f \in Files \cup {NoFile}, JointInit(o, f) PROVE Finite'
  <2>1. PICK h : store' = With(store, h, Loaded(f)) /\ disk' = disk
    BY <1>1 DEF JointInit
  <2>2. IsFiniteSet(Loaded(f).ti)
    BY FS_EmptySet DEF Loaded, Finite
  <2> QED
    BY <2>1, <2>2 DEF With, Finite
<1>2. ASSUME NEW rows, IsFiniteSet(rows), Rewrite(o, rows) PROVE Finite'
  <2>1. store' = [store EXCEPT ![jd[o]].ti = rows] /\ disk' = disk
    BY <1>2 DEF Rewrite
  <2>2. store \in [DOMAIN store -> Store]
    BY HInvTells DEF HTypeOK
  <2>3. \A h \in DOMAIN store : store'[h].ti = rows \/ store'[h].ti = store[h].ti
    BY <2>1, <2>2 DEF Store
  <2>4. DOMAIN store' = DOMAIN store
    BY <2>1, <2>2
  <2> QED
    BY <1>2, <2>1, <2>3, <2>4 DEF Finite
<1>3. CASE JointClose(o)
  <2>1. store' = Without(store, jd[o]) /\ Flush
    BY <1>3 DEF JointClose
  <2>2. \A f \in Files : IsFiniteSet(disk'[f])
    BY <2>1, FlushIsFinite
  <2> QED
    BY <2>1, <2>2 DEF Without, Finite
<1>4. CASE UNCHANGED hvars
  BY <1>4 DEF hvars, Finite
<1> QED
  BY <1>1, <1>2, <1>3, <1>4

-----------------------------------------------------------------------------
(* The invariant.                                                          *)

\* The array has the records since the last clear, unless they were too many.
FlatInv ==
  /\ flat \in Seq(Records) /\ put \in Seq(Records)
  /\ ToSet(flat) \subseteq ToSet(put)
  /\ Len(put) <= Cap => flat = put

XInv ==
  /\ NInv
  /\ Finite
  /\ FlatInv
  /\ DOMAIN said = Openers
  /\ \A o \in Openers : obj[o] = "native" => TellsTrue(said[o], store[jd[o]].ti)

LEMMA FlatInvKept == FlatInv /\ UNCHANGED <<flat, put>> => FlatInv'
BY DEF FlatInv

LEMMA FlatInvEmptied == flat' = <<>> /\ put' = <<>> => FlatInv'
<1>1. <<>> \in Seq(Records)
  OBVIOUS
<1> QED
  BY <1>1 DEF FlatInv

LEMMA FlatInvRecords ==
  ASSUME FlatInv, NEW r \in Records, RecordFlat(r)
  PROVE  FlatInv'
<1>1. /\ flat \in Seq(Records) /\ put \in Seq(Records)
      /\ Len(flat) \in Nat /\ Len(put) \in Nat /\ Cap \in Nat
      /\ ToSet(flat) \subseteq ToSet(put)
      /\ Len(put) <= Cap => flat = put
  BY RecordAssumption DEF FlatInv
<1>2. /\ put' = Append(put, r)
      /\ flat' = IF Len(flat) < Cap THEN Append(flat, r) ELSE flat
  BY DEF RecordFlat
<1>3. /\ put' \in Seq(Records) /\ flat' \in Seq(Records)
      /\ Len(put') = Len(put) + 1
  BY <1>1, <1>2
<1>4. ASSUME NEW s \in Seq(Records)
      PROVE  ToSet(Append(s, r)) = ToSet(s) \cup {r}
  <2> DEFINE t == Append(s, r)
  <2>1. /\ Len(s) \in Nat /\ DOMAIN s = 1..Len(s) /\ DOMAIN t = 1..(Len(s) + 1)
        /\ \A k \in 1..(Len(s) + 1) : t[k] = IF k <= Len(s) THEN s[k] ELSE r
    OBVIOUS
  <2> HIDE DEF t
  <2>2. 1..(Len(s) + 1) = (1..Len(s)) \cup {Len(s) + 1}
    BY <2>1
  <2>3. t[Len(s) + 1] = r /\ \A k \in 1..Len(s) : t[k] = s[k]
    BY <2>1
  <2>4. ToSet(t) = ToSet(s) \cup {r}
    BY <2>1, <2>2, <2>3 DEF ToSet
  <2> QED
    BY <2>4 DEF t
<1>5. ToSet(flat') \subseteq ToSet(put')
  BY <1>1, <1>2, <1>4
<1>6. ASSUME Len(put') <= Cap PROVE flat' = put'
  BY <1>1, <1>2, <1>3, <1>6
<1> QED
  BY <1>3, <1>5, <1>6 DEF FlatInv

LEMMA NativeStore ==
  ASSUME NInv, NEW o \in Openers, obj[o] = "native"
  PROVE  /\ jd[o] # NoJd /\ jd[o] = wrap[o].jd
         /\ jd[o] \in DOMAIN store
         /\ store[jd[o]].ti \subseteq Interval
<1>1. HTypeOK /\ NotShared
  BY HInvTells DEF NInv
<1>2. jd[o] # NoJd /\ jd[o] = wrap[o].jd
  BY DEF NInv, Wrapped
<1>3. jd[o] \in DOMAIN store
  BY <1>1, <1>2 DEF NotShared, Held, Holders
<1>4. store[jd[o]] \in Store
  BY <1>1, <1>3 DEF HTypeOK
<1>5. store[jd[o]].ti \subseteq Interval
  BY <1>4, RecordAssumption DEF Store
<1> QED
  BY <1>2, <1>3, <1>5

LEMMA XInvInit == NInit => XInv
<1> SUFFICES ASSUME NInit PROVE XInv
  OBVIOUS
<1>1. Finite
  BY FS_EmptySet DEF NInit, HInit, Finite
<1>2. \A o \in Openers : obj[o] # "native"
  BY DEF NInit
<1>3. FlatInv
  <2>1. <<>> \in Seq(Records)
    OBVIOUS
  <2> QED
    BY <2>1 DEF NInit, FlatInv
<1> QED
  BY <1>1, <1>2, <1>3, NInvInit DEF NInit, XInv

\* The calls of one timeline leave what another one was told, and holds, alone.
LEMMA OthersAreTold ==
  ASSUME XInv, NEW o \in Openers, NEW p \in Openers, o # p, Touch(p),
         obj'[o] = obj[o], said'[o] = said[o], obj'[o] = "native"
  PROVE  TellsTrue(said'[o], store'[jd'[o]].ti)
<1>1. HInv /\ jd[o] # NoJd /\ TellsTrue(said[o], store[jd[o]].ti)
  BY NativeStore DEF XInv, NInv
<1>2. jd'[o] = jd[o] /\ store'[jd[o]] = store[jd[o]]
  BY <1>1, OthersKeep
<1> QED
  BY <1>1, <1>2

\* A step concerns one timeline.
LEMMA XInvOne ==
  ASSUME XInv, NInv', Finite', NEW o \in Openers, Touch(o),
         FlatInv', DOMAIN said' = Openers,
         \A p \in Openers \ {o} : obj'[p] = obj[p] /\ said'[p] = said[p],
         obj'[o] = "native" => TellsTrue(said'[o], store'[jd'[o]].ti)
  PROVE  XInv'
<1>1. ASSUME NEW p \in Openers, obj'[p] = "native"
      PROVE  TellsTrue(said'[p], store'[jd'[p]].ti)
  <2>1. CASE p = o
    BY <1>1, <2>1
  <2>2. CASE p # o
    BY <1>1, <2>2, OthersAreTold
  <2> QED
    BY <2>1, <2>2
<1> QED
  BY <1>1 DEF XInv

LEMMA NewTells ==
  ASSUME XInv, NInv', NEW o \in Openers, NEW f \in Files \cup {NoFile}, New(o, f)
  PROVE  XInv'
<1>1. /\ HInv /\ Finite
      /\ DOMAIN said = Openers /\ DOMAIN obj = Openers
  BY DEF XInv, NInv
<1>2. FlatInv' /\ Touch(o)
  BY FlatInvKept DEF XInv, New, Touch
<1>3. CASE /\ JointInit(o, f)
           /\ obj' = [obj EXCEPT ![o] = "native"]
           /\ said' = [said EXCEPT ![o] = SetToSeq(Loaded(f).ti)]
  <2>1. Finite'
    BY <1>1, <1>3, FiniteKeeps
  <2>2. PICK h : store' = With(store, h, Loaded(f)) /\ jd' = [jd EXCEPT ![o] = h]
    BY <1>3 DEF JointInit
  <2>3. jd'[o] = h
    BY <1>1, <2>2, HInvTells DEF HTypeOK
  <2>4. store'[jd'[o]].ti = Loaded(f).ti /\ h \in DOMAIN store'
    BY <2>2, <2>3 DEF With
  <2>5. IsFiniteSet(Loaded(f).ti)
    BY <2>1, <2>3, <2>4 DEF Finite
  <2>6. Loaded(f).ti \subseteq Interval
    BY <1>1, HInvTells, RecordAssumption DEF Loaded, HTypeOK
  <2>7. SetToSeq(Loaded(f).ti) \in Seq(Interval)
        /\ ToSet(SetToSeq(Loaded(f).ti)) = Loaded(f).ti
    <3>1. SetToSeq(Loaded(f).ti) \in Seq(Loaded(f).ti)
          /\ ToSet(SetToSeq(Loaded(f).ti)) = Loaded(f).ti
      BY <2>5, SeqOfSet
    <3> QED
      BY <2>6, <3>1
  <2>8. said'[o] = SetToSeq(Loaded(f).ti)
    BY <1>1, <1>3
  <2>9. TellsTrue(said'[o], store'[jd'[o]].ti)
    BY <2>4, <2>7, <2>8 DEF TellsTrue
  <2> QED
    BY <1>1, <1>2, <1>3, <2>1, <2>9, XInvOne
<1>4. CASE obj' = [obj EXCEPT ![o] = "shared"] /\ UNCHANGED <<hvars, wrap, said>>
  <2>1. Finite'
    BY <1>1, <1>4, FiniteKeeps
  <2> QED
    BY <1>1, <1>2, <1>4, <2>1, XInvOne
<1> QED
  BY <1>3, <1>4 DEF New

LEMMA RecordTells ==
  ASSUME XInv, NInv', NEW o \in Openers, NEW r \in Records, RecordInterval(o, r)
  PROVE  XInv'
<1>1. /\ HInv /\ Finite /\ FlatInv /\ DOMAIN said = Openers
      /\ obj' = obj
  BY DEF XInv, NInv, RecordInterval
<1>2. CASE obj[o] = "native" /\ RecordNative(o, Recorded(r))
  <2> DEFINE t == Recorded(r)
             S == store[jd[o]].ti
  <2>1. t \in Interval
    BY RecordedIsTyped
  <2>2. S \subseteq Interval /\ jd[o] \in DOMAIN store
    BY <1>2, NativeStore DEF XInv
  <2>3. PICK rows \in AfterStop(AfterStart(S, t.min, t.who), t.max, t.who) : Rewrite(o, rows)
    BY <1>2 DEF RecordNative
  <2>4. store' = [store EXCEPT ![jd[o]].ti = rows] /\ jd' = jd
    BY <2>3 DEF Rewrite
  <2>5. store'[jd'[o]].ti = rows
    <3>1. store[jd[o]] \in Store
      BY <1>1, <2>2, HInvTells DEF HTypeOK
    <3> QED
      BY <2>2, <2>4, <3>1 DEF Store
  <2>6. FlatInv' /\ said' = [said EXCEPT ![o] = Append(@, t)]
    BY <1>1, <1>2, FlatInvKept DEF RecordNative
  <2>7. Touch(o)
    BY <1>1, <1>2, <2>1, RecordTouches DEF Touch
  <2>8. TellsTrue(said[o], S)
    BY <1>2 DEF XInv
  <2>9. IsFiniteSet(S)
    BY <1>1, <2>2 DEF Finite
  <2> HIDE DEF t, S
  <2>10. TellsTrue(Append(said[o], t), rows)
    BY <2>1, <2>2, <2>3, <2>8, TellsMore
  <2>11. IsFiniteSet(rows)
    BY <2>3, <2>9, RecordIsFinite
  <2>12. Finite'
    BY <1>1, <2>3, <2>11, FiniteKeeps
  <2>13. said'[o] = Append(said[o], t)
    BY <1>1, <2>6
  <2>14. TellsTrue(said'[o], store'[jd'[o]].ti)
    BY <2>5, <2>10, <2>13
  <2> QED
    BY <1>1, <2>6, <2>7, <2>12, <2>14, XInvOne
<1>3. CASE RecordFlat(r)
  <2>1. UNCHANGED hvars /\ said' = said
    BY <1>3 DEF RecordFlat
  <2>2. FlatInv'
    BY <1>1, <1>3, FlatInvRecords
  <2>3. Finite' /\ Touch(o)
    BY <1>1, <2>1, FiniteKeeps DEF Touch
  <2>4. store' = store /\ jd' = jd
    BY <2>1 DEF hvars
  <2> QED
    BY <1>1, <2>1, <2>2, <2>3, <2>4, XInvOne DEF XInv
<1> QED
  BY <1>2, <1>3 DEF RecordInterval

LEMMA ClearTells ==
  ASSUME XInv, NInv', NEW o \in Openers, Clear(o)
  PROVE  XInv'
<1>1. /\ HInv /\ Finite /\ FlatInv /\ DOMAIN said = Openers
      /\ UNCHANGED hvars /\ obj' = obj /\ said' = said
  BY DEF XInv, NInv, Clear
<1>2. FlatInv'
  BY <1>1, FlatInvKept, FlatInvEmptied DEF Clear
<1>3. Finite' /\ Touch(o)
  BY <1>1, FiniteKeeps DEF Touch
<1>4. store' = store /\ jd' = jd
  BY <1>1 DEF hvars
<1> QED
  BY <1>1, <1>2, <1>3, <1>4, XInvOne DEF XInv

LEMMA EndTells ==
  ASSUME XInv, NInv', NEW o \in Openers, CloseTimeline(o) \/ Collect(o)
  PROVE  XInv'
<1>1. /\ HInv /\ Finite /\ FlatInv
      /\ DOMAIN said = Openers /\ DOMAIN obj = Openers
  BY DEF XInv, NInv
<1>2. JointClose(o) \/ UNCHANGED hvars
  BY DEF CloseTimeline, Collect, Finalize
<1>3. Finite' /\ Touch(o)
  BY <1>1, <1>2, FiniteKeeps DEF Touch
<1>4. /\ FlatInv' /\ said' = [said EXCEPT ![o] = <<>>]
      /\ \E what \in {"none", "shared", "lost"} : obj' = [obj EXCEPT ![o] = what]
  BY <1>1, FlatInvKept DEF CloseTimeline, Collect
<1>5. obj'[o] # "native"
  BY <1>1, <1>4
<1>6. \A p \in Openers \ {o} : obj'[p] = obj[p] /\ said'[p] = said[p]
  BY <1>1, <1>4
<1> QED
  BY <1>1, <1>3, <1>4, <1>5, <1>6, XInvOne

LEMMA XInvStep == XInv /\ [NNext]_nvars => XInv'
<1> SUFFICES ASSUME XInv, [NNext]_nvars PROVE XInv'
  OBVIOUS
<1>1. NInv'
  BY NInvStep DEF XInv
<1>2. CASE UNCHANGED nvars
  <2>1. UNCHANGED <<store, disk, jd, obj, flat, said, put>>
    BY <1>2 DEF nvars
  <2>2. Finite'
    BY <2>1 DEF XInv, Finite
  <2> QED
    BY <1>1, <2>1, <2>2, FlatInvKept DEF XInv
<1> QED
  BY <1>1, <1>2, NewTells, RecordTells, ClearTells, EndTells DEF NNext

LEMMA XInvariant == NSpec => []XInv
BY XInvInit, XInvStep, PTL DEF NSpec

-----------------------------------------------------------------------------
(* Hits.                                                                   *)

LEMMA NativeIsExact ==
  ASSUME NEW S, S \subseteq Interval, Apart(S), NonEmpty(S),
         NEW a \in Int, NEW b \in Int, a <= b
  PROVE  /\ ~ QueryFaults(S, a, b)
         /\ UNION {s.ids : s \in ToSet(Query(S, a, b))} = Overlapping(S, a, b)
<1> DEFINE r == Query(S, a, b)
<1>1. \A t \in S : t.min \in Int /\ t.max \in Int /\ t.min < t.max
  BY SentinelAssumption DEF NonEmpty, Interval
<1>2. Ordered(S)
  BY <1>1 DEF Ordered
<1>3. Truthful(r, S, a, b) /\ Telling(r, S, a, b) /\ ~ QueryFaults(S, a, b)
  BY <1>2, QueryIsTruthful, QueryTells, SaneQueryRuns
<1> HIDE DEF r
<1>4. r \in Seq(Piece)
  BY <1>3 DEF Truthful
<1>5. ToSet(r) = {r[k] : k \in 1..Len(r)}
  BY <1>4 DEF ToSet
<1>6. ASSUME NEW w \in Overlapping(S, a, b)
      PROVE  \E s \in ToSet(r) : w \in s.ids
  <2>1. PICK t \in S : t.who = w /\ \E x \in a..(b - 1) : Covers(t, x)
    BY <1>6 DEF Overlapping
  <2>2. PICK x \in a..(b - 1) : Covers(t, x)
    BY <2>1
  <2>3. x \in Int /\ a <= x /\ x < b
    OBVIOUS
  <2>4. PICK k \in 1..Len(r) : w \in r[k].ids
    BY <1>3, <2>1, <2>2, <2>3 DEF Telling
  <2> QED
    BY <1>5, <2>4
<1>7. ASSUME NEW s \in ToSet(r), NEW w \in s.ids
      PROVE  w \in Overlapping(S, a, b)
  <2>1. PICK k \in 1..Len(r) : s = r[k]
    BY <1>5
  <2>2. r[k] \in Piece
    BY <1>4
  <2>3. s.min \in Int /\ s.max \in Int
    BY <2>1, <2>2, PieceFields
  <2>4. a <= s.min /\ s.min < s.max /\ s.max <= b
    BY <1>3, <2>1 DEF Truthful
  <2>5. PICK t \in S : t.who = w /\ t.min <= s.min /\ s.max <= t.max
    BY <1>3, <1>7, <2>1 DEF Truthful
  <2>6. s.min \in a..(b - 1) /\ Covers(t, s.min)
    BY <1>1, <2>3, <2>4, <2>5 DEF Covers
  <2> QED
    BY <2>5, <2>6 DEF Overlapping
<1> QED
  BY <1>3, <1>6, <1>7 DEF r

\* A record and a window overlap if and only if they share an instant.
LEMMA SharedInstant ==
  ASSUME NEW s \in Int, NEW e \in Int, s < e, NEW a \in Int, NEW b \in Int, a < b
  PROVE  (a < e /\ b > s) <=> \E x \in a..(b - 1) : s <= x /\ x < e
<1>1. ASSUME a < e, b > s PROVE \E x \in a..(b - 1) : s <= x /\ x < e
  <2>1. CASE a <= s
    <3>1. s \in a..(b - 1)
      BY <1>1, <2>1
    <3> QED
      BY <3>1
  <2>2. CASE s < a
    <3>1. a \in a..(b - 1)
      OBVIOUS
    <3> QED
      BY <1>1, <2>2, <3>1
  <2> QED
    BY <2>1, <2>2
<1> QED
  BY <1>1

LEMMA FirstNaturals ==
  ASSUME NEW m \in Nat
  PROVE  IsFiniteSet(1..m) /\ Cardinality(1..m) = m
<1>1. /\ IsFiniteSet(1..m)
      /\ Cardinality(1..m) = IF 1 > m THEN 0 ELSE m - 1 + 1
  <2>1. 1 \in Int /\ m \in Int
    OBVIOUS
  <2> QED
    BY ONLY <2>1, FS_Interval
<1>2. (IF 1 > m THEN 0 ELSE m - 1 + 1) = m
  OBVIOUS
<1> QED
  BY <1>1, <1>2

\* A record as an interval.
Spoken(r) == [min |-> r.start, max |-> r.end, who |-> r.ref]

LEMMA OverlapsIs ==
  ASSUME put \in Seq(Records), NonEmpty(Put), NEW r \in ToSet(put),
         NEW a \in Int, NEW b \in Int, a < b
  PROVE  /\ Spoken(r) \in Put
         /\ Overlaps(r, a, b) <=> \E x \in a..(b - 1) : Covers(Spoken(r), x)
<1>1. Spoken(r) \in Put
  BY DEF Put, Spoken
<1>2. r \in Records
  BY DEF ToSet
<1>3. r.start \in Int /\ r.end \in Int
  BY <1>2, RecordAssumption, SentinelAssumption
<1>4. r.start < r.end
  BY <1>1 DEF NonEmpty, Spoken
<1>5. (a < r.end /\ b > r.start) <=> \E x \in a..(b - 1) : r.start <= x /\ x < r.end
  BY <1>3, <1>4, SharedInstant
<1> QED
  BY <1>1, <1>5 DEF Overlaps, Covers, Spoken

LEMMA FlatIsTrue ==
  ASSUME FlatInv, NonEmpty(Put), NEW a \in Int, NEW b \in Int, a < b
  PROVE  FlatHits(a, b) \subseteq Overlapping(Put, a, b)
<1> SUFFICES ASSUME NEW k \in DOMAIN flat, Overlaps(flat[k], a, b)
             PROVE  flat[k].ref \in Overlapping(Put, a, b)
  BY DEF FlatHits
<1>1. put \in Seq(Records) /\ flat[k] \in ToSet(put)
  BY DEF FlatInv, ToSet
<1>2. Spoken(flat[k]) \in Put /\ \E x \in a..(b - 1) : Covers(Spoken(flat[k]), x)
  BY <1>1, OverlapsIs
<1>3. Spoken(flat[k]).who = flat[k].ref
  BY DEF Spoken
<1> QED
  BY <1>2, <1>3 DEF Overlapping

LEMMA FlatIsExact ==
  ASSUME FlatInv, NonEmpty(Put), Len(put) <= Cap, NEW a \in Int, NEW b \in Int, a < b,
         Cardinality({k \in DOMAIN put : Overlaps(put[k], a, b)}) <= MaxOut
  PROVE  FlatHits(a, b) = Overlapping(Put, a, b)
<1> DEFINE H == {k \in DOMAIN put : Overlaps(put[k], a, b)}
<1>1. /\ put \in Seq(Records) /\ flat = put
      /\ Len(put) \in Nat /\ DOMAIN put = 1..Len(put) /\ MaxOut \in Nat
  BY RecordAssumption DEF FlatInv
<1>2. IsFiniteSet(H) /\ Cardinality(H) \in Nat
  <2>1. H \in SUBSET (1..Len(put)) /\ IsFiniteSet(1..Len(put))
    BY <1>1, FirstNaturals
  <2> HIDE DEF H
  <2> QED
    BY <2>1, FS_Subset, FS_CardinalityType
<1>3. ASSUME NEW k \in H PROVE Cardinality({i \in H : i <= k}) <= MaxOut
  <2> DEFINE C == {i \in H : i <= k}
  <2>1. C \in SUBSET H
    OBVIOUS
  <2>2. Cardinality(H) <= MaxOut
    OBVIOUS
  <2> HIDE DEF H, C
  <2>3. IsFiniteSet(C) /\ Cardinality(C) <= Cardinality(H)
    BY <1>2, <2>1, FS_Subset
  <2>4. Cardinality(C) \in Nat
    BY <2>3, FS_CardinalityType
  <2>5. Cardinality(C) <= MaxOut
    BY <1>1, <1>2, <2>2, <2>3, <2>4
  <2> QED
    BY <2>5 DEF C
<1>4. {h \in H : Cardinality({i \in H : i <= h}) <= MaxOut} = H
  BY <1>3
<1>5. FlatHits(a, b) = {put[k].ref : k \in H}
  BY <1>1, <1>4 DEF FlatHits
<1>6. ASSUME NEW t \in Put, NEW x \in a..(b - 1), Covers(t, x)
      PROVE  t.who \in {put[k].ref : k \in H}
  <2>1. PICK k \in DOMAIN put : t = Spoken(put[k])
    BY DEF Put, Spoken, ToSet
  <2>2. put[k] \in ToSet(put)
    BY DEF ToSet
  <2>3. Overlaps(put[k], a, b)
    BY <1>1, <1>6, <2>1, <2>2, OverlapsIs
  <2>4. k \in H /\ t.who = put[k].ref
    BY <2>1, <2>3 DEF Spoken
  <2> QED
    BY <2>4
<1>7. Overlapping(Put, a, b) \subseteq FlatHits(a, b)
  BY <1>5, <1>6 DEF Overlapping
<1> QED
  BY <1>7, FlatIsTrue

\* For any number of timelines, records and windows: a query finds who was recorded
\* to be there, since the last clear() at least, and nobody else, and never kills
\* the process, natively whenever the records are sound, with other timelines on
\* the same file too; in the fallback it finds nobody else when no record is empty,
\* and everybody when there was room.
THEOREM NpmHitsAreExact == NSpec => []HitsAreExact
<1>1. XInv => HitsAreExact
  <2> SUFFICES ASSUME XInv, NEW o \in Openers, NEW w \in Windows
               PROVE  /\ IsLive(o) /\ Sound(said[o]) =>
                           /\ ~ QueryFaults(store[jd[o]].ti, w[1], w[2])
                           /\ NativeHits(o, w[1], w[2])
                                \subseteq Overlapping(ToSet(said[o]), w[1], w[2])
                           /\ Overlapping(Since(o), w[1], w[2])
                                \subseteq NativeHits(o, w[1], w[2])
                      /\ NonEmpty(Put) =>
                           /\ FlatHits(w[1], w[2]) \subseteq Overlapping(Put, w[1], w[2])
                           /\ /\ Len(put) <= Cap
                              /\ Cardinality({k \in DOMAIN put :
                                                Overlaps(put[k], w[1], w[2])}) <= MaxOut
                              => FlatHits(w[1], w[2]) = Overlapping(Put, w[1], w[2])
    BY DEF HitsAreExact
  <2>1. w[1] \in Int /\ w[2] \in Int /\ w[1] < w[2]
    BY RangeAssumption DEF Windows
  <2>2. ASSUME IsLive(o), Sound(said[o])
        PROVE  /\ ~ QueryFaults(store[jd[o]].ti, w[1], w[2])
               /\ NativeHits(o, w[1], w[2])
                    \subseteq Overlapping(ToSet(said[o]), w[1], w[2])
               /\ Overlapping(Since(o), w[1], w[2]) \subseteq NativeHits(o, w[1], w[2])
    <3> DEFINE S == store[jd[o]].ti
    <3>1. obj[o] = "native"
      BY <2>2 DEF IsLive
    <3>2. S = ToSet(said[o])
      BY <2>2, <3>1 DEF XInv, TellsTrue
    <3>3. S \subseteq Interval
      BY <3>1, NativeStore DEF XInv
    <3>4. Apart(S) /\ NonEmpty(S)
      BY <2>2, <3>2 DEF Sound
    <3> HIDE DEF S
    <3>5. ~ QueryFaults(S, w[1], w[2])
          /\ UNION {s.ids : s \in ToSet(Query(S, w[1], w[2]))} = Overlapping(S, w[1], w[2])
      BY <2>1, <3>3, <3>4, NativeIsExact
    <3>6. NativeHits(o, w[1], w[2]) = Overlapping(S, w[1], w[2])
      BY <3>5 DEF NativeHits, S
    <3>7. Since(o) \subseteq S
      BY <3>2 DEF Since, ToSet
    <3>8. Overlapping(Since(o), w[1], w[2]) \subseteq Overlapping(S, w[1], w[2])
      BY <3>7 DEF Overlapping
    <3> QED
      BY <3>2, <3>5, <3>6, <3>8 DEF S
  <2>3. FlatInv
    BY DEF XInv
  <2> QED
    BY <2>1, <2>2, <2>3, FlatIsTrue, FlatIsExact
<1> QED
  BY <1>1, XInvariant, PTL
=============================================================================
