---------------------------- MODULE IndexesProofs ---------------------------
(***************************************************************************)
(* Theorems about Indexes: whatever duplicates and stubs the library leaves*)
(* in them, the two indexes tell of the same intervals as the primary map, *)
(* and calls of several steps on three maps implement those of Timeline.   *)
(***************************************************************************)
EXTENDS Indexes, TLAPS

\* An index whose entries with a value are those of the set S.
Follows(ix, S) ==
  /\ ix \in [Interval -> Entry]
  /\ \A t \in Interval : t \in S <=> ix[t].live > 0

\* In the middle of joint_stop the primary map lacks the interval that is put
\* next ...
Stopping ==
  doing.op = "stop" =>
    /\ doing.ts \in MInf..Inf /\ doing.id \in Ids
    /\ Accepted(doing.ts, doing.id)
    /\ Present(done, doing.ts, doing.id)
    /\ \E o \in OpenOf(done, doing.id) :
         prim = done \ {o} /\ doing.put = Close(o, doing.ts)

\* ... and in the middle of joint_erase it lacks intervals of the entity, of
\* which todo has all that are left.
Erasing ==
  doing.op = "erase" =>
    /\ doing.id \in Ids \ {NoId}
    /\ prim \subseteq done
    /\ \A t \in done \ prim : t.who = doing.id
    /\ \A t \in Interval : todo[t] > 0 => t.who = doing.id
    /\ \A t \in prim : t.who = doing.id => todo[t] > 0

Between == doing.op = "none" => done = prim

JInv ==
  /\ prim \subseteq Interval /\ done \subseteq Interval
  /\ Follows(byMax, prim) /\ Follows(byId, prim)
  /\ todo \in [Interval -> Nat]
  /\ doing.op # "erase" => todo = Nothing
  /\ doing = Idle \/ doing.op \in {"stop", "erase"}
  /\ Between /\ Stopping /\ Erasing

-----------------------------------------------------------------------------
(* The maps.                                                               *)

LEMMA IdleIs == Idle.op = "none"
BY DEF Idle

LEMMA FilledFollows ==
  ASSUME NEW S PROVE Follows(Filled(S), S)
<1>1. \A t \in Interval :
        /\ Filled(S)[t].live = IF t \in S THEN 1 ELSE 0
        /\ Filled(S)[t] \in Entry
  BY DEF Filled, Entry
<1>2. Filled(S) \in [Interval -> Entry]
  BY <1>1 DEF Filled
<1> QED
  BY <1>1, <1>2 DEF Follows

LEMMA IndexedFollows ==
  ASSUME NEW S, NEW t \in Interval, NEW ix, Follows(ix, S), NEW ix2 \in Indexed(ix, t)
  PROVE  Follows(ix2, S \cup {t})
<1> DEFINE all == ix[t].live + ix[t].stubs
<1>1. ix \in [Interval -> Entry] /\ ix[t].live \in Nat /\ ix[t].stubs \in Nat
  BY DEF Follows, Entry
<1>2. PICK e \in [live : 1..(all + 1), stubs : 0..all] : ix2 = [ix EXCEPT ![t] = e]
  BY DEF Indexed
<1>3. e \in Entry /\ e.live > 0
  BY <1>1, <1>2 DEF Entry
<1> QED
  BY <1>1, <1>2, <1>3 DEF Follows

LEMMA DroppedFollows ==
  ASSUME NEW S, NEW t \in Interval, NEW ix, Follows(ix, S), t \in S,
         NEW ix2 \in Dropped(ix, t)
  PROVE  Follows(ix2, S \ {t})
<1>1. ix \in [Interval -> Entry] /\ ix[t].live \in Nat /\ ix[t].stubs \in Nat
  BY DEF Follows, Entry
<1>2. PICK n \in 0..(ix[t].live + ix[t].stubs - 1) :
        ix2 = [ix EXCEPT ![t] = [live |-> 0, stubs |-> n]]
  BY DEF Dropped
<1> DEFINE e == [live |-> 0, stubs |-> n]
<1>3. e \in Entry /\ e.live = 0
  BY <1>1, <1>2 DEF Entry
<1> HIDE DEF e
<1>4. ix2 = [ix EXCEPT ![t] = e]
  BY <1>2 DEF e
<1> QED
  BY <1>1, <1>3, <1>4 DEF Follows

LEMMA PutKeeps ==
  ASSUME JInv, NEW t \in Interval, Put(t)
  PROVE  /\ prim' = prim \cup {t} /\ prim' \subseteq Interval
         /\ Follows(byMax', prim') /\ Follows(byId', prim')
BY IndexedFollows DEF JInv, Put

LEMMA DelKeeps ==
  ASSUME JInv, NEW t \in Interval, Del(t)
  PROVE  /\ prim' = prim \ {t} /\ prim' \subseteq Interval
         /\ Follows(byMax', prim') /\ Follows(byId', prim')
<1>1. CASE t \in prim /\ prim' = prim \ {t}
           /\ byMax' \in Dropped(byMax, t) /\ byId' \in Dropped(byId, t)
  BY <1>1, DroppedFollows DEF JInv
<1>2. CASE t \notin prim /\ UNCHANGED maps
  BY <1>2 DEF JInv, maps
<1> QED
  BY <1>1, <1>2 DEF Del

\* What the id index tells is what a call of Timeline looks at.
LEMMA ChainIs ==
  ASSUME JInv, doing = Idle, NEW id
  PROVE  /\ Chain(id) = OwnedBy(done, id)
         /\ \A ts : Seen(ts, id) <=> Present(done, ts, id)
         /\ OpenOf(Chain(id), id) = OpenOf(done, id)
<1>1. done = prim
  BY IdleIs DEF JInv, Between
<1>2. Chain(id) = OwnedBy(done, id)
  BY <1>1 DEF Chain, OwnedBy, JInv, Follows
<1> QED
  BY <1>2 DEF Seen, Present, OpenOf, OwnedBy

-----------------------------------------------------------------------------
(* Each step keeps the invariant, and is a step of Timeline or none.       *)

\* A call that returns, and a call that Timeline has taken so far for none.
Promise == [T!Next]_<<done, reply>>

\* Timeline's operators are those of this module.
LEMMA SameCalls ==
  ASSUME NEW S, NEW ts, NEW id, NEW to
  PROVE  /\ T!Accepted(ts, id) <=> Accepted(ts, id)
         /\ T!Present(S, ts, id) <=> Present(S, ts, id)
         /\ T!Insert(S, id, ts, to) = Insert(S, id, ts, to)
         /\ T!OwnedBy(S, id) = OwnedBy(S, id)
         /\ T!FinishLast(S, id, ts) = FinishLast(S, id, ts)
<1>1. T!OwnedBy(S, id) = OwnedBy(S, id) /\ T!OpenOf(S, id) = OpenOf(S, id)
  BY DEF T!OwnedBy, OwnedBy, T!OpenOf, OpenOf
<1>2. \A o : T!Close(o, ts) = Close(o, ts) /\ (T!Covers(o, ts) <=> Covers(o, ts))
  BY DEF T!Close, Close, T!Covers, Covers
<1>3. T!FinishLast(S, id, ts) = FinishLast(S, id, ts)
  BY <1>1, <1>2 DEF T!FinishLast, FinishLast
<1> QED
  BY <1>1, <1>2, <1>3 DEF T!Accepted, Accepted, T!Present, Present, T!Insert, Insert

\* When a call returns nothing is in progress.
LEMMA ReturnKeeps ==
  ASSUME JInv, prim' \subseteq Interval, Follows(byMax', prim'), Follows(byId', prim'),
         todo' = Nothing, NEW op, NEW ts, NEW id, NEW ret, Return(op, ts, id, ret)
  PROVE  JInv'
<1>1. doing' = Idle /\ done' = prim'
  BY DEF Return
<1>2. todo' \in [Interval -> Nat]
  BY DEF Nothing
<1> QED
  BY <1>1, <1>2, IdleIs DEF JInv, Between, Stopping, Erasing

LEMMA IdleTodo == JInv /\ doing = Idle => todo = Nothing /\ done = prim
BY IdleIs DEF JInv, Between

LEMMA NewIntervals ==
  ASSUME NEW ts \in MInf..Inf, NEW id \in Ids
  PROVE  /\ [min |-> ts, max |-> Inf, who |-> id] \in Interval
         /\ [min |-> MInf, max |-> ts, who |-> id] \in Interval
BY SentinelAssumption DEF Interval

LEMMA UnchangedMaps ==
  ASSUME JInv, UNCHANGED maps
  PROVE  /\ prim' = prim /\ prim' \subseteq Interval
         /\ Follows(byMax', prim') /\ Follows(byId', prim')
BY DEF JInv, maps

LEMMA JointStartKeeps ==
  ASSUME JInv, NEW ts \in MInf..Inf, NEW id \in Ids, JointStart(ts, id)
  PROVE  JInv' /\ Promise
<1>1. doing = Idle /\ todo' = todo /\ todo = Nothing /\ done = prim
  BY IdleTodo DEF JointStart
<1>2. Seen(ts, id) <=> Present(done, ts, id)
  BY <1>1, ChainIs
<1>3. ASSUME NEW ret, UNCHANGED maps, Return("start", ts, id, ret),
             \/ ret = -1 /\ ~ Accepted(ts, id)
             \/ ret = 1 /\ Accepted(ts, id) /\ Present(done, ts, id)
      PROVE  JInv' /\ Promise
  <2>1. JInv'
    BY <1>1, <1>3, UnchangedMaps, ReturnKeeps
  <2>2. done' = done /\ reply' = [op |-> "start", ts |-> ts, id |-> id, ret |-> ret]
    BY <1>1, <1>3, UnchangedMaps DEF Return
  <2>3. T!Start(ts, id)
    BY <1>3, <2>2, SameCalls DEF T!Start, T!Reply
  <2> QED
    BY <2>1, <2>3 DEF Promise, T!Next
<1>4. ASSUME Accepted(ts, id), ~ Present(done, ts, id),
             Put([min |-> ts, max |-> Inf, who |-> id]), Return("start", ts, id, 0)
      PROVE  JInv' /\ Promise
  <2>1. /\ prim' = prim \cup {[min |-> ts, max |-> Inf, who |-> id]}
        /\ prim' \subseteq Interval
        /\ Follows(byMax', prim') /\ Follows(byId', prim')
    BY <1>4, NewIntervals, PutKeeps
  <2>2. JInv'
    BY <1>1, <1>4, <2>1, ReturnKeeps
  <2>3. done' = Insert(done, id, ts, Inf)
        /\ reply' = [op |-> "start", ts |-> ts, id |-> id, ret |-> 0]
    BY <1>1, <1>4, <2>1 DEF Return, Insert
  <2>4. T!Start(ts, id)
    BY <1>4, <2>3, SameCalls DEF T!Start, T!Reply
  <2> QED
    BY <2>2, <2>4 DEF Promise, T!Next
<1> QED
  BY <1>2, <1>3, <1>4 DEF JointStart

LEMMA JointStopKeeps ==
  ASSUME JInv, NEW ts \in MInf..Inf, NEW id \in Ids, JointStop(ts, id)
  PROVE  JInv' /\ Promise
<1>1. doing = Idle /\ todo' = todo /\ todo = Nothing /\ done = prim
  BY IdleTodo DEF JointStop
<1>2. (Seen(ts, id) <=> Present(done, ts, id)) /\ OpenOf(Chain(id), id) = OpenOf(done, id)
  BY <1>1, ChainIs
<1>3. ASSUME NEW ret, UNCHANGED maps, Return("stop", ts, id, ret),
             \/ ret = -1 /\ ~ Accepted(ts, id)
             \/ /\ ret = 0 /\ Accepted(ts, id) /\ Present(done, ts, id)
                /\ OpenOf(done, id) = {}
      PROVE  JInv' /\ Promise
  <2>1. JInv'
    BY <1>1, <1>3, UnchangedMaps, ReturnKeeps
  <2>2. done' = done /\ reply' = [op |-> "stop", ts |-> ts, id |-> id, ret |-> ret]
    BY <1>1, <1>3, UnchangedMaps DEF Return
  <2>3. T!Stop(ts, id)
    BY <1>3, <2>2, SameCalls DEF T!Stop, T!Reply, FinishLast
  <2> QED
    BY <2>1, <2>3 DEF Promise, T!Next
<1>4. ASSUME Accepted(ts, id), ~ Present(done, ts, id),
             Put([min |-> MInf, max |-> ts, who |-> id]), Return("stop", ts, id, 1)
      PROVE  JInv' /\ Promise
  <2>1. /\ prim' = prim \cup {[min |-> MInf, max |-> ts, who |-> id]}
        /\ prim' \subseteq Interval
        /\ Follows(byMax', prim') /\ Follows(byId', prim')
    BY <1>4, NewIntervals, PutKeeps
  <2>2. JInv'
    BY <1>1, <1>4, <2>1, ReturnKeeps
  <2>3. done' = Insert(done, id, MInf, ts)
        /\ reply' = [op |-> "stop", ts |-> ts, id |-> id, ret |-> 1]
    BY <1>1, <1>4, <2>1 DEF Return, Insert
  <2>4. T!Stop(ts, id)
    BY <1>4, <2>3, SameCalls DEF T!Stop, T!Reply
  <2> QED
    BY <2>2, <2>4 DEF Promise, T!Next
<1> QED
  BY <1>2, <1>3, <1>4 DEF JointStop

LEMMA FinishDelKeeps ==
  ASSUME JInv, NEW ts \in MInf..Inf, NEW id \in Ids, FinishDel(ts, id)
  PROVE  JInv' /\ Promise
<1>1. doing = Idle /\ todo = Nothing /\ done = prim
  BY IdleTodo DEF FinishDel
<1>2. Accepted(ts, id) /\ Present(done, ts, id) /\ UNCHANGED <<todo, done, reply>>
  BY <1>1, ChainIs DEF FinishDel
<1>3. PICK o \in OpenOf(done, id) :
        Del(o) /\ doing' = [op |-> "stop", ts |-> ts, id |-> id, put |-> Close(o, ts)]
  BY <1>1, ChainIs DEF FinishDel
<1>4. o \in Interval
  BY DEF OpenOf, OwnedBy, JInv
<1>5. /\ prim' = prim \ {o} /\ prim' \subseteq Interval
      /\ Follows(byMax', prim') /\ Follows(byId', prim')
  BY <1>3, <1>4, DelKeeps
<1>6. /\ doing'.op = "stop" /\ doing'.ts = ts /\ doing'.id = id
      /\ doing'.put = Close(o, ts)
  BY <1>3
<1>7. Stopping'
  BY <1>1, <1>2, <1>5, <1>6 DEF Stopping
<1>8. Between' /\ Erasing'
  BY <1>6 DEF Between, Erasing
<1>9. JInv'
  BY <1>1, <1>2, <1>5, <1>6, <1>7, <1>8 DEF JInv
<1> QED
  BY <1>2, <1>9 DEF Promise

LEMMA FinishPutKeeps ==
  ASSUME JInv, FinishPut
  PROVE  JInv' /\ Promise
<1> DEFINE ts == doing.ts
           id == doing.id
<1>1. /\ doing.op = "stop" /\ Put(doing.put) /\ Return("stop", ts, id, 0)
      /\ todo' = todo /\ todo = Nothing
  BY DEF FinishPut, JInv
<1>2. /\ ts \in MInf..Inf /\ id \in Ids /\ Accepted(ts, id) /\ Present(done, ts, id)
      /\ \E o \in OpenOf(done, id) : prim = done \ {o} /\ doing.put = Close(o, ts)
  BY <1>1 DEF JInv, Stopping
<1>3. PICK o \in OpenOf(done, id) : prim = done \ {o} /\ doing.put = Close(o, ts)
  BY <1>2
<1>4. o \in Interval
  BY DEF OpenOf, OwnedBy, JInv
<1>5. doing.put \in Interval
  BY <1>2, <1>3, <1>4 DEF Interval, Close
<1>6. /\ prim' = prim \cup {doing.put} /\ prim' \subseteq Interval
      /\ Follows(byMax', prim') /\ Follows(byId', prim')
  BY <1>1, <1>5, PutKeeps
<1>7. JInv'
  BY <1>1, <1>6, ReturnKeeps
<1>8. done' = (done \ {o}) \cup {Close(o, ts)}
      /\ reply' = [op |-> "stop", ts |-> ts, id |-> id, ret |-> 0]
  BY <1>1, <1>3, <1>6 DEF Return
<1> HIDE DEF ts, id
<1>9. done' \in FinishLast(done, id, ts)
  BY <1>8 DEF FinishLast
<1>10. T!Stop(ts, id)
  BY <1>2, <1>8, <1>9, SameCalls DEF T!Stop, T!Reply
<1> QED
  BY <1>2, <1>7, <1>10 DEF Promise, T!Next

LEMMA EraseNobodyKeeps ==
  ASSUME JInv, NEW id \in Ids, EraseNobody(id)
  PROVE  JInv' /\ Promise
<1>1. doing = Idle /\ todo = Nothing /\ done = prim /\ UNCHANGED <<maps, todo>>
  BY IdleTodo DEF EraseNobody
<1>2. ASSUME NEW ret, Return("erase", MInf, id, ret),
             \/ id = NoId /\ ret = -1
             \/ id # NoId /\ ret = 0 /\ OwnedBy(done, id) = {}
      PROVE  JInv' /\ Promise
  <2>1. JInv'
    BY <1>1, <1>2, UnchangedMaps, ReturnKeeps
  <2>2. done' = done /\ reply' = [op |-> "erase", ts |-> MInf, id |-> id, ret |-> ret]
    BY <1>1, <1>2, UnchangedMaps DEF Return
  <2>3. T!Erase(id)
    BY <1>2, <2>2, SameCalls DEF T!Erase, T!Reply
  <2> QED
    BY <2>1, <2>3 DEF Promise, T!Next
<1>3. ASSUME \A t \in Interval : t.who = id => byId[t].live + byId[t].stubs = 0
      PROVE  OwnedBy(done, id) = {}
  <2>1. \A t \in Interval : byId[t].live \in Nat /\ byId[t].stubs \in Nat
    BY DEF JInv, Follows, Entry
  <2> QED
    BY <1>1, <1>3, <2>1 DEF OwnedBy, JInv, Follows
<1> QED
  BY <1>2, <1>3 DEF EraseNobody

LEMMA EraseCollectKeeps ==
  ASSUME JInv, NEW id \in Ids, EraseCollect(id)
  PROVE  JInv' /\ Promise
<1>1. /\ doing = Idle /\ done = prim /\ id # NoId
      /\ todo' = Yielded(id) /\ doing' = [op |-> "erase", id |-> id]
      /\ UNCHANGED <<maps, done, reply>>
  BY IdleTodo DEF EraseCollect
<1>2. doing'.op = "erase" /\ doing'.id = id
  BY <1>1
<1>3. /\ todo' \in [Interval -> Nat]
      /\ \A t \in Interval : todo'[t] = IF t.who = id THEN byId[t].live ELSE 0
  <2>1. \A t \in Interval : byId[t].live \in Nat
    BY DEF JInv, Follows, Entry
  <2> QED
    BY <1>1, <2>1 DEF Yielded
<1>4. /\ prim' = prim /\ prim' \subseteq Interval
      /\ Follows(byMax', prim') /\ Follows(byId', prim')
  BY <1>1, UnchangedMaps
<1>5. \A t \in prim : t \in Interval /\ byId[t].live > 0
  BY DEF JInv, Follows
<1>6. Erasing'
  BY <1>1, <1>2, <1>3, <1>4, <1>5 DEF Erasing
<1>7. Between' /\ Stopping'
  BY <1>2 DEF Between, Stopping
<1>8. JInv'
  BY <1>1, <1>2, <1>3, <1>4, <1>6, <1>7 DEF JInv
<1> QED
  BY <1>1, <1>8 DEF Promise

LEMMA EraseDelKeeps ==
  ASSUME JInv, NEW t \in Interval, EraseDel(t)
  PROVE  JInv' /\ Promise
<1>1. /\ doing.op = "erase" /\ todo[t] > 0 /\ Del(t)
      /\ todo' = [todo EXCEPT ![t] = @ - 1] /\ UNCHANGED <<doing, done, reply>>
  BY DEF EraseDel
<1>2. /\ prim' = prim \ {t} /\ prim' \subseteq Interval
      /\ Follows(byMax', prim') /\ Follows(byId', prim')
  BY <1>1, DelKeeps
<1>3. /\ todo' \in [Interval -> Nat]
      /\ \A u \in Interval : u # t => todo'[u] = todo[u]
  BY <1>1 DEF JInv
<1>4. Erasing'
  BY <1>1, <1>2, <1>3 DEF JInv, Erasing
<1>5. Between' /\ Stopping'
  BY <1>1 DEF Between, Stopping
<1>6. JInv'
  BY <1>1, <1>2, <1>3, <1>4, <1>5 DEF JInv
<1> QED
  BY <1>1, <1>6 DEF Promise

LEMMA EraseMopKeeps ==
  ASSUME JInv, EraseMop
  PROVE  JInv' /\ Promise
<1> DEFINE id == doing.id
<1>1. /\ doing.op = "erase" /\ todo = Nothing /\ byId' = Mopped(id)
      /\ UNCHANGED <<prim, byMax, todo>>
      /\ Return("erase", MInf, id, 0)
  BY DEF EraseMop
<1>2. /\ id \in Ids \ {NoId} /\ prim \subseteq done
      /\ \A t \in done \ prim : t.who = id
      /\ \A t \in prim : t.who = id => todo[t] > 0
  BY <1>1 DEF JInv, Erasing
<1>3. prim \subseteq Interval /\ Follows(byMax, prim) /\ Follows(byId, prim)
  BY DEF JInv
<1>4. \A t \in prim : t.who # id
  BY <1>1, <1>2, <1>3 DEF Nothing
<1>5. Follows(byId', prim')
  <2>1. \A t \in Interval :
          byId'[t] = IF t.who = id THEN [live |-> 0, stubs |-> 0] ELSE byId[t]
    BY <1>1 DEF Mopped
  <2>2. byId' \in [Interval -> Entry]
    BY <1>1, <1>3 DEF Mopped, Follows, Entry
  <2> QED
    BY <1>1, <1>3, <1>4, <2>1, <2>2 DEF Follows
<1>6. JInv'
  BY <1>1, <1>3, <1>5, ReturnKeeps
<1>7. done' = done \ OwnedBy(done, id)
      /\ reply' = [op |-> "erase", ts |-> MInf, id |-> id, ret |-> 0]
  BY <1>1, <1>2, <1>4 DEF Return, OwnedBy
<1> HIDE DEF id
<1>8. T!Erase(id)
  BY <1>2, <1>7, SameCalls DEF T!Erase, T!Reply
<1> QED
  BY <1>2, <1>6, <1>8 DEF Promise, T!Next

LEMMA ReopenKeeps ==
  ASSUME JInv, Reopen
  PROVE  JInv' /\ Promise
<1>1. /\ doing = Idle /\ byMax' = Filled(prim) /\ byId' = Filled(prim)
      /\ UNCHANGED <<prim, doing, todo, done, reply>>
  BY DEF Reopen
<1>2. Follows(byMax', prim') /\ Follows(byId', prim')
  BY <1>1, FilledFollows
<1> QED
  BY <1>1, <1>2, IdleIs DEF JInv, Between, Stopping, Erasing, Promise

LEMMA JInvInit == IInit => JInv /\ T!Init
<1> SUFFICES ASSUME IInit PROVE JInv /\ T!Init
  OBVIOUS
<1>1. Follows(byMax, prim) /\ Follows(byId, prim)
  BY FilledFollows DEF IInit
<1> QED
  BY <1>1, IdleIs DEF IInit, JInv, Between, Stopping, Erasing, Nothing, T!Init

LEMMA JInvStep == JInv /\ [INext]_ivars => JInv' /\ Promise
<1> SUFFICES ASSUME JInv, [INext]_ivars PROVE JInv' /\ Promise
  OBVIOUS
<1>1. CASE UNCHANGED ivars
  BY <1>1 DEF ivars, JInv, Between, Stopping, Erasing, Promise
<1> QED
  BY <1>1, JointStartKeeps, JointStopKeeps, FinishDelKeeps, FinishPutKeeps, EraseNobodyKeeps,
     EraseCollectKeeps, EraseDelKeeps, EraseMopKeeps, ReopenKeeps DEF INext

LEMMA JInvariant == ISpec => []JInv
BY JInvInit, JInvStep, PTL DEF ISpec

-----------------------------------------------------------------------------

\* Type correctness, between the steps of a call as well.
THEOREM ITypeCorrect == ISpec => []ITypeOK
<1>1. JInv => ITypeOK
  <2> SUFFICES ASSUME JInv PROVE ITypeOK
    OBVIOUS
  <2>1. CASE doing.op = "stop"
    <3>1. PICK o \in OpenOf(done, doing.id) :
            doing.put = Close(o, doing.ts) /\ doing.ts \in MInf..Inf
            /\ Accepted(doing.ts, doing.id)
      BY <2>1 DEF JInv, Stopping
    <3>2. o \in Interval /\ o.who = doing.id
      BY DEF OpenOf, OwnedBy, JInv
    <3>3. doing.put \in Interval /\ doing.put.who = doing.id
      BY <3>1, <3>2 DEF Interval, Close
    <3> QED
      BY <2>1, <3>1, <3>3 DEF JInv, ITypeOK, Follows
  <2>2. CASE doing.op = "erase"
    BY <2>2 DEF JInv, ITypeOK, Follows, Erasing
  <2>3. CASE doing = Idle
    BY <2>3, IdleIs DEF JInv, ITypeOK, Follows
  <2> QED
    BY <2>1, <2>2, <2>3 DEF JInv
<1> QED
  BY <1>1, JInvariant, PTL

\* Whatever the library leaves in the indexes, and in the middle of a call: the
\* query, which reads one index, the calls, which read the other, and the file,
\* which gets the primary map, never differ in an interval.
THEOREM ReadersAlwaysAgree == ISpec => []ReadersAgree
<1>1. JInv => ReadersAgree
  BY DEF JInv, Follows, ReadersAgree
<1> QED
  BY <1>1, JInvariant, PTL

\* For every set of entities and every order of calls, those that find duplicates
\* and stubs included: what a call does to the three maps, step by step, is what
\* the call of Timeline does to its set, and it gives the same reply.
THEOREM IndexesImplementTimeline == ISpec => ImplementsTimeline
<1>1. JInv /\ [INext]_ivars => [T!Next]_<<done, reply>>
  BY JInvStep DEF Promise
<1>2. QED
  BY <1>1, JInvInit, JInvariant, PTL DEF ISpec, ImplementsTimeline, T!Spec, T!vars
=============================================================================
