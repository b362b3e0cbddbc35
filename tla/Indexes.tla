------------------------------ MODULE Indexes -------------------------------
(***************************************************************************)
(* The maps behind one handle of src/libjoint.c, and the steps joint_start,*)
(* joint_stop and joint_erase take on them.  The primary map is keyed by   *)
(* the whole struct ti.  Two indexes follow it through corm_assoc: `max`,  *)
(* which joint_iter reads, and `id`, through which each call finds the     *)
(* intervals of its entity.                                                *)
(*                                                                         *)
(* The indexes take duplicates, and libjoint.c says what of: a put of a    *)
(* key that is there "replaces the primary key while the id index keeps    *)
(* CM_MULTIVALUE dups" (:959), of which some are stubs without a value     *)
(* (:909, :942).  How many copies of an interval an index keeps, and which *)
(* of them are stubs, is the library's affair.  What is assumed of it is   *)
(* in Indexed and Dropped.                                                 *)
(*                                                                         *)
(* Whatever it leaves behind, the calls do what module Timeline says.      *)
(***************************************************************************)
EXTENDS Calls

VARIABLES
  prim,      \* ti, the primary map
  byMax,     \* max and id: how many entries of an interval have a value, and
  byId,      \* how many are stubs
  doing,     \* the call in progress
  todo,      \* joint_erase: the intervals in tis, and how often
  done,      \* what the primary map held when the last call returned
  reply      \* the last call that returned, with its arguments and reply

maps  == <<prim, byMax, byId>>
ivars == <<prim, byMax, byId, doing, todo, done, reply>>

Idle    == [op |-> "none"]
Nothing == [t \in Interval |-> 0]

Entry == [live : Nat, stubs : Nat]

-----------------------------------------------------------------------------
(* corm.                                                                   *)

\* corm_assoc fills an index from the primary map.
Filled(S) == [t \in Interval |-> [live |-> IF t \in S THEN 1 ELSE 0, stubs |-> 0]]

\* A put adds an entry, or none where the interval has one, and leaves one with
\* the value at least.
Indexed(ix, t) ==
  LET all == ix[t].live + ix[t].stubs
      kept == {e \in [live : 1..(all + 1), stubs : 0..all] : e.live + e.stubs \in {all, all + 1}}
  IN {[ix EXCEPT ![t] = e] : e \in kept}

\* A del takes an entry, or more, and what it leaves are stubs.
Dropped(ix, t) ==
  {[ix EXCEPT ![t] = [live |-> 0, stubs |-> n]] : n \in 0..(ix[t].live + ix[t].stubs - 1)}

Put(t) ==
  /\ prim' = prim \cup {t}
  /\ byMax' \in Indexed(byMax, t)
  /\ byId' \in Indexed(byId, t)

Del(t) ==
  \/ /\ t \in prim
     /\ prim' = prim \ {t}
     /\ byMax' \in Dropped(byMax, t)
     /\ byId' \in Dropped(byId, t)
  \/ t \notin prim /\ UNCHANGED maps

\* What corm_get_multi yields of an entity, stubs passed over.
Chain(id) == {t \in Interval : t.who = id /\ byId[t].live > 0}

-----------------------------------------------------------------------------

IInit ==
  /\ prim = {}
  /\ byMax = Filled({})
  /\ byId = Filled({})
  /\ doing = Idle
  /\ todo = Nothing
  /\ done = {}
  /\ reply = [op |-> "none", ts |-> MInf, id |-> NoId, ret |-> 0]

Return(op, ts, id, ret) ==
  /\ doing' = Idle
  /\ done' = prim'
  /\ reply' = [op |-> op, ts |-> ts, id |-> id, ret |-> ret]

\* ti_present
Seen(ts, id) == \E t \in Chain(id) : Covers(t, ts)

JointStart(ts, id) ==
  /\ doing = Idle
  /\ \/ ~ Accepted(ts, id) /\ UNCHANGED maps /\ Return("start", ts, id, -1)
     \/ /\ Accepted(ts, id) /\ Seen(ts, id)
        /\ UNCHANGED maps
        /\ Return("start", ts, id, 1)
     \/ /\ Accepted(ts, id) /\ ~ Seen(ts, id)
        /\ Put([min |-> ts, max |-> Inf, who |-> id])
        /\ Return("start", ts, id, 0)
  /\ todo' = todo

\* joint_stop without ti_finish_last, or with one that finds no open interval.
JointStop(ts, id) ==
  /\ doing = Idle
  /\ \/ ~ Accepted(ts, id) /\ UNCHANGED maps /\ Return("stop", ts, id, -1)
     \/ /\ Accepted(ts, id) /\ ~ Seen(ts, id)
        /\ Put([min |-> MInf, max |-> ts, who |-> id])
        /\ Return("stop", ts, id, 1)
     \/ /\ Accepted(ts, id) /\ Seen(ts, id)
        /\ OpenOf(Chain(id), id) = {}
        /\ UNCHANGED maps
        /\ Return("stop", ts, id, 0)
  /\ todo' = todo

\* ti_finish_last deletes the first open interval of the chain ...
FinishDel(ts, id) ==
  /\ doing = Idle
  /\ Accepted(ts, id) /\ Seen(ts, id)
  /\ \E o \in OpenOf(Chain(id), id) :
       /\ Del(o)
       /\ doing' = [op |-> "stop", ts |-> ts, id |-> id, put |-> Close(o, ts)]
  /\ UNCHANGED <<todo, done, reply>>

\* ... and puts the closed one.
FinishPut ==
  /\ doing.op = "stop"
  /\ Put(doing.put)
  /\ Return("stop", doing.ts, doing.id, 0)
  /\ todo' = todo

\* joint_erase of the reserved id, or of one without entries.
EraseNobody(id) ==
  /\ doing = Idle
  /\ UNCHANGED <<maps, todo>>
  /\ \/ id = NoId /\ Return("erase", MInf, id, -1)
     \/ /\ id # NoId
        /\ \A t \in Interval : t.who = id => byId[t].live + byId[t].stubs = 0
        /\ Return("erase", MInf, id, 0)

\* Mutant: deletes under the cursor, which then skips an interval.
YieldedUnderway(id) ==
  [t \in Interval |->
     IF t = CHOOSE u \in Chain(id) : TRUE THEN byId[t].live ELSE 0]

\* The intervals the cursor yields, each as often as it does.
Yielded(id) == [t \in Interval |-> IF t.who = id THEN byId[t].live ELSE 0]

EraseCollect(id) ==
  /\ doing = Idle
  /\ id # NoId
  /\ \E t \in Interval : t.who = id /\ byId[t].live + byId[t].stubs > 0
  /\ todo' = Yielded(id)
  /\ doing' = [op |-> "erase", id |-> id]
  /\ UNCHANGED <<maps, done, reply>>

EraseDel(t) ==
  /\ doing.op = "erase"
  /\ todo[t] > 0
  /\ Del(t)
  /\ todo' = [todo EXCEPT ![t] = @ - 1]
  /\ UNCHANGED <<doing, done, reply>>

Mopped(id) ==
  [t \in Interval |-> IF t.who = id THEN [live |-> 0, stubs |-> 0] ELSE byId[t]]

\* Mutant: mops up before everything is deleted.
EraseMopEarly ==
  /\ doing.op = "erase"
  /\ byId' = Mopped(doing.id)
  /\ UNCHANGED <<prim, byMax, todo>>
  /\ Return("erase", MInf, doing.id, 0)

\* corm_del_all of what is left in the id index, which leaves the max index alone.
EraseMop ==
  /\ doing.op = "erase"
  /\ todo = Nothing
  /\ byId' = Mopped(doing.id)
  /\ UNCHANGED <<prim, byMax, todo>>
  /\ Return("erase", MInf, doing.id, 0)

\* The store is closed and opened again: tidbs_init fills the indexes anew.
Reopen ==
  /\ doing = Idle
  /\ byMax' = Filled(prim)
  /\ byId' = Filled(prim)
  /\ UNCHANGED <<prim, doing, todo, done, reply>>

INext ==
  \/ \E id \in Ids :
       \/ \E ts \in MInf..Inf : JointStart(ts, id) \/ JointStop(ts, id) \/ FinishDel(ts, id)
       \/ EraseNobody(id)
       \/ EraseCollect(id)
  \/ FinishPut
  \/ \E t \in Interval : EraseDel(t)
  \/ EraseMop
  \/ Reopen

ISpec == IInit /\ [][INext]_ivars

-----------------------------------------------------------------------------

\* The call that is in progress has the arguments and the intervals that go
\* with it.
ITypeOK ==
  /\ prim \subseteq Interval /\ done \subseteq Interval
  /\ byMax \in [Interval -> Entry] /\ byId \in [Interval -> Entry]
  /\ todo \in [Interval -> Nat]
  /\ \/ doing = Idle
     \/ /\ doing.op = "stop" /\ doing.put \in Interval
        /\ Accepted(doing.ts, doing.id) /\ doing.put.who = doing.id
     \/ doing.op = "erase" /\ doing.id \in Ids \ {NoId}
  /\ doing.op # "erase" => todo = Nothing

\* What joint_iter finds through the max index, what a call finds through the
\* id index and what the next joint_close writes from the primary map are the
\* same intervals, between the steps of a call as well, after whatever repeated
\* backfills, erases and reopenings.
ReadersAgree ==
  \A t \in Interval :
    /\ t \in prim <=> byMax[t].live > 0
    /\ t \in prim <=> byId[t].live > 0

\* A call that takes several steps on three maps does, whatever duplicates it
\* meets, what the call of module Timeline does in one step on one set.
T == INSTANCE Timeline WITH ti <- done, call <- reply, Times <- MInf..Inf

ImplementsTimeline == T!Spec
=============================================================================
