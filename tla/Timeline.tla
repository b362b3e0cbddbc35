------------------------------ MODULE Timeline ------------------------------
(***************************************************************************)
(* The interval store behind one handle: what joint_start, joint_stop and  *)
(* joint_erase do to the intervals of src/libjoint.c.                      *)
(*                                                                         *)
(* The primary map `ti` is keyed by the whole struct ti, so the store is a *)
(* set of intervals.  The code reads it through the secondary indexes `max`*)
(* and `id`, and the model reads the set: module Indexes has the maps and  *)
(* the steps of each call, and implements this one.                        *)
(*                                                                         *)
(* A caller may pass any time_t and any id, in any order: nothing here     *)
(* assumes that the calls of one entity come in time order (module         *)
(* Sessions adds that discipline).                                         *)
(***************************************************************************)
EXTENDS Calls

CONSTANT Times   \* the time_t values callers pass

ASSUME TimeAssumption == Times \subseteq MInf..Inf

VARIABLES
  ti,          \* the intervals stored
  call         \* the last call that returned, with its arguments and reply

vars == <<ti, call>>

Reply(op, ts, id, ret) == call' = [op |-> op, ts |-> ts, id |-> id, ret |-> ret]

-----------------------------------------------------------------------------

Init ==
  /\ ti = {}
  /\ call = [op |-> "none", ts |-> MInf, id |-> NoId, ret |-> 0]

\* Mutant: forgets to ask ti_present.
StartAnyway(ts, id) ==
  IF Accepted(ts, id)
    THEN ti' = Insert(ti, id, ts, Inf) /\ Reply("start", ts, id, 0)
    ELSE ti' = ti /\ Reply("start", ts, id, -1)

Start(ts, id) ==
  \/ /\ ~ Accepted(ts, id)
     /\ ti' = ti
     /\ Reply("start", ts, id, -1)
  \/ /\ Accepted(ts, id)
     /\ Present(ti, ts, id)
     /\ ti' = ti
     /\ Reply("start", ts, id, 1)
  \/ /\ Accepted(ts, id)
     /\ ~ Present(ti, ts, id)
     /\ ti' = Insert(ti, id, ts, Inf)
     /\ Reply("start", ts, id, 0)

Stop(ts, id) ==
  \/ /\ ~ Accepted(ts, id)
     /\ ti' = ti
     /\ Reply("stop", ts, id, -1)
  \/ /\ Accepted(ts, id)
     /\ ~ Present(ti, ts, id)
     /\ ti' = Insert(ti, id, MInf, ts)
     /\ Reply("stop", ts, id, 1)
  \/ /\ Accepted(ts, id)
     /\ Present(ti, ts, id)
     /\ ti' \in FinishLast(ti, id, ts)
     /\ Reply("stop", ts, id, 0)

\* joint_erase takes no timestamp: the one in `call` is a filler.
Erase(id) ==
  \/ /\ id = NoId
     /\ ti' = ti
     /\ Reply("erase", MInf, id, -1)
  \/ /\ id # NoId
     /\ ti' = ti \ OwnedBy(ti, id)
     /\ Reply("erase", MInf, id, 0)

Next ==
  \/ \E ts \in Times, id \in Ids : Start(ts, id)
  \/ \E ts \in Times, id \in Ids : Stop(ts, id)
  \/ \E id \in Ids : Erase(id)

Spec == Init /\ [][Next]_vars

-----------------------------------------------------------------------------
(* What the store holds.  There are three kinds of intervals, told apart   *)
(* by their sentinels; rec_axis_readback prints one grammar form for each. *)

Finite(x) == TsLo <= x /\ x <= TsHi

IsOpen(t)     == Finite(t.min) /\ t.max = Inf
IsBackfill(t) == t.min = MInf /\ Finite(t.max)
IsClosed(t)   == Finite(t.min) /\ Finite(t.max)

Storable(t) == t.who # NoId /\ (IsOpen(t) \/ IsBackfill(t) \/ IsClosed(t))

\* Type correctness: every stored interval belongs to an admissible id and is
\* open, a backfill or closed.  No call sequence stores an interval unbounded
\* on both sides, which readback could not print in the store grammar.
TypeOK ==
  /\ ti \subseteq Interval
  /\ \A t \in ti : Storable(t)
  /\ call.ret \in {-1, 0, 1}

\* A call changes only the intervals of the entity it names, and a refused
\* call changes none (joint.h on joint_erase: "Neighboring entities'
\* intervals are unaffected").
NeighboursKept ==
  [][\A t \in (ti \ ti') \cup (ti' \ ti) :
       t.who = call'.id /\ call'.ret # -1]_vars

\* Recorded history is permanent: joint_start and joint_stop never remove or
\* move a bounded interval, and an open one either stays or keeps its start as
\* it is closed.  Only an erase of the entity forgets.  It is what the code
\* does; QUICK_REFERENCE.md:288 says otherwise of a stop that is repeated
\* later (StopAgainMoves, below).
HistoryKept ==
  [][call'.op # "erase" =>
       \A t \in ti \ ti' :
         /\ t.max = Inf
         /\ \E u \in ti' : u.min = t.min /\ u.who = t.who]_vars

\* A call at ts changes who was there on one side of ts only, whatever was
\* called before and in whatever order: a start and a stop that closes leave
\* every instant before ts as it was, a stop that backfills leaves every
\* instant from ts on.  A start only adds presence; a closing stop only takes
\* presence away.
TimeLocal ==
  [][\A id \in Ids, t \in MInf..(Inf - 1) :
       LET was == Present(ti, t, id)
           is  == Present(ti', t, id)
       IN /\ call'.op = "start" =>
               (was => is) /\ (t < call'.ts => (is => was))
          /\ call'.op = "stop" /\ call'.ret = 0 =>
               (is => was) /\ (t < call'.ts => (was => is))
          /\ call'.op = "stop" /\ call'.ret = 1 =>
               (was => is) /\ (t >= call'.ts => (is => was))]_vars

-----------------------------------------------------------------------------
(* What the documents say and the code does not do.                        *)

\* joint.h:136 on joint_start: "If an entity already has an open interval,
\* this function returns 1 and does not create a duplicate."
OneOpenInterval ==
  \A id \in Ids : \A t, u \in OpenOf(ti, id) : t = u

\* QUICK_REFERENCE.md:287-288 on a second stop, at the same timestamp: "OK:
\* idempotent", and at a later one: "Updates to new stop time".  That is: when
\* the last thing known of an entity is that it stopped, a stop repeated there
\* changes nothing, as a caller needs who did not see the reply, and a later one
\* moves that end and does nothing else.
StopAgainMoves ==
  [][\A t \in ti :
       /\ call'.op = "stop" /\ call'.ret # -1 /\ call'.id = t.who
       /\ IsClosed(t) /\ t.min < t.max /\ t.max <= call'.ts
       /\ \A u \in OwnedBy(ti, t.who) : u.max <= t.max
       => ti' = (ti \ {t}) \cup {Close(t, call'.ts)}]_vars
=============================================================================
