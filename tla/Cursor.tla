------------------------------- MODULE Cursor -------------------------------
(***************************************************************************)
(* joint_iter and joint_next over the store of Timeline, while other calls *)
(* go on changing it.  joint_iter answers the whole query at once into a   *)
(* list of splits; joint_next hands them out one (split, entity) row at a  *)
(* time and then says 0 for ever.  rec_axis_fill_interval is this loop.    *)
(*                                                                         *)
(* Every joint_iter allocates a cursor of its own and nothing joins two of *)
(* them but the store, so one cursor is followed.                          *)
(***************************************************************************)
EXTENDS Timeline, Splits

CONSTANTS
  Windows,       \* the (start, end) pairs callers ask about
  MaxIntervals,  \* bound on the size of the store
  MaxChurn       \* bound on the calls made while the cursor is open

ASSUME WindowAssumption == Windows \subseteq Int \X Int

VARIABLES
  rest,          \* the splits from internal->next on
  status,        \* "idle", "open", "done", or "dead" once the process crashed
  asked,         \* history: the store and the window joint_iter saw
  got,           \* history: the rows joint_next has returned since
  churn          \* the calls made since joint_iter, at most MaxChurn

cvars == <<ti, call, rest, status, asked, got, churn>>

CInit ==
  /\ Init
  /\ rest = <<>>
  /\ status = "idle"
  /\ asked = [store |-> {}, from |-> MInf, to |-> MInf]
  /\ got = {}
  /\ churn = 0

\* joint_start, joint_stop and joint_erase, at any time.
Mutate ==
  /\ \/ status = "idle" /\ churn' = churn
     \/ status = "open" /\ churn < MaxChurn /\ churn' = churn + 1
  /\ Next
  /\ Cardinality(ti') <= MaxIntervals
  /\ UNCHANGED <<rest, status, asked, got>>

Iter(w) ==
  /\ status = "idle"
  /\ asked' = [store |-> ti, from |-> w[1], to |-> w[2]]
  /\ UNCHANGED <<ti, call, got, churn>>
  /\ \/ /\ QueryFaults(ti, w[1], w[2])
        /\ status' = "dead"
        /\ rest' = <<>>
     \/ /\ ~ QueryFaults(ti, w[1], w[2])
        /\ status' = "open"
        /\ rest' = Query(ti, w[1], w[2])

Unpopped == {k \in DOMAIN rest : rest[k].left # {}}

\* Mutant: counts what is left to pop.
RowLeft(s, who) ==
  [min |-> s.min, max |-> s.max, count |-> Cardinality(s.left), who |-> who]

Row(s, who) ==
  [min |-> s.min, max |-> s.max, count |-> Cardinality(s.ids), who |-> who]

\* Mutant: forgets pop--.
PopNothing(k, who) == SubSeq(rest, k, Len(rest))

Pop(k, who) == [SubSeq(rest, k, Len(rest)) EXCEPT ![1].left = @ \ {who}]

\* joint_next returns 1: it passes the splits that are consumed or that nobody
\* is in, and pops an id.  The order of the ids within a split is that of the
\* slots of a hash table: any of them may be next.
Deliver ==
  /\ status = "open"
  /\ Unpopped # {}
  /\ LET k == Min(Unpopped)
     IN \E who \in rest[k].left :
          /\ rest' = Pop(k, who)
          /\ got' = got \cup {Row(rest[k], who)}
  /\ UNCHANGED <<ti, call, status, asked, churn>>

\* joint_next returns 0.
Exhaust ==
  /\ status = "open"
  /\ Unpopped = {}
  /\ rest' = <<>>
  /\ status' = "done"
  /\ UNCHANGED <<ti, call, asked, got, churn>>

CNext ==
  \/ Mutate
  \/ \E w \in Windows : Iter(w)
  \/ Deliver
  \/ Exhaust

\* A caller loops on joint_next until it returns 0.
CSpec == CInit /\ [][CNext]_cvars /\ WF_cvars(Deliver \/ Exhaust)

-----------------------------------------------------------------------------

There(S, t) == {id \in Ids : Present(S, t, id)}

Reported(t) == {r.who : r \in {q \in got : q.min <= t /\ t < q.max}}

\* No ghosts: a row lies within the window, and its entity was there during
\* the whole of it in the store joint_iter saw, whatever has been called since.
\* It needs of the store only that no interval is inverted.
RowsAreTrue ==
  Ordered(asked.store) =>
    \A r \in got :
      /\ asked.from <= r.min /\ r.min < r.max /\ r.max <= asked.to
      /\ \A t \in r.min..(r.max - 1) : r.who \in There(asked.store, t)

\* When joint_next says 0 the rows tell exactly who was there at every instant
\* of the window, provided the intervals of each entity lie apart.  (The two
\* clocks of an interval, clipped to the window, decide it: the gaps that
\* splits_fill asks about again and the empty splits it replaces included.)
AnswerIsExact ==
  status = "done" /\ Apart(asked.store) /\ Ordered(asked.store) =>
    \A t \in asked.from..(asked.to - 1) : Reported(t) = There(asked.store, t)

\* The count joint_next reports is the number of rows of that split it
\* returns, and the splits of one answer do not overlap (joint.h: "keep calling
\* joint_next() until count entities are retrieved for that time segment").
CountIsHonest ==
  status = "done" /\ Ordered(asked.store) =>
    \A r \in got :
      LET same == {q \in got : q.min = r.min}
      IN /\ Cardinality(same) = r.count
         /\ \A q \in got \ same : q.max <= r.min \/ r.max <= q.min

\* Rows come in time order: joint_next never returns to an earlier split.
InTimeOrder ==
  [][Ordered(asked.store) =>
       \A r \in got' \ got, q \in got : q.min <= r.min]_cvars

\* The sweep runs into the unallocated set only for a reversed window or a
\* store with an inverted interval.
DiesOnlyDisordered ==
  status = "dead" => asked.from > asked.to \/ ~ Ordered(asked.store)

\* An opened cursor is drained, however often the store changes meanwhile: it
\* is a snapshot.
Drains == status = "open" ~> status = "done"

-----------------------------------------------------------------------------
(* What the documents say and the code does not do.                        *)

\* joint.h:272 on rec_axis_fill_interval: "Every entity present at any point
\* in [a, b) becomes one ref in `out`".  It fails for intervals of one entity
\* that touch or overlap: where one ends the sweep counts the entity out.
FillFindsEveryone ==
  status = "done" /\ NonEmpty(asked.store) =>
    \A t \in asked.from..(asked.to - 1) :
      There(asked.store, t) \subseteq {r.who : r \in got}
=============================================================================
