-------------------------------- MODULE Axis --------------------------------
(***************************************************************************)
(* The store adapter of src/libjoint.c over the interval store: what       *)
(* rec_axis_store, rec_axis_store_typed and rec_axis_unstore make of a     *)
(* value, and the round trip through rec_axis_readback.                    *)
(*                                                                         *)
(* A value is text in one of the forms "A" (open), ",B" (close or          *)
(* backfill) and "A,B" (atomic).  The adapter looks for the first comma    *)
(* and the first colon: a colon before the comma makes everything from it  *)
(* on a payload.  The colons of a time of day count, too.  A text that     *)
(* names an instant is a record of its style and the instant.              *)
(*                                                                         *)
(* The two native calls of the atomic form are two steps; nothing comes    *)
(* between them.                                                           *)
(***************************************************************************)
EXTENDS Timeline, SequencesExt

CONSTANTS
  Midnights,   \* the instants printtime prints as a date alone
  Texts,       \* the texts that name an instant and are written in values
  NoText,      \* an empty part of a value, or no comma
  Junk         \* a text that names none

Text == [style : {"date", "stamp", "epoch"}, t : MInf..Inf]

ASSUME TextAssumption ==
  /\ Texts \subseteq {x \in Text : x.t \in Times}
  /\ NoText \notin Text /\ Junk \notin Text

VARIABLES
  pending,     \* the B of an atomic store whose joint_stop is still to come, or MInf
  reply,       \* the last adapter call: its ref, the instants its value named
               \* (MInf for none) and what it returned
  owner,       \* whose entries a consumer is storing back
  saved,       \* the intervals rec_axis_readback printed, in its order
  at,          \* the position of the next entry to store back
  doing        \* "restating" them, "restoring" them after an unstore, or "none"

avars == <<ti, call, pending, reply, owner, saved, at, doing>>
trip  == <<owner, saved, at, doing>>

Values(texts) ==
  [left : texts \cup {NoText, Junk}, payload : BOOLEAN, right : texts \cup {NoText, Junk}]

Idle == pending = MInf

-----------------------------------------------------------------------------
(* The grammar.                                                            *)

ColonFirst(v) == v.payload \/ (v.left \in Text /\ v.left.style = "stamp")

HasComma(v) == v.right # NoText /\ ~ ColonFirst(v)

Whole(v) == ~ v.payload /\ v.right = NoText

\* joint_date_parse of the whole value, or of a leading date: an epoch must be
\* the whole value.
NamesOpen(v) ==
  ~ HasComma(v) /\ v.left \in Text /\ (Whole(v) \/ v.left.style # "epoch")

NamesStop(v) == HasComma(v) /\ v.left = NoText /\ v.right \in Text

NamesBoth(v) ==
  HasComma(v) /\ v.left \in Text /\ v.right \in Text /\ v.left.t < v.right.t

\* Mutant: no guard.
NeverRestated(ref, mn, mx) == FALSE

\* Mutant: forgets to compare the begin.
RestatedEnd(ref, mn, mx) == \E t \in OwnedBy(ti, ref) : t.max = mx

\* joint_has_interval
Restated(ref, mn, mx) == \E t \in OwnedBy(ti, ref) : t.min = mn /\ t.max = mx

-----------------------------------------------------------------------------

AInit ==
  /\ Init
  /\ pending = MInf
  /\ reply = [ref |-> NoId, from |-> MInf, to |-> MInf, ret |-> 0]
  /\ owner = NoId /\ saved = <<>> /\ at = 1 /\ doing = "none"

Answer(ref, a, b, ret) == reply' = [ref |-> ref, from |-> a, to |-> b, ret |-> ret]

\* The native 1s are absorbed.
Absorbed == IF call'.ret = -1 THEN -1 ELSE 0

Nothing(ref, a, b, ret) == UNCHANGED <<ti, call, pending>> /\ Answer(ref, a, b, ret)

StoreOpen(ref, a) ==
  IF Restated(ref, a, Inf)
    THEN Nothing(ref, a, MInf, 0)
    ELSE Start(a, ref) /\ pending' = MInf /\ Answer(ref, a, MInf, Absorbed)

StoreStop(ref, b) ==
  IF Restated(ref, MInf, b)
    THEN Nothing(ref, MInf, b, 0)
    ELSE Stop(b, ref) /\ pending' = MInf /\ Answer(ref, MInf, b, Absorbed)

StoreBoth(ref, a, b) ==
  IF Restated(ref, a, b)
    THEN Nothing(ref, a, b, 0)
    ELSE /\ Start(a, ref)
         /\ pending' = IF call'.ret = -1 THEN MInf ELSE b
         /\ Answer(ref, a, b, Absorbed)

\* joint_store_impl
Store(ref, v) ==
  \/ /\ ref = NoId \/ ~ (NamesOpen(v) \/ NamesStop(v) \/ NamesBoth(v))
     /\ Nothing(ref, MInf, MInf, -1)
  \/ ref # NoId /\ NamesOpen(v) /\ StoreOpen(ref, v.left.t)
  \/ ref # NoId /\ NamesStop(v) /\ StoreStop(ref, v.right.t)
  \/ ref # NoId /\ NamesBoth(v) /\ StoreBoth(ref, v.left.t, v.right.t)

\* The second half of the atomic form.
FinishBoth ==
  /\ ~ Idle
  /\ Stop(pending, reply.ref)
  /\ pending' = MInf
  /\ Answer(reply.ref, reply.from, reply.to, Absorbed)
  /\ UNCHANGED trip

-----------------------------------------------------------------------------
(* The callers.                                                            *)

\* A consumer that stores entries back does nothing else meanwhile.
Free == Idle /\ (doing = "none" \/ at > Len(saved))

Forgo == owner' = NoId /\ saved' = <<>> /\ at' = 1 /\ doing' = "none"

StoreValue(ref, v) == Free /\ Store(ref, v) /\ Forgo

\* Mutant: prints the time of day always.
ShowStamp(t) == [style |-> "stamp", t |-> t]

\* printtime
Show(t) == [style |-> IF t \in Midnights THEN "date" ELSE "stamp", t |-> t]

\* rec_axis_store_typed with a token blob that holds the instant ts, or none
\* (MInf).  A text blob goes the way of StoreValue.
StoreTokens(ref, ts) ==
  /\ Free
  /\ \/ ref = NoId /\ Nothing(ref, MInf, MInf, -1)
     \/ ref # NoId /\ ts = MInf /\ Nothing(ref, MInf, MInf, 0)
     \/ ref # NoId /\ ts # MInf /\ StoreOpen(ref, ts)
  /\ Forgo

\* What rec_axis_readback prints of an interval.
Entry(t) ==
  CASE t.min = MInf /\ t.max # Inf ->
         [left |-> NoText, payload |-> FALSE, right |-> Show(t.max)]
    [] t.min # MInf /\ t.max = Inf ->
         [left |-> Show(t.min), payload |-> FALSE, right |-> NoText]
    [] OTHER ->
         [left |-> Show(t.min), payload |-> FALSE, right |-> Show(t.max)]

\* rec_axis_readback prints the intervals in the order of the id index.
Readback(ref) ==
  /\ Free
  /\ OwnedBy(ti, ref) # {}
  /\ owner' = ref
  /\ saved' \in SetToSeqs(OwnedBy(ti, ref))
  /\ at' = 1
  /\ doing' = "restating"
  /\ UNCHANGED <<ti, call, pending, reply>>

\* rec_axis_unstore.  A consumer that has read an entity back may unstore it
\* and store the entries anew.
Unstore(ref) ==
  /\ Erase(ref)
  /\ Answer(ref, MInf, MInf, Absorbed)
  /\ pending' = pending
  /\ \/ Free /\ Forgo
     \/ /\ Idle /\ doing = "restating" /\ at = 1 /\ ref = owner
        /\ doing' = "restoring"
        /\ UNCHANGED <<owner, saved, at>>

StoreBack ==
  /\ Idle /\ doing # "none" /\ at <= Len(saved)
  /\ Store(owner, Entry(saved[at]))
  /\ at' = at + 1
  /\ UNCHANGED <<owner, saved, doing>>

ANext ==
  \/ \E ref \in Ids, v \in Values(Texts) : StoreValue(ref, v)
  \/ \E ref \in Ids, ts \in {MInf} \cup {x \in Times : Finite(x)} : StoreTokens(ref, ts)
  \/ \E ref \in Ids : Readback(ref)
  \/ \E ref \in Ids : Unstore(ref)
  \/ FinishBoth
  \/ StoreBack

ASpec == AInit /\ [][ANext]_avars

-----------------------------------------------------------------------------

Owned == OwnedBy(ti, owner)

\* Intervals the store may hold when callers name instants of Times.
Given == {t \in Interval : /\ Storable(t)
                           /\ t.min \in Times \cup {MInf}
                           /\ t.max \in Times \cup {Inf}}

ATypeOK ==
  /\ ti \subseteq Given
  /\ pending \in Times \cup {MInf}
  /\ reply \in [ref : Ids \cup {NoId}, from : Times \cup {MInf},
                to : Times \cup {MInf}, ret : {-1, 0}]
  /\ owner \in Ids \cup {NoId}
  /\ saved \in Seq(Given)
  /\ at \in 1..(Len(saved) + 1)
  /\ doing \in {"none", "restating", "restoring"}

\* A store that names a start and answers 0 leaves its entity there at that
\* instant: the guards and absorbed replies hide no loss.
StoredIsThere ==
  Idle /\ reply.ret = 0 /\ reply.from # MInf => Present(ti, reply.from, reply.ref)

\* Storing again what readback printed changes nothing, in whatever order and
\* however the entity's intervals overlap, as long as none is empty or
\* inverted.  (It is what the exact-duplicate guard is for: a consumer that
\* indexes an entity twice.)
ReindexIsNoop ==
  doing = "restating" /\ NonEmpty(ToSet(saved)) => Owned = ToSet(saved)

\* An entity that was read back and unstored is restored by storing what was
\* printed, if its intervals lie apart, the closed ones begin at midnight, and
\* the open one is printed last.
Restored == doing = "restoring" /\ Idle /\ at > Len(saved)

Regular == Apart(ToSet(saved)) /\ NonEmpty(ToSet(saved))

OpenLast == \A k \in 1..(Len(saved) - 1) : saved[k].max # Inf

RestoreIsExact ==
  Restored /\ Regular /\ OpenLast
    /\ (\A t \in ToSet(saved) : IsClosed(t) => t.min \in Midnights)
  => Owned = ToSet(saved)

\* "A,B" is two native calls.  If the entity was absent at A, the pair leaves it
\* there throughout [A, B), whichever open interval the stop closes.
AtomicCovers ==
  [][~ Idle /\ call.ret = 0 =>
       \A t \in reply.from..(pending - 1) : Present(ti', t, reply.ref)]_avars

-----------------------------------------------------------------------------
(* What the comments say and the code does not do.                         *)

\* libjoint.c:1560 on the entries readback prints: "round-trippable back
\* through store".
RoundTrips == Restored /\ Regular /\ OpenLast => Owned = ToSet(saved)
=============================================================================
