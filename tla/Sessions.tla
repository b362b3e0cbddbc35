------------------------------ MODULE Sessions ------------------------------
(***************************************************************************)
(* Timeline driven by callers who keep time, which is an assumption about *)
(* them and nothing the code enforces: the timestamps of one entity        *)
(* strictly increase, and an entity that has left is not stopped again     *)
(* before it starts anew (repeated starts, refused calls and a first call  *)
(* that is a stop are all allowed).  The documents' examples keep to it;   *)
(* the tests do not always (start_stop_same_time in src/test.c stops at    *)
(* the timestamp of the start).  Under this discipline the store is well   *)
(* formed, and what it means is module Presence.                           *)
(***************************************************************************)
EXTENDS Timeline

VARIABLES
  clock,       \* clock[id]: the timestamp of the entity's last accepted call
  phase        \* phase[id]: "new", "in" or "out", what the caller last said

svars == <<ti, call, clock, phase>>

SInit ==
  /\ Init
  /\ clock = [id \in Ids |-> MInf]
  /\ phase = [id \in Ids |-> "new"]

\* The caller learns from the reply whether the call counted.
Advance(ts, id, to) ==
  IF call'.ret = -1
    THEN UNCHANGED <<clock, phase>>
    ELSE /\ clock' = [clock EXCEPT ![id] = ts]
         /\ phase' = [phase EXCEPT ![id] = to]

SStart(ts, id) ==
  /\ clock[id] < ts
  /\ Start(ts, id)
  /\ Advance(ts, id, "in")

SStop(ts, id) ==
  /\ clock[id] < ts
  /\ phase[id] # "out"
  /\ Stop(ts, id)
  /\ Advance(ts, id, "out")

SErase(id) ==
  /\ Erase(id)
  /\ Advance(MInf, id, "new")

SNext ==
  \/ \E ts \in Times, id \in Ids : SStart(ts, id)
  \/ \E ts \in Times, id \in Ids : SStop(ts, id)
  \/ \E id \in Ids : SErase(id)

SSpec == SInit /\ [][SNext]_svars

-----------------------------------------------------------------------------

STypeOK ==
  /\ TypeOK
  /\ clock \in [Ids -> MInf..Inf]
  /\ phase \in [Ids -> {"new", "in", "out"}]

\* A time-keeping caller's store never holds an empty or inverted interval,
\* nor two intervals of an entity that overlap or touch.
WellFormed == Apart(ti) /\ NonEmpty(ti)

\* The store agrees with what the caller believes: an entity that is in has
\* exactly one open interval, started no later than its clock; one that is
\* out or new has none, and all it has lies behind its clock.
AgreesFor(id) ==
  /\ phase[id] = "new" => OwnedBy(ti, id) = {}
  /\ phase[id] = "in" => \E o \in OpenOf(ti, id) : OpenOf(ti, id) = {o}
  /\ phase[id] = "out" => OpenOf(ti, id) = {}
  /\ \A t \in OwnedBy(ti, id) :
       IF t.max = Inf THEN t.min <= clock[id] ELSE t.max <= clock[id]

PhaseAgrees == \A id \in Ids : AgreesFor(id)

\* The refinement: an entity is there at the instants its intervals cover.
Instants == MInf..(Inf - 1)

Here == [id \in Ids |-> {t \in Instants : Present(ti, t, id)}]

Promise == INSTANCE Presence WITH
             Moments <- {ts \in Instants : Finite(ts)},
             here <- Here

\* Sessions implements Presence: every call of a time-keeping caller changes
\* presence exactly as promised, or not at all.
PresenceSpec == Promise!Spec
=============================================================================
